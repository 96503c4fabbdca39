------------------------ MODULE WorktreeQueueProofs ------------------------
(***************************************************************************)
(* The limit on worktrees, who is started, that nobody is forgotten and    *)
(* that no worktree is lost, proved for any number of sessions, daemons,   *)
(* clients, runners and slots.                                             *)
(***************************************************************************)
EXTENDS WorktreeQueue, FiniteSetTheorems, SequenceTheorems, TLAPS

Stages == {"idle", "queue", "look", "skip", "create", "fail", "attach", "spawn",
           "started"}
Places == {"idle", "make", "insert", "enqueue", "spawn", "unmake", "stop",
           "rmClear", "rmDelete", "clear", "delete", "setPending", "respawn"}

\* The part of TypeOK that the argument needs.
Shape ==
  /\ tree \in [Sessions -> BOOLEAN]
  /\ pass \in [Daemons -> Stages] /\ free \in [Daemons -> 0..Slots]
  /\ pc \in [Clients -> Places] /\ had \in [Clients -> BOOLEAN]
  /\ raced \in BOOLEAN

Taken(d) == IF pass[d] \in {"spawn", "started"} THEN 1 ELSE 0

\* A pass under way has a slot to give, and an idle client no worktree.
SlotInHand ==
  /\ \A d \in Daemons : pass[d] # "idle" => free[d] > 0
  /\ \A c \in Clients : pc[c] = "idle" => ~had[c]

\* Without a race there is one allocator of slots.
Exclusive ==
  /\ \A d, e \in Daemons : pass[d] # "idle" /\ pass[e] # "idle" => d = e
  /\ \A c, e \in Clients : Claims(c) /\ Claims(e) => c = e
  /\ \A d \in Daemons, c \in Clients : pass[d] # "idle" => ~Claims(c)

\* What it has counted still holds.
Counted ==
  /\ Cardinality(Attached) <= Slots
  /\ \A c \in Clients : Claims(c) => Cardinality(Attached) < Slots
  /\ \A d \in Daemons :
       pass[d] # "idle" => Cardinality(Attached) + free[d] <= Slots + Taken(d)

LimitInv == Shape /\ SlotInHand /\ (raced \/ (Exclusive /\ Counted))

LEMMA AttachedIsFinite ==
  /\ IsFiniteSet(Attached) /\ Cardinality(Attached) \in Nat
  /\ IsFiniteSet(Attached') /\ Cardinality(Attached)' \in Nat
<1>1. Attached \subseteq Sessions /\ Attached' \subseteq Sessions
  BY DEF Attached
<1>2. IsFiniteSet(Attached) /\ IsFiniteSet(Attached')
  BY <1>1, QueueAssumption, FS_Subset DEF QueueAssumption
<1>3. QED
  BY <1>2, FS_CardinalityType

\* Detaching worktrees never raises the count, attaching one raises it by at
\* most one.
LEMMA DetachCount ==
  ASSUME \A s \in Sessions : tree'[s] => tree[s]
  PROVE  Cardinality(Attached)' <= Cardinality(Attached)
<1>1. Attached' \subseteq Attached
  BY DEF Attached
<1> HIDE DEF Attached
<1>2. QED
  BY <1>1, AttachedIsFinite, FS_Subset

LEMMA AttachCount ==
  ASSUME NEW t, \A s \in Sessions : tree'[s] => tree[s] \/ s = t
  PROVE  Cardinality(Attached)' <= Cardinality(Attached) + 1
<1>1. Attached' \subseteq Attached \cup {t}
  BY DEF Attached
<1>2. /\ IsFiniteSet(Attached \cup {t})
      /\ Cardinality(Attached \cup {t}) \in Nat
      /\ Cardinality(Attached \cup {t}) <= Cardinality(Attached) + 1
  BY AttachedIsFinite, FS_AddElement, FS_CardinalityType
<1>3. Cardinality(Attached)' <= Cardinality(Attached \cup {t})
  BY <1>1, <1>2, FS_Subset
<1>4. QED
  BY <1>2, <1>3, AttachedIsFinite

(***************************************************************************)
(* Steps in which nobody counts and no worktree is attached.               *)
(***************************************************************************)
LEMMA QuietStep ==
  ASSUME LimitInv, Shape', SlotInHand', raced' = raced,
         \A s \in Sessions : tree'[s] => tree[s],
         \A c \in Clients : Claims(c)' => Claims(c),
         \A d \in Daemons : pass'[d] # "idle" =>
           pass[d] # "idle" /\ free'[d] + Taken(d) <= free[d] + Taken(d)'
  PROVE  LimitInv'
<1>1. SUFFICES ASSUME ~raced PROVE Exclusive' /\ Counted'
  BY DEF LimitInv
<1>2. Exclusive /\ Counted
  BY <1>1 DEF LimitInv
<1>3. Exclusive'
  BY <1>2 DEF Exclusive
<1> DEFINE n == Cardinality(Attached)
<1>4. n' <= n /\ n \in Nat /\ n' \in Nat /\ Slots \in Nat
  BY DetachCount, AttachedIsFinite, QueueAssumption DEF QueueAssumption
<1>5. /\ n <= Slots
      /\ \A c \in Clients : Claims(c) => n < Slots
      /\ \A d \in Daemons : pass[d] # "idle" => n + free[d] <= Slots + Taken(d)
  BY <1>2 DEF Counted
<1> HIDE DEF n
<1>6. n' <= Slots /\ \A c \in Clients : Claims(c)' => n' < Slots
  BY <1>4, <1>5
<1>7. \A d \in Daemons : pass'[d] # "idle" => n' + free'[d] <= Slots + Taken(d)'
  <2>1. \A d \in Daemons : /\ free[d] \in Nat /\ free'[d] \in Nat
                           /\ Taken(d) \in Nat /\ Taken(d)' \in Nat
    BY DEF LimitInv, Shape, Taken
  <2>2. QED
    BY <2>1, <1>4, <1>5
<1>8. QED
  BY <1>3, <1>6, <1>7 DEF Counted, n

\* What a client does besides launching.
LEMMA QuietClient ==
  ASSUME LimitInv, NEW c \in Clients,
         UNCHANGED passVars, raced' = raced,
         \A s \in Sessions : tree'[s] => tree[s],
         tree' \in [Sessions -> BOOLEAN],
         NEW l \in Places, NEW w \in BOOLEAN,
         pc' = [pc EXCEPT ![c] = l], had' = [had EXCEPT ![c] = w],
         l = "idle" => ~w,
         (l = "make" \/ (l = "insert" /\ w)) => Claims(c)
  PROVE  LimitInv'
<1>1. Shape'
  BY DEF LimitInv, Shape, passVars
<1>2. SlotInHand'
  BY DEF LimitInv, Shape, SlotInHand, passVars
<1>3. \A e \in Clients : Claims(e)' => Claims(e)
  BY DEF Claims, LimitInv, Shape
<1>4. \A d \in Daemons : pass'[d] = pass[d] /\ free'[d] = free[d]
                         /\ Taken(d)' = Taken(d) /\ free[d] \in Nat /\ Taken(d) \in Nat
  BY DEF passVars, Taken, LimitInv, Shape
<1>5. QED
  BY <1>1, <1>2, <1>3, <1>4, QuietStep

\* What a daemon does besides counting and attaching.
LEMMA QuietDaemon ==
  ASSUME LimitInv, NEW d \in Daemons, pass[d] # "idle",
         UNCHANGED <<tree, pc, had, raced>>,
         NEW l \in Stages, NEW n \in 0..Slots,
         pass' = [pass EXCEPT ![d] = l], free' = [free EXCEPT ![d] = n],
         l # "idle" => n > 0,
         LET taken == IF l \in {"spawn", "started"} THEN 1 ELSE 0 IN
           l = "idle" \/ n + Taken(d) <= free[d] + taken
  PROVE  LimitInv'
<1>1. Shape'
  BY DEF LimitInv, Shape
<1>2. SlotInHand'
  BY DEF LimitInv, Shape, SlotInHand
<1>3. \A c \in Clients : Claims(c)' => Claims(c)
  BY DEF Claims
<1>4. \A e \in Daemons : pass'[e] # "idle" =>
           pass[e] # "idle" /\ free'[e] + Taken(e) <= free[e] + Taken(e)'
  BY DEF Taken, LimitInv, Shape
<1>5. QED
  BY <1>1, <1>2, <1>3, <1>4, QuietStep

LEMMA QuietRest ==
  ASSUME LimitInv, UNCHANGED <<tree, passVars, opVars, raced>>
  PROVE  LimitInv'
<1>1. /\ pass' = pass /\ free' = free /\ tree' = tree /\ pc' = pc /\ had' = had
      /\ raced' = raced
  BY DEF passVars, opVars
<1>2. Attached' = Attached
  BY <1>1 DEF Attached
<1>3. QED
  BY <1>1, <1>2 DEF LimitInv, Shape, SlotInHand, Exclusive, Counted, Claims, Taken

(***************************************************************************)
(* The steps of a client.                                                  *)
(***************************************************************************)
LEMMA LaunchStep ==
  ASSUME LimitInv, NEW c \in Clients, NEW s \in Sessions, Launch(c, s)
  PROVE  LimitInv'
<1> DEFINE l == IF HasSlot THEN "make" ELSE "insert"
<1>1. /\ pc' = [pc EXCEPT ![c] = l] /\ had' = had /\ UNCHANGED <<tree, passVars>>
      /\ pc[c] = "idle" /\ raced' = (raced \/ (HasSlot /\ Claimed))
  BY DEF Launch, rowVars
<1>2. ~had[c] /\ had = [had EXCEPT ![c] = FALSE]
  BY <1>1 DEF LimitInv, SlotInHand, Shape
<1>3. CASE ~HasSlot
  <2>1. raced' = raced
    BY <1>1, <1>3 DEF LimitInv, Shape
  <2>2. l = "insert"
    BY <1>3
  <2>3. l \in Places /\ FALSE \in BOOLEAN /\ \A t \in Sessions : tree'[t] => tree[t]
    BY <1>1, <2>2 DEF Places
  <2>4. tree' \in [Sessions -> BOOLEAN]
    BY <1>1 DEF LimitInv, Shape
  <2>5. QED
    BY <1>1, <1>2, <2>1, <2>2, <2>3, <2>4, QuietClient DEF passVars
<1>4. CASE HasSlot /\ Claimed
  <2>1. raced'
    BY <1>1, <1>4
  <2>2. Shape' /\ SlotInHand'
    BY <1>1, <1>2, <1>4, <2>1 DEF LimitInv, Shape, SlotInHand, passVars, Places
  <2>3. QED
    BY <2>1, <2>2 DEF LimitInv
<1>5. CASE HasSlot /\ ~Claimed
  <2>1. raced' = raced
    BY <1>1, <1>5 DEF LimitInv, Shape
  <2>2. Shape' /\ SlotInHand'
    BY <1>1, <1>2, <1>5, <2>1 DEF LimitInv, Shape, SlotInHand, passVars, Places
  <2>3. \A d \in Daemons : pass'[d] = "idle"
    BY <1>1, <1>5 DEF Claimed, passVars
  <2>4. \A e \in Clients : Claims(e)' => e = c
    <3>1. \A e \in Clients : ~Claims(e)
      BY <1>5 DEF Claimed
    <3>2. QED
      BY <3>1, <1>1 DEF Claims, LimitInv, Shape
  <2>5. Exclusive'
    BY <2>3, <2>4 DEF Exclusive
  <2>6. Attached' = Attached
    BY <1>1 DEF Attached
  <2>7. Counted'
    BY <1>5, <2>3, <2>6, AttachedIsFinite, QueueAssumption
    DEF Counted, HasSlot, QueueAssumption
  <2>8. QED
    BY <2>2, <2>5, <2>7 DEF LimitInv
<1>6. QED
  BY <1>3, <1>4, <1>5

LEMMA InsertStep ==
  ASSUME LimitInv, NEW c \in Clients, insert_session(c)
  PROVE  LimitInv'
<1> DEFINE l == IF had[c] THEN "spawn" ELSE "enqueue"
<1>1. /\ pc[c] = "insert" /\ pc' = [pc EXCEPT ![c] = l] /\ had' = had
      /\ tree' = [tree EXCEPT ![on[c]] = had[c]]
      /\ UNCHANGED <<passVars, raced>>
  BY DEF insert_session, Goto, history
<1>2. had[c] \in BOOLEAN /\ had = [had EXCEPT ![c] = had[c]]
  BY DEF LimitInv, Shape
<1>3. l \in Places /\ l \notin {"idle", "make", "insert"}
  BY DEF Places
<1>4. tree' \in [Sessions -> BOOLEAN]
  BY <1>1, <1>2 DEF LimitInv, Shape
<1>5. CASE ~had[c]
  <2>1. \A s \in Sessions : tree'[s] => tree[s]
    BY <1>1, <1>5 DEF LimitInv, Shape
  <2>2. QED
    BY <1>1, <1>2, <1>3, <1>4, <2>1, QuietClient
<1>6. CASE had[c]
  <2>1. Shape' /\ SlotInHand'
    BY <1>1, <1>2, <1>3, <1>4 DEF LimitInv, Shape, SlotInHand, passVars
  <2>2. SUFFICES ASSUME ~raced PROVE Exclusive' /\ Counted'
    BY <1>1, <2>1 DEF LimitInv
  <2>3. Claims(c) /\ Exclusive /\ Counted
    BY <1>1, <1>6, <2>2 DEF LimitInv, Claims
  <2>4. \A d \in Daemons : pass'[d] = "idle"
    BY <1>1, <2>3 DEF Exclusive, LimitInv, Shape, passVars
  <2>5. \A e \in Clients : ~Claims(e)'
    <3>1. \A e \in Clients : Claims(e) => e = c
      BY <2>3 DEF Exclusive
    <3>2. QED
      BY <3>1, <1>1, <1>3 DEF Claims, LimitInv, Shape
  <2>6. Cardinality(Attached)' <= Slots
    <3>1. \A s \in Sessions : tree'[s] => tree[s] \/ s = on[c]
      BY <1>1 DEF LimitInv, Shape
    <3>2. Cardinality(Attached)' <= Cardinality(Attached) + 1
      BY <3>1, AttachCount
    <3>3. QED
      BY <3>2, <2>3, AttachedIsFinite, QueueAssumption DEF Counted, QueueAssumption
  <2>7. QED
    BY <2>4, <2>5, <2>6 DEF Exclusive, Counted
<1>7. QED
  BY <1>2, <1>5, <1>6

LEMMA ClientLimit ==
  ASSUME LimitInv, NEW c \in Clients, ClientStep(c)
  PROVE  LimitInv'
<1> DEFINE Quiet(l, w) ==
       /\ UNCHANGED passVars /\ raced' = raced
       /\ \A s \in Sessions : tree'[s] => tree[s]
       /\ tree' \in [Sessions -> BOOLEAN]
       /\ l \in Places /\ w \in BOOLEAN
       /\ pc' = [pc EXCEPT ![c] = l] /\ had' = [had EXCEPT ![c] = w]
       /\ l = "idle" => ~w
       /\ (l = "make" \/ (l = "insert" /\ w)) => Claims(c)
<1>q. ASSUME NEW l, NEW w, Quiet(l, w) PROVE LimitInv'
  BY <1>q, QuietClient
<1>t. /\ tree \in [Sessions -> BOOLEAN] /\ had[c] \in BOOLEAN
      /\ had = [had EXCEPT ![c] = had[c]] /\ pc = [pc EXCEPT ![c] = pc[c]]
  BY DEF LimitInv, Shape
<1>1. CASE MakeTree(c)
  <2>1. Quiet("insert", TRUE)
    BY <1>1, <1>t DEF MakeTree, Claims, Places, rowVars, history
  <2>2. QED
    BY <2>1, <1>q
<1>2. CASE MakeTreeFails(c) \/ enqueue_pending_worktree(c) \/ ResumeFails(c) \/ ClientCrash(c)
  <2>1. Quiet("idle", FALSE)
    BY <1>2, <1>t DEF MakeTreeFails, enqueue_pending_worktree, ResumeFails,
       ClientCrash, Leave, Places, rowVars, history
  <2>2. QED
    BY <2>1, <1>q
<1>3. CASE insert_session(c)
  BY <1>3, InsertStep
<1>4. CASE LaunchFails(c)
  <2>1. Quiet("idle", FALSE) \/ Quiet("unmake", had[c])
    BY <1>4, <1>t DEF LaunchFails, Goto, Leave, Places, history
  <2>2. QED
    BY <2>1, <1>q
<1>5. CASE StopRow(c)
  <2>1. Quiet("idle", FALSE) \/ Quiet("rmClear", had[c])
    BY <1>5, <1>t DEF StopRow, Goto, Leave, Places, history
  <2>2. QED
    BY <2>1, <1>q
<1>6. CASE RemoveTree(c)
  <2>1. Quiet("idle", FALSE) \/ Quiet("clear", had[c]) \/ Quiet("delete", had[c])
    BY <1>6, <1>t DEF RemoveTree, Goto, Leave, Places, rowVars, history
  <2>2. QED
    BY <2>1, <1>q
<1>7. CASE clear_worktree(c) \/ delete_session(c)
  <2>1. tree' = [tree EXCEPT ![on[c]] = FALSE]
    BY <1>7 DEF clear_worktree, delete_session
  <2>2. tree' \in [Sessions -> BOOLEAN] /\ \A s \in Sessions : tree'[s] => tree[s]
    BY <2>1, <1>t
  <2>3. Quiet("idle", FALSE)
    BY <1>7, <2>2 DEF clear_worktree, delete_session, Leave, Places, history
  <2>4. QED
    BY <2>3, <1>q
<1>8. CASE SetPending(c)
  <2>1. Quiet("idle", FALSE) \/ Quiet("respawn", had[c])
    BY <1>8, <1>t DEF SetPending, Goto, Leave, Places, history
  <2>2. QED
    BY <2>1, <1>q
<1>9. ASSUME NEW r \in Runners, Spawn(c, r) PROVE LimitInv'
  <2>1. Quiet("idle", FALSE)
    BY <1>9, <1>t DEF Spawn, Leave, Places, rowVars, history
  <2>2. QED
    BY <2>1, <1>q
<1>10. ASSUME NEW s \in Sessions, Launch(c, s) PROVE LimitInv'
  BY <1>10, LaunchStep
<1>11. ASSUME NEW s \in Sessions, NEW l, NEW w, Begin(c, s, l, w),
              l \in {"stop", "rmClear", "rmDelete", "delete", "setPending"},
              w \in BOOLEAN
       PROVE LimitInv'
  <2>1. Quiet(l, w)
    BY <1>11, <1>t DEF Begin, Places, rowVars
  <2>2. QED
    BY <2>1, <1>q
<1>12. ASSUME NEW s \in Sessions, Cleanup(c, s) \/ Delete(c, s) \/ Resume(c, s)
                                 \/ \E cleanup \in BOOLEAN : Stop(c, s, cleanup)
       PROVE LimitInv'
  <2>1. CASE Cleanup(c, s)
    BY <2>1, <1>11 DEF Cleanup
  <2>2. CASE Delete(c, s)
    BY <2>2, <1>11 DEF Delete
  <2>3. CASE Resume(c, s)
    BY <2>3, <1>11 DEF Resume
  <2>4. ASSUME NEW cleanup \in BOOLEAN, Stop(c, s, cleanup) PROVE LimitInv'
    <3>1. (cleanup /\ tree[s]) \in BOOLEAN
      OBVIOUS
    <3>2. QED
      BY <3>1, <2>4, <1>11 DEF Stop
  <2>5. QED
    BY <1>12, <2>1, <2>2, <2>3, <2>4
<1>13. QED
  BY <1>1, <1>2, <1>3, <1>4, <1>5, <1>6, <1>7, <1>8, <1>9, <1>10, <1>12 DEF ClientStep

(***************************************************************************)
(* The steps of a daemon.                                                  *)
(***************************************************************************)
LEMMA CountSlotsStep ==
  ASSUME LimitInv, NEW d \in Daemons, CountSlots(d)
  PROVE  LimitInv'
<1> DEFINE n == Cardinality(Attached)
<1>1. /\ pass[d] = "idle" /\ n < Slots /\ pass' = [pass EXCEPT ![d] = "queue"]
      /\ free' = [free EXCEPT ![d] = Slots - n] /\ raced' = (raced \/ Claimed)
      /\ UNCHANGED <<tree, pc, had>>
  BY DEF CountSlots, HasSlot, rowVars, opVars
<1>2. n \in Nat /\ n' = n /\ Slots \in Nat
  BY <1>1, AttachedIsFinite, QueueAssumption DEF QueueAssumption, Attached
<1>3. \A e \in Clients : Claims(e)' = Claims(e)
  BY <1>1 DEF Claims
<1> HIDE DEF n
<1>4. raced' \in BOOLEAN
  BY <1>1 DEF LimitInv, Shape
<1>5. Shape'
  BY <1>1, <1>2, <1>4 DEF LimitInv, Shape, Stages
<1>6. SlotInHand'
  BY <1>1, <1>2 DEF LimitInv, Shape, SlotInHand
<1>7. ASSUME ~raced' PROVE Exclusive' /\ Counted'
  <2>1. \A e \in Daemons : pass[e] = "idle"
    BY <1>1, <1>7 DEF Claimed
  <2>2. \A e \in Clients : ~Claims(e)
    BY <1>1, <1>7 DEF Claimed
  <2>3. Exclusive'
    BY <1>1, <1>3, <2>1, <2>2 DEF Exclusive, LimitInv, Shape
  <2>4. \A e \in Daemons : pass'[e] # "idle" =>
           n' + free'[e] <= Slots + Taken(e)'
    BY <1>1, <1>2, <2>1 DEF Taken, LimitInv, Shape
  <2>5. QED
    BY <1>1, <1>2, <1>3, <2>2, <2>3, <2>4 DEF Counted, n
<1>8. QED
  BY <1>5, <1>6, <1>7 DEF LimitInv

LEMMA AttachStep ==
  ASSUME LimitInv, NEW d \in Daemons, attach_worktree(d)
  PROVE  LimitInv'
<1> DEFINE s == Current(d) n == Cardinality(Attached)
<1>1. pass[d] = "attach" /\ UNCHANGED <<pc, had, raced>>
  BY DEF attach_worktree, opVars, history
<1>2. CASE ~Present(s)
  <2>1. /\ UNCHANGED <<tree, pc, had, raced>>
        /\ pass' = [pass EXCEPT ![d] = "idle"] /\ free' = [free EXCEPT ![d] = 0]
    BY <1>2 DEF attach_worktree, Over, opVars, history
  <2>2. 0 \in 0..Slots /\ "idle" \in Stages
    BY QueueAssumption DEF QueueAssumption, Stages
  <2>3. QED
    BY <1>1, <2>1, <2>2, QuietDaemon
<1>3. CASE Present(s)
  <2>1. /\ tree' = [tree EXCEPT ![s] = TRUE] /\ free' = free
        /\ pass' = [pass EXCEPT ![d] = "spawn"]
    BY <1>3 DEF attach_worktree, Move
  <2>2. Shape'
    BY <1>1, <2>1 DEF LimitInv, Shape, Stages
  <2>3. SlotInHand'
    BY <1>1, <2>1 DEF LimitInv, Shape, SlotInHand
  <2>4. SUFFICES ASSUME ~raced PROVE Exclusive' /\ Counted'
    BY <1>1, <2>2, <2>3 DEF LimitInv
  <2>5. Exclusive /\ Counted /\ free[d] > 0 /\ free[d] \in Nat /\ Taken(d) = 0
    BY <1>1, <2>4 DEF LimitInv, SlotInHand, Shape, Taken
  <2>6. \A c \in Clients : ~Claims(c)'
    BY <1>1, <2>5 DEF Exclusive, Claims
  <2>7. \A e \in Daemons : pass'[e] # "idle" => e = d
    BY <1>1, <2>1, <2>5 DEF Exclusive, LimitInv, Shape
  <2>8. n \in Nat /\ n' \in Nat /\ n' <= n + 1 /\ n + free[d] <= Slots /\ Slots \in Nat
    <3>1. \A t \in Sessions : tree'[t] => tree[t] \/ t = s
      BY <2>1 DEF LimitInv, Shape
    <3>2. n' <= n + 1
      BY <3>1, AttachCount
    <3>3. n + free[d] <= Slots + 0
      BY <1>1, <2>5 DEF Counted
    <3>4. QED
      BY <3>2, <3>3, <2>5, AttachedIsFinite, QueueAssumption DEF QueueAssumption
  <2>9. free'[d] = free[d] /\ Taken(d)' = 1
    BY <2>1 DEF Taken, LimitInv, Shape
  <2> HIDE DEF n
  <2>10. n' <= Slots /\ n' + free'[d] <= Slots + Taken(d)'
    BY <2>5, <2>8, <2>9
  <2>11. Exclusive'
    BY <2>6, <2>7 DEF Exclusive
  <2>12. Counted'
    BY <2>6, <2>7, <2>10 DEF Counted, n
  <2>13. QED
    BY <2>11, <2>12
<1>4. QED
  BY <1>2, <1>3

LEMMA DaemonLimit ==
  ASSUME LimitInv, NEW d \in Daemons, DaemonStep(d) \/ DaemonCrash(d)
  PROVE  LimitInv'
<1>t. /\ free[d] \in 0..Slots /\ free = [free EXCEPT ![d] = free[d]]
      /\ Slots \in Nat /\ 0 \in 0..Slots
      /\ pass[d] # "idle" => free[d] > 0
  BY QueueAssumption DEF LimitInv, Shape, SlotInHand, QueueAssumption
<1>1. CASE CountSlots(d)
  BY <1>1, CountSlotsStep
<1>2. CASE attach_worktree(d)
  BY <1>2, AttachStep
<1> DEFINE Quiet(l, n) ==
       /\ pass[d] # "idle" /\ UNCHANGED <<tree, pc, had, raced>>
       /\ l \in Stages /\ n \in 0..Slots
       /\ pass' = [pass EXCEPT ![d] = l] /\ free' = [free EXCEPT ![d] = n]
       /\ l # "idle" => n > 0
       /\ l = "idle" \/ n + Taken(d) <= free[d] + (IF l \in {"spawn", "started"} THEN 1 ELSE 0)
<1>q. ASSUME NEW l, NEW n, Quiet(l, n) PROVE LimitInv'
  BY <1>q, QuietDaemon
<1>3. CASE pending_worktree_queue(d)
  <2>1. Quiet("look", free[d])
    BY <1>3, <1>t DEF pending_worktree_queue, Stages, rowVars, opVars, history, Taken
  <2>2. QED
    BY <2>1, <1>q
<1>4. CASE Look(d) \/ CreateTree(d) \/ CreateTreeFails(d)
  <2>1. Quiet("create", free[d]) \/ Quiet("skip", free[d]) \/ Quiet("attach", free[d])
        \/ Quiet("fail", free[d])
    BY <1>4, <1>t DEF Look, CreateTree, CreateTreeFails, Move, Stages, rowVars,
       opVars, history, Taken
  <2>2. QED
    BY <2>1, <1>q
<1>5. CASE EndPass(d)
  <2>1. Quiet("idle", 0)
    BY <1>5, <1>t DEF EndPass, Over, Stages, rowVars, opVars, history
  <2>2. QED
    BY <2>1, <1>q
<1>6. CASE SkipEntry(d)
  <2>1. Quiet("look", free[d])
    BY <1>6, <1>t DEF SkipEntry, NextEntry, Stages, rowVars, opVars, history, Taken
  <2>2. QED
    BY <2>1, <1>q
<1>7. CASE FailEntry(d)
  <2>1. Quiet("look", free[d]) \/ Quiet("idle", 0)
    BY <1>7, <1>t DEF FailEntry, NextEntry, Over, Stages, opVars, history, Taken
  <2>2. QED
    BY <2>1, <1>q
<1>8. CASE EntryStarted(d)
  <2>1. CASE free[d] = 1
    <3>1. Quiet("idle", 0)
      BY <1>8, <2>1, <1>t DEF EntryStarted, Over, Stages, rowVars, opVars, history
    <3>2. QED
      BY <3>1, <1>q
  <2>2. CASE free[d] # 1
    <3>1. pass[d] = "started" /\ free[d] > 1 /\ free[d] - 1 \in 0..Slots /\ free[d] - 1 > 0
          /\ free' = [free EXCEPT ![d] = free[d] - 1]
      BY <1>8, <2>2, <1>t DEF EntryStarted
    <3>2. Quiet("look", free[d] - 1)
      BY <1>8, <2>2, <3>1, <1>t DEF EntryStarted, NextEntry, Stages, rowVars,
         opVars, history, Taken
    <3>3. QED
      BY <3>2, <1>q
  <2>3. QED
    BY <2>1, <2>2
<1>9. ASSUME NEW r \in Runners, SpawnTask(d, r) PROVE LimitInv'
  <2>1. Quiet("started", free[d])
    BY <1>9, <1>t DEF SpawnTask, Move, Stages, rowVars, opVars, history, Taken
  <2>2. QED
    BY <2>1, <1>q
<1>10. CASE DaemonCrash(d)
  <2>1. UNCHANGED <<tree, pc, had, raced>>
        /\ pass' = [pass EXCEPT ![d] = "idle"] /\ free' = [free EXCEPT ![d] = 0]
    BY <1>10 DEF DaemonCrash, Over, rowVars, opVars
  <2>2. CASE pass[d] # "idle"
    <3>1. Quiet("idle", 0)
      BY <2>1, <2>2, <1>t DEF Stages
    <3>2. QED
      BY <3>1, <1>q
  <2>3. CASE pass[d] = "idle"
    <3>1. pass' = pass
      BY <2>1, <2>3 DEF LimitInv, Shape
    <3>2. Shape' /\ SlotInHand'
      BY <2>1, <3>1, <1>t, <2>3 DEF LimitInv, Shape, SlotInHand
    <3>3. \A e \in Daemons : pass'[e] # "idle" =>
             pass[e] # "idle" /\ free'[e] + Taken(e) <= free[e] + Taken(e)'
      BY <2>1, <2>3, <3>1 DEF Taken, LimitInv, Shape
    <3>4. \A c \in Clients : Claims(c)' => Claims(c)
      BY <2>1 DEF Claims
    <3>5. QED
      BY <2>1, <3>2, <3>3, <3>4, QuietStep
  <2>4. QED
    BY <2>2, <2>3
<1>11. QED
  BY <1>1, <1>2, <1>3, <1>4, <1>5, <1>6, <1>7, <1>8, <1>9, <1>10 DEF DaemonStep

LEMMA LimitStep ==
  ASSUME LimitInv, [Next]_vars
  PROVE  LimitInv'
<1>1. ASSUME NEW r \in Runners, RunnerStep(r) PROVE LimitInv'
  <2>1. UNCHANGED <<tree, passVars, opVars, raced>>
    BY <1>1 DEF RunnerStep, Skip, Accept, GiveUp, RecordPid, RunFails,
       RecordRunning, Finish, rowVars, history
  <2>2. QED
    BY <2>1, QuietRest
<1>2. ASSUME NEW s \in Sessions, Recover(s) PROVE LimitInv'
  <2>1. UNCHANGED <<tree, passVars, opVars, raced>>
    BY <1>2 DEF Recover, history
  <2>2. QED
    BY <2>1, QuietRest
<1>3. CASE UNCHANGED vars
  BY <1>3, QuietRest DEF vars, rowVars, history
<1>4. QED
  BY <1>1, <1>2, <1>3, ClientLimit, DaemonLimit DEF Next

LEMMA LimitInit == Init => LimitInv
<1> SUFFICES ASSUME Init PROVE LimitInv
  OBVIOUS
<1>1. Attached = {}
  BY DEF Init, Attached
<1>2. Cardinality(Attached) = 0
  BY <1>1, FS_EmptySet
<1>3. Slots \in Nat /\ 0 \in 0..Slots
  BY QueueAssumption DEF QueueAssumption
<1>4. Shape
  BY <1>3 DEF Init, Shape, Stages, Places
<1>5. SlotInHand /\ Exclusive
  BY DEF Init, SlotInHand, Exclusive, Claims
<1>6. Counted
  BY <1>2, <1>3 DEF Init, Counted, Claims
<1>7. QED
  BY <1>4, <1>5, <1>6 DEF LimitInv

\* The limit on worktrees (cfg.max_parallel_worktrees) is never exceeded while
\* no two allocators had counted at the same time, for any number of launches,
\* resumes, cleanups, deletions, crashes and daemons, one after the other.
THEOREM LimitKept == Spec => []WithinLimit
<1>1. LimitInv => WithinLimit
  BY DEF LimitInv, Counted, WithinLimit
<1>2. LimitInv /\ [Next]_vars => LimitInv'
  BY LimitStep
<1>3. QED
  BY LimitInit, <1>1, <1>2, PTL DEF Spec

(***************************************************************************)
(* Who is started, and that nobody is forgotten.  The places of daemons and*)
(* clients and the count of free slots are typed in LimitInv above.        *)
(***************************************************************************)
In(q, s) == \E i \in 1..Len(q) : q[i] = s

(***************************************************************************)
(* The queue and the lists of the passes, as far as they are used: what is *)
(* in them.                                                                *)
(***************************************************************************)
Once(q, s) == \A i, j \in 1..Len(q) : q[i] = s /\ q[j] = s => i = j

\* The queue without one entry, place by place.
LEMMA WithoutEntries ==
  ASSUME NEW q \in Seq(Sessions), NEW s, In(q, s)
  PROVE  /\ Without(q, s) \in Seq(Sessions)
         /\ Len(q) \in Nat /\ Len(Without(q, s)) = Len(q) - 1
         /\ \E n \in 1..Len(q) :
              /\ q[n] = s
              /\ \A i \in 1..(Len(q) - 1) :
                   Without(q, s)[i] = q[IF i < n THEN i ELSE i + 1]
<1>0. Len(q) \in Nat /\ \A i \in 1..Len(q) : q[i] \in Sessions
  BY LenProperties, ElementOfSeq
<1> DEFINE n == CHOOSE i \in 1..Len(q) : q[i] = s
           a == SubSeq(q, 1, n - 1)
           b == SubSeq(q, n + 1, Len(q))
<1>1. n \in 1..Len(q) /\ q[n] = s
  BY DEF In
<1>2. Without(q, s) = a \o b
  BY DEF Without, In
<1> HIDE DEF n
<1>3. n \in Nat /\ Len(q) \in Nat /\ 1 <= n /\ n <= Len(q)
  BY <1>0, <1>1
<1>4. /\ a \in Seq(Sessions) /\ Len(a) = n - 1
      /\ \A i \in 1..(n - 1) : a[i] = q[i]
  <2>1. \A i \in 1..(n - 1) : q[i] \in Sessions
    BY <1>0, <1>3
  <2>2. /\ a \in Seq(Sessions) /\ Len(a) = IF 1 <= n - 1 THEN n - 1 - 1 + 1 ELSE 0
        /\ \A i \in 1..(n - 1 - 1 + 1) : a[i] = q[1 + i - 1]
    BY <2>1, <1>3, SubSeqProperties
  <2>3. QED
    BY <2>2, <1>3
<1>5. /\ b \in Seq(Sessions) /\ Len(b) = Len(q) - n
      /\ \A i \in 1..(Len(q) - n) : b[i] = q[n + i]
  <2>1. \A i \in (n + 1)..Len(q) : q[i] \in Sessions
    BY <1>0, <1>3
  <2>2. /\ b \in Seq(Sessions)
        /\ Len(b) = IF n + 1 <= Len(q) THEN Len(q) - (n + 1) + 1 ELSE 0
        /\ \A i \in 1..(Len(q) - (n + 1) + 1) : b[i] = q[(n + 1) + i - 1]
    BY <2>1, <1>3, SubSeqProperties
  <2>3. QED
    BY <2>2, <1>3
<1> HIDE DEF a, b
<1>6. /\ a \o b \in Seq(Sessions) /\ Len(a \o b) = Len(q) - 1
      /\ \A i \in 1..(Len(q) - 1) :
           (a \o b)[i] = IF i <= n - 1 THEN a[i] ELSE b[i - (n - 1)]
  <2>1. /\ a \o b \in Seq(Sessions) /\ Len(a \o b) = Len(a) + Len(b)
        /\ \A i \in 1..(Len(a) + Len(b)) :
             (a \o b)[i] = IF i <= Len(a) THEN a[i] ELSE b[i - Len(a)]
    BY <1>4, <1>5, ConcatProperties
  <2>2. Len(a) = n - 1 /\ Len(a) + Len(b) = Len(q) - 1
    BY <1>3, <1>4, <1>5
  <2>3. QED
    BY <2>1, <2>2
<1>7. \A i \in 1..(Len(q) - 1) : (a \o b)[i] = q[IF i < n THEN i ELSE i + 1]
  <2> SUFFICES ASSUME NEW i \in 1..(Len(q) - 1)
               PROVE  (a \o b)[i] = q[IF i < n THEN i ELSE i + 1]
    OBVIOUS
  <2>1. CASE i < n
    BY <2>1, <1>3, <1>4, <1>6
  <2>2. CASE ~(i < n)
    <3>1. i - (n - 1) \in 1..(Len(q) - n) /\ n + (i - (n - 1)) = i + 1
      BY <2>2, <1>3
    <3>2. QED
      BY <2>2, <3>1, <1>3, <1>5, <1>6
  <2>3. QED
    BY <2>1, <2>2
<1>8. QED
  BY <1>0, <1>1, <1>2, <1>6, <1>7

\* It keeps the others, each as often as before, and has no s if there was one.
LEMMA WithoutKeepsOthers ==
  ASSUME NEW q \in Seq(Sessions), NEW s
  PROVE  /\ Without(q, s) \in Seq(Sessions)
         /\ \A t : In(Without(q, s), t) => In(q, t)
         /\ \A t : t # s /\ In(q, t) => In(Without(q, s), t)
         /\ \A t : Once(q, t) => Once(Without(q, s), t)
         /\ Once(q, s) => ~In(Without(q, s), s)
<1>1. CASE ~In(q, s)
  BY <1>1 DEF Without, In
<1>2. CASE In(q, s)
  <2> DEFINE w == Without(q, s)
  <2>1. /\ w \in Seq(Sessions) /\ Len(q) \in Nat /\ Len(w) = Len(q) - 1
        /\ \E n \in 1..Len(q) :
             /\ q[n] = s
             /\ \A i \in 1..(Len(q) - 1) : w[i] = q[IF i < n THEN i ELSE i + 1]
    BY <1>2, WithoutEntries
  <2> HIDE DEF w
  <2>2. PICK n \in 1..Len(q) :
          /\ q[n] = s
          /\ \A i \in 1..(Len(q) - 1) : w[i] = q[IF i < n THEN i ELSE i + 1]
    BY <2>1
  <2> DEFINE f(i) == IF i < n THEN i ELSE i + 1
  <2>3. /\ \A i \in 1..(Len(q) - 1) : f(i) \in 1..Len(q) /\ f(i) # n /\ w[i] = q[f(i)]
        /\ \A i, j \in 1..(Len(q) - 1) : f(i) = f(j) => i = j
    BY <2>1, <2>2
  <2>4. \A k \in 1..Len(q) : k # n => \E i \in 1..(Len(q) - 1) : f(i) = k
    <3> SUFFICES ASSUME NEW k \in 1..Len(q), k # n
                 PROVE  \E i \in 1..(Len(q) - 1) : f(i) = k
      OBVIOUS
    <3>1. CASE k < n
      BY <3>1, <2>1
    <3>2. CASE k > n
      <4>1. k - 1 \in 1..(Len(q) - 1) /\ ~(k - 1 < n) /\ (k - 1) + 1 = k
        BY <3>2, <2>1
      <4>2. QED
        BY <4>1
    <3>3. QED
      BY <3>1, <3>2, <2>1
  <2> HIDE DEF f
  <2>5. \A t : In(w, t) => In(q, t)
    BY <2>1, <2>3 DEF In
  <2>6. ASSUME NEW t, t # s, In(q, t) PROVE In(w, t)
    <3>1. PICK k \in 1..Len(q) : q[k] = t
      BY <2>6 DEF In
    <3>2. PICK i \in 1..(Len(q) - 1) : f(i) = k
      BY <3>1, <2>2, <2>4, <2>6
    <3>3. w[i] = t
      BY <3>1, <3>2, <2>3
    <3>4. QED
      BY <3>3, <2>1 DEF In
  <2>7. ASSUME NEW t, Once(q, t) PROVE Once(w, t)
    <3>1. \A i, j \in 1..(Len(q) - 1) : w[i] = t /\ w[j] = t => f(i) = f(j)
      BY <2>3, <2>7 DEF Once
    <3>2. QED
      BY <2>1, <2>3, <3>1 DEF Once
  <2>8. ASSUME Once(q, s), In(w, s) PROVE FALSE
    <3>1. PICK i \in 1..(Len(q) - 1) : w[i] = s
      BY <2>1, <2>8 DEF In
    <3>2. f(i) = n
      BY <3>1, <2>2, <2>3, <2>8 DEF Once
    <3>3. QED
      BY <3>2, <2>3
  <2>9. QED
    BY <2>1, <2>5, <2>6, <2>7, <2>8 DEF w
<1>3. QED
  BY <1>1, <1>2

LEMMA AppendAdds ==
  ASSUME NEW q \in Seq(Sessions), NEW s \in Sessions
  PROVE  /\ Append(q, s) \in Seq(Sessions)
         /\ \A t : In(Append(q, s), t) <=> In(q, t) \/ t = s
<1>1. /\ Append(q, s) \in Seq(Sessions) /\ Len(Append(q, s)) = Len(q) + 1
      /\ \A i \in 1..Len(q) : Append(q, s)[i] = q[i]
      /\ Append(q, s)[Len(q) + 1] = s
  BY AppendProperties
<1>2. Len(q) \in Nat
  BY LenProperties
<1>3. \A i \in 1..(Len(q) + 1) : i \in 1..Len(q) \/ i = Len(q) + 1
  BY <1>2
<1>4. QED
  BY <1>1, <1>2, <1>3 DEF In

LEMMA HeadAndTail ==
  ASSUME NEW q \in Seq(Sessions), q # <<>>
  PROVE  /\ Head(q) \in Sessions /\ In(q, Head(q))
         /\ Tail(q) \in Seq(Sessions)
         /\ \A t : In(Tail(q), t) => In(q, t)
<1>1. Len(q) \in Nat \ {0}
  BY EmptySeq
<1>2. /\ Head(q) \in Sessions /\ Tail(q) \in Seq(Sessions) /\ Len(Tail(q)) = Len(q) - 1
      /\ \A i \in 1..Len(Tail(q)) : Tail(q)[i] = q[i + 1]
  BY HeadTailProperties
<1>3. Head(q) = q[1]
  OBVIOUS
<1>4. In(q, Head(q))
  BY <1>1, <1>3 DEF In
<1>5. \A i \in 1..(Len(q) - 1) : i + 1 \in 1..Len(q)
  BY <1>1
<1>6. QED
  BY <1>2, <1>4, <1>5 DEF In

LEMMA FirstOnes ==
  ASSUME NEW q \in Seq(Sessions), NEW n \in 0..Len(q)
  PROVE  /\ SubSeq(q, 1, n) \in Seq(Sessions)
         /\ \A t : In(SubSeq(q, 1, n), t) => In(q, t)
<1>1. Len(q) \in Nat /\ \A i \in 1..Len(q) : q[i] \in Sessions
  BY LenProperties, ElementOfSeq
<1>2. /\ SubSeq(q, 1, n) \in Seq(Sessions)
      /\ Len(SubSeq(q, 1, n)) = IF 1 <= n THEN n - 1 + 1 ELSE 0
      /\ \A i \in 1..(n - 1 + 1) : SubSeq(q, 1, n)[i] = q[1 + i - 1]
  BY <1>1, SubSeqProperties
<1>3. Len(SubSeq(q, 1, n)) = n /\ \A i \in 1..n : SubSeq(q, 1, n)[i] = q[i] /\ i \in 1..Len(q)
  BY <1>1, <1>2
<1>4. QED
  BY <1>2, <1>3 DEF In

(***************************************************************************)
(* Types, and where a current session is defined.                          *)
(***************************************************************************)
Placed ==
  /\ \A c \in Clients : pc[c] # "idle" => on[c] \in Sessions
  /\ \A d \in Daemons :
       pass[d] \in {"skip", "create", "fail", "attach", "spawn", "started"} =>
         todo[d] # <<>>
  /\ \A r \in Runners : run[r] # "unborn" => of[r] \in Sessions

TypeInv == TypeOK /\ Placed

LEMMA TypeInit == Init => TypeInv
<1> SUFFICES ASSUME Init PROVE TypeInv
  OBVIOUS
<1>1. 0 \in 0..Slots /\ <<>> \in Seq(Sessions)
  BY QueueAssumption, EmptySeq DEF QueueAssumption
<1>2. TypeOK
  BY <1>1 DEF Init, TypeOK
<1>3. QED
  BY <1>2 DEF Init, TypeInv, Placed

LEMMA QueueTypes ==
  ASSUME TypeInv
  PROVE  /\ queue \in Seq(Sessions)
         /\ \A s : Without(queue, s) \in Seq(Sessions)
         /\ \A s \in Sessions : Append(Without(queue, s), s) \in Seq(Sessions)
         /\ \A d \in Daemons :
              /\ todo[d] \in Seq(Sessions)
              /\ todo[d] # <<>> => Current(d) \in Sessions /\ Tail(todo[d]) \in Seq(Sessions)
<1>1. queue \in Seq(Sessions) /\ \A d \in Daemons : todo[d] \in Seq(Sessions)
  BY DEF TypeInv, TypeOK
<1>2. \A s : Without(queue, s) \in Seq(Sessions)
  BY <1>1, WithoutKeepsOthers
<1>3. QED
  BY <1>1, <1>2, AppendAdds, HeadAndTail DEF Current

\* The variables an action leaves alone, one by one.
LEMMA TypeClient ==
  ASSUME TypeInv, NEW c \in Clients, ClientStep(c) PROVE TypeInv'
<1> USE DEF TypeInv, TypeOK, Placed
<1> USE DEF rowVars, passVars, opVars, runVars, history, Ended, Goto, Leave, Break
<1>1. ASSUME NEW s \in Sessions, Launch(c, s) PROVE TypeInv'
  BY <1>1 DEF Launch
<1>2. CASE MakeTree(c)
  BY <1>2 DEF MakeTree
<1>3. CASE MakeTreeFails(c)
  BY <1>3 DEF MakeTreeFails
<1>4. CASE insert_session(c)
  BY <1>4 DEF insert_session
<1>5. CASE enqueue_pending_worktree(c)
  BY <1>5, QueueTypes DEF enqueue_pending_worktree
<1>6. ASSUME NEW r \in Runners, Spawn(c, r) PROVE TypeInv'
  BY <1>6 DEF Spawn, StartRunner, Working
<1>7. CASE LaunchFails(c)
  BY <1>7 DEF LaunchFails, Fail
<1>8. CASE ResumeFails(c)
  BY <1>8 DEF ResumeFails
<1>9. ASSUME NEW s \in Sessions, NEW l \in Places, NEW w \in BOOLEAN, Begin(c, s, l, w)
      PROVE  TypeInv'
  BY <1>9 DEF Begin, Places
<1>10. CASE StopRow(c)
  <2>1. on[c] \in Sessions
    BY <1>10 DEF StopRow
  <2>2. state' \in [Sessions -> {"none", "deleted", "Pending", "Running"} \cup Ended]
        /\ pid' \in [Sessions -> BOOLEAN]
    BY <1>10 DEF StopRow
  <2>3. \/ pc' = [pc EXCEPT ![c] = "rmClear"] /\ on' = on /\ had' = had
        \/ Leave(c)
    BY <1>10 DEF StopRow
  <2>4. UNCHANGED <<tree, queue, disk, pass, free, todo, of, home, run, raced, touched, broken>>
    BY <1>10 DEF StopRow
  <2>5. CASE Leave(c)
    BY <2>2, <2>4, <2>5
  <2>6. CASE pc' = [pc EXCEPT ![c] = "rmClear"] /\ on' = on /\ had' = had
    BY <2>1, <2>2, <2>4, <2>6
  <2>7. QED
    BY <2>3, <2>5, <2>6
<1>11. CASE RemoveTree(c)
  BY <1>11 DEF RemoveTree
<1>12. CASE clear_worktree(c)
  BY <1>12 DEF clear_worktree
<1>13. CASE delete_session(c)
  BY <1>13, QueueTypes DEF delete_session
<1>14. CASE SetPending(c)
  <2>1. on[c] \in Sessions
    BY <1>14 DEF SetPending
  <2>2. state' \in [Sessions -> {"none", "deleted", "Pending", "Running"} \cup Ended]
        /\ pid' \in [Sessions -> BOOLEAN]
    BY <1>14 DEF SetPending
  <2>3. \/ pc' = [pc EXCEPT ![c] = "respawn"] /\ on' = on /\ had' = had
        \/ Leave(c)
    BY <1>14 DEF SetPending
  <2>4. UNCHANGED <<tree, queue, disk, pass, free, todo, of, home, run, raced, touched, broken>>
    BY <1>14 DEF SetPending
  <2>5. CASE Leave(c)
    BY <2>2, <2>4, <2>5
  <2>6. CASE pc' = [pc EXCEPT ![c] = "respawn"] /\ on' = on /\ had' = had
    BY <2>1, <2>2, <2>4, <2>6
  <2>7. QED
    BY <2>3, <2>5, <2>6
<1>15. CASE ClientCrash(c)
  BY <1>15 DEF ClientCrash
<1>16. ASSUME NEW s \in Sessions, Cleanup(c, s) \/ Delete(c, s) \/ Resume(c, s)
       PROVE  TypeInv'
  BY <1>9, <1>16 DEF Cleanup, Delete, Resume, Places
<1>17. ASSUME NEW s \in Sessions, NEW b \in BOOLEAN, Stop(c, s, b) PROVE TypeInv'
  BY <1>9, <1>17 DEF Stop, Places
<1>18. QED
  BY <1>1, <1>2, <1>3, <1>4, <1>5, <1>6, <1>7, <1>8, <1>10, <1>11, <1>12, <1>13,
     <1>14, <1>15, <1>16, <1>17 DEF ClientStep

LEMMA TypeDaemon ==
  ASSUME TypeInv, LimitInv, NEW d \in Daemons, DaemonStep(d) \/ DaemonCrash(d)
  PROVE  TypeInv'
<1> USE DEF TypeInv, TypeOK, Placed
<1> USE DEF rowVars, passVars, opVars, runVars, history, Ended, Move, NextEntry, Over, Break
<1>0. 0 \in 0..Slots /\ <<>> \in Seq(Sessions)
  BY QueueAssumption, EmptySeq DEF QueueAssumption
<1>1. CASE CountSlots(d)
  <2>1. Slots - Cardinality(Attached) \in 0..Slots
    BY <1>1, AttachedIsFinite, QueueAssumption DEF CountSlots, HasSlot, QueueAssumption
  <2>2. QED
    BY <1>1, <2>1 DEF CountSlots
<1>2. CASE pending_worktree_queue(d)
  <2> DEFINE n == IF Len(queue) < free[d] THEN Len(queue) ELSE free[d]
  <2>1. n \in 0..Len(queue)
    BY LenProperties, QueueAssumption DEF QueueAssumption
  <2>2. SubSeq(queue, 1, n) \in Seq(Sessions)
    BY <2>1, FirstOnes
  <2>3. QED
    BY <1>2, <2>2 DEF pending_worktree_queue
<1>3. CASE Look(d)
  BY <1>3 DEF Look
<1>4. CASE EndPass(d)
  BY <1>4, QueueAssumption DEF EndPass, QueueAssumption
<1>5. CASE SkipEntry(d)
  BY <1>5, QueueTypes DEF SkipEntry
<1>6. CASE CreateTree(d)
  BY <1>6 DEF CreateTree
<1>7. CASE CreateTreeFails(d)
  BY <1>7, QueueTypes DEF CreateTreeFails
<1>8. CASE FailEntry(d)
  <2>1. \/ NextEntry(d) /\ free' = free
        \/ Over(d)
    BY <1>8 DEF FailEntry
  <2>2. todo[d] # <<>>
    BY <1>8 DEF FailEntry
  <2>3. state' \in [Sessions -> {"none", "deleted", "Pending", "Running"} \cup Ended]
    BY <1>8 DEF FailEntry, Fail
  <2>4. UNCHANGED <<tree, pid, queue, disk, pc, on, had, of, home, run, raced, touched, broken>>
    BY <1>8 DEF FailEntry
  <2>5. CASE Over(d)
    BY <2>3, <2>4, <2>5, <1>0
  <2>6. CASE NextEntry(d) /\ free' = free
    BY <2>2, <2>3, <2>4, <2>6, QueueTypes
  <2>7. QED
    BY <2>1, <2>5, <2>6
<1>9. CASE attach_worktree(d)
  <2>1. todo[d] # <<>>
    BY <1>9 DEF attach_worktree
  <2>2. tree' \in [Sessions -> BOOLEAN] /\ disk' \in [Sessions -> BOOLEAN]
    BY <1>9 DEF attach_worktree
  <2>3. \/ Move(d, "spawn")
        \/ Over(d)
    BY <1>9 DEF attach_worktree
  <2>4. UNCHANGED <<state, pid, queue, pc, on, had, of, home, run, raced, touched, broken>>
    BY <1>9 DEF attach_worktree
  <2>5. CASE Over(d)
    BY <2>2, <2>4, <2>5, <1>0
  <2>6. CASE Move(d, "spawn")
    BY <2>1, <2>2, <2>4, <2>6
  <2>7. QED
    BY <2>3, <2>5, <2>6
<1>10. CASE EntryStarted(d)
  <2>1. free[d] \in 1..Slots
    <3>1. pass[d] # "idle"
      BY <1>10 DEF EntryStarted
    <3>2. free[d] > 0
      BY <3>1 DEF LimitInv, SlotInHand
    <3>3. QED
      BY <3>2, QueueAssumption DEF QueueAssumption
  <2>2. free[d] - 1 \in 0..Slots
    BY <2>1, QueueAssumption DEF QueueAssumption
  <2>3. \/ Over(d)
        \/ NextEntry(d) /\ free' = [free EXCEPT ![d] = @ - 1]
    BY <1>10 DEF EntryStarted
  <2>4. queue' \in Seq(Sessions) /\ todo[d] # <<>>
    BY <1>10, QueueTypes DEF EntryStarted
  <2>5. UNCHANGED <<state, tree, pid, disk, pc, on, had, of, home, run, raced, touched, broken>>
    BY <1>10 DEF EntryStarted
  <2>6. CASE Over(d)
    BY <2>4, <2>5, <2>6, <1>0
  <2>7. CASE NextEntry(d) /\ free' = [free EXCEPT ![d] = @ - 1]
    BY <2>2, <2>4, <2>5, <2>7, QueueTypes
  <2>8. QED
    BY <2>3, <2>6, <2>7
<1>11. ASSUME NEW r \in Runners, SpawnTask(d, r) PROVE TypeInv'
  BY <1>11, QueueTypes DEF SpawnTask, StartRunner, Working
<1>12. CASE DaemonCrash(d)
  BY <1>12, QueueAssumption DEF DaemonCrash, QueueAssumption, InHand, TasksOf, Working
<1>13. QED
  BY <1>1, <1>2, <1>3, <1>4, <1>5, <1>6, <1>7, <1>8, <1>9, <1>10, <1>11, <1>12
     DEF DaemonStep

LEMMA TypeRunner ==
  ASSUME TypeInv, NEW r \in Runners, RunnerStep(r) PROVE TypeInv'
<1> USE DEF TypeInv, TypeOK, Placed
<1> USE DEF rowVars, passVars, opVars, runVars, history, Ended, To, Fail, Working, Present, Break
<1>1. CASE Skip(r)
  BY <1>1 DEF Skip
<1>2. CASE Accept(r)
  BY <1>2 DEF Accept
<1>3. CASE GiveUp(r)
  BY <1>3 DEF GiveUp
<1>4. CASE RecordPid(r)
  BY <1>4 DEF RecordPid
<1>5. CASE RunFails(r)
  BY <1>5 DEF RunFails
<1>6. CASE RecordRunning(r)
  BY <1>6 DEF RecordRunning
<1>7. CASE Finish(r)
  <2>1. state' \in [Sessions -> {"none", "deleted", "Pending", "Running"} \cup Ended]
    <3>1. CASE Fail(of[r])
      BY <3>1
    <3>2. CASE state' = [state EXCEPT ![of[r]] = "Completed"]
      BY <3>2
    <3>3. QED
      BY <1>7, <3>1, <3>2 DEF Finish
  <2>2. QED
    BY <1>7, <2>1 DEF Finish
<1>8. QED
  BY <1>1, <1>2, <1>3, <1>4, <1>5, <1>6, <1>7 DEF RunnerStep

LEMMA TypeStep ==
  ASSUME TypeInv, LimitInv, [Next]_vars PROVE TypeInv'
<1>1. CASE UNCHANGED vars
  BY <1>1 DEF vars, rowVars, passVars, opVars, runVars, history, TypeInv, TypeOK, Placed
<1>2. ASSUME NEW s \in Sessions, Recover(s) PROVE TypeInv'
  BY <1>2 DEF Recover, rowVars, passVars, opVars, runVars, history, TypeInv, TypeOK,
    Placed, Ended
<1>3. QED
  BY <1>1, <1>2, TypeClient, TypeDaemon, TypeRunner DEF Next

(***************************************************************************)
(* One agent for a session nobody interferes with.  Its launch, the daemon *)
(* that has made its worktree and its agent follow each other, and git     *)
(* keeps a second daemon from making the worktree again.                   *)
(***************************************************************************)
Launches == {"make", "insert", "enqueue", "spawn", "unmake"}

Launching(c, s) == on[c] = s /\ pc[c] \in Launches
Late(c, s) == on[c] = s /\ pc[c] \in {"enqueue", "spawn"}
Holding(c, s) == on[c] = s /\ (pc[c] = "spawn" \/ (pc[c] = "insert" /\ had[c]))
Hands(d, s) == pass[d] \in {"attach", "spawn"} /\ Current(d) = s
Works(r, s) == of[r] = s /\ run[r] \in Working
Queued(s) == In(queue, s)
Listed(d, s) == In(todo[d], s)

Unseen(s) ==
  /\ ~Queued(s)
  /\ \A d \in Daemons : ~Hands(d, s) /\ ~Listed(d, s)
  /\ \A r \in Runners : ~Works(r, s)

OneLaunch(s) ==
  \A c \in Clients :
    /\ Launching(c, s) => Unseen(s) /\ \A e \in Clients : Launching(e, s) => c = e
    /\ Late(c, s) => state[s] # "none"
    /\ Holding(c, s) => disk[s]

OneStart(s) ==
  \A d \in Daemons : Hands(d, s) =>
    /\ disk[s]
    /\ \A e \in Daemons : Hands(e, s) => d = e
    /\ \A r \in Runners : ~Works(r, s)

OneAgent(s) ==
  \A r \in Runners : Works(r, s) =>
    disk[s] /\ \A q \in Runners : Works(q, s) => q = r

NewIsUnseen(s) == state[s] = "none" => Unseen(s)

InOne(s) == OneLaunch(s) /\ OneStart(s) /\ OneAgent(s) /\ NewIsUnseen(s)

Interference ==
  \A c \in Clients : pc[c] \notin Launches \cup {"idle"} => on[c] \in touched

OnceInv == Interference /\ \A s \in Sessions \ touched : InOne(s)

\* What most steps do for a session: nobody comes to it.
Kept(s) ==
  /\ state'[s] = "none" => state[s] = "none"
  /\ disk[s] => disk'[s]
  /\ Queued(s)' => Queued(s)
  /\ \A c \in Clients : /\ Launching(c, s)' => Launching(c, s)
                        /\ Late(c, s)' => Late(c, s)
                        /\ Holding(c, s)' => Holding(c, s)
  /\ \A d \in Daemons : /\ Hands(d, s)' => Hands(d, s)
                        /\ Listed(d, s)' => Listed(d, s) \/ Queued(s)
  /\ \A r \in Runners : Works(r, s)' => Works(r, s)

LEMMA KeptOne == ASSUME NEW s \in Sessions, InOne(s), Kept(s) PROVE InOne(s)'
<1>1. OneLaunch(s) /\ OneStart(s) /\ OneAgent(s) /\ NewIsUnseen(s)
  BY DEF InOne
<1>2. Unseen(s) => Unseen(s)'
  BY DEF Unseen, Kept
<1>3. OneLaunch(s)'
  <2>1. ASSUME NEW c \in Clients, Launching(c, s)'
        PROVE  Unseen(s)' /\ \A e \in Clients : Launching(e, s)' => c = e
    BY <2>1, <1>1, <1>2 DEF OneLaunch, Kept
  <2>2. ASSUME NEW c \in Clients, Late(c, s)' PROVE state'[s] # "none"
    BY <2>2, <1>1 DEF OneLaunch, Kept
  <2>3. ASSUME NEW c \in Clients, Holding(c, s)' PROVE disk'[s]
    BY <2>3, <1>1 DEF OneLaunch, Kept
  <2>4. QED
    BY <2>1, <2>2, <2>3 DEF OneLaunch
<1>4. OneStart(s)'
  BY <1>1 DEF OneStart, Kept
<1>5. OneAgent(s)'
  BY <1>1 DEF OneAgent, Kept
<1>6. NewIsUnseen(s)'
  BY <1>1, <1>2 DEF NewIsUnseen, Kept
<1>7. QED
  BY <1>3, <1>4, <1>5, <1>6 DEF InOne

LEMMA EmptyHasNone == \A s : ~In(<<>>, s)
<1>1. Len(<<>>) = 0
  BY EmptySeq
<1>2. QED
  BY <1>1 DEF In

\* Where the sequences matter: they lose entries, one by one or all of them.
LEMMA QueueMoves ==
  ASSUME TypeInv
  PROVE  /\ \A s, t : In(Without(queue, s), t) => Queued(t)
         /\ \A s, t : t # s /\ Queued(t) => In(Without(queue, s), t)
         /\ \A s \in Sessions : \A t :
              In(Append(Without(queue, s), s), t) <=> In(Without(queue, s), t) \/ t = s
         /\ \A d \in Daemons : todo[d] # <<>> =>
              Listed(d, Current(d)) /\ \A t : In(Tail(todo[d]), t) => Listed(d, t)
<1>1. queue \in Seq(Sessions) /\ \A d \in Daemons : todo[d] \in Seq(Sessions)
  BY DEF TypeInv, TypeOK
<1>2. \A s : /\ Without(queue, s) \in Seq(Sessions)
             /\ \A t : In(Without(queue, s), t) => Queued(t)
             /\ \A t : t # s /\ Queued(t) => In(Without(queue, s), t)
  BY <1>1, WithoutKeepsOthers DEF Queued
<1>3. \A s \in Sessions : \A t :
        In(Append(Without(queue, s), s), t) <=> In(Without(queue, s), t) \/ t = s
  BY <1>2, AppendAdds
<1>4. \A d \in Daemons : todo[d] # <<>> =>
        Listed(d, Current(d)) /\ \A t : In(Tail(todo[d]), t) => Listed(d, t)
  BY <1>1, HeadAndTail DEF Listed, Current
<1>5. QED
  BY <1>2, <1>3, <1>4

\* A client that stays with its own session does nothing to another.
LEMMA ClientKeeps ==
  ASSUME TypeInv, NEW c \in Clients, NEW s \in Sessions,
         UNCHANGED <<passVars, runVars>>,
         state'[s] = state[s], disk'[s] = disk[s], Queued(s)' => Queued(s),
         \A e \in Clients \ {c} : pc'[e] = pc[e] /\ on'[e] = on[e] /\ had'[e] = had[e],
         on'[c] # s
  PROVE  Kept(s)
<1>1. \A e \in Clients : on'[e] = s => e \in Clients \ {c}
  OBVIOUS
<1>2. \A e \in Clients : /\ Launching(e, s)' => Launching(e, s)
                         /\ Late(e, s)' => Late(e, s)
                         /\ Holding(e, s)' => Holding(e, s)
  BY <1>1 DEF Launching, Late, Holding
<1>3. \A d \in Daemons : (Hands(d, s)' <=> Hands(d, s)) /\ (Listed(d, s)' <=> Listed(d, s))
  BY DEF passVars, Hands, Listed, Current
<1>4. \A r \in Runners : Works(r, s)' <=> Works(r, s)
  BY DEF runVars, Works
<1>5. QED
  BY <1>2, <1>3, <1>4 DEF Kept

\* A step of a client, for its session t, that starts no runner.
ClientForm(c, t, l, w, n) ==
  /\ UNCHANGED <<passVars, runVars>>
  /\ \A u \in Sessions \ {t} : state'[u] = state[u] /\ disk'[u] = disk[u]
  /\ \/ queue' = queue
     \/ queue' = Without(queue, t)
     \/ t \in Sessions /\ queue' = Append(Without(queue, t), t)
  /\ pc' = [pc EXCEPT ![c] = l]
  /\ on' = [on EXCEPT ![c] = n]
  /\ had' = [had EXCEPT ![c] = w]

LEMMA ClientElsewhere ==
  ASSUME TypeInv, NEW c \in Clients, NEW t, NEW s \in Sessions, s # t,
         NEW l, NEW w, NEW n, n # s, ClientForm(c, t, l, w, n)
  PROVE  Kept(s)
<1>1. Queued(s)' => Queued(s)
  <2>1. CASE queue' = queue
    BY <2>1 DEF Queued
  <2>2. CASE queue' = Without(queue, t)
    BY <2>2, QueueMoves DEF Queued
  <2>3. CASE t \in Sessions /\ queue' = Append(Without(queue, t), t)
    <3>1. In(Append(Without(queue, t), t), s) => In(Without(queue, t), s)
      BY <2>3, QueueMoves
    <3>2. QED
      BY <2>3, <3>1, QueueMoves DEF Queued
  <2>4. QED
    BY <2>1, <2>2, <2>3 DEF ClientForm
<1>2. \A e \in Clients \ {c} : pc'[e] = pc[e] /\ on'[e] = on[e] /\ had'[e] = had[e]
  BY DEF ClientForm, TypeInv, TypeOK
<1>3. on'[c] # s
  BY DEF ClientForm, TypeInv, TypeOK
<1>4. state'[s] = state[s] /\ disk'[s] = disk[s] /\ UNCHANGED <<passVars, runVars>>
  BY DEF ClientForm
<1>5. QED
  BY <1>1, <1>2, <1>3, <1>4, ClientKeeps

\* A client that interferes: its session is left out of the claim.
LEMMA OutsideClient ==
  ASSUME TypeInv, OnceInv, NEW c \in Clients, NEW t \in touched',
         touched \subseteq touched', NEW l, NEW w, NEW n \in {t, None},
         ClientForm(c, t, l, w, n), l # "idle" => n = t
  PROVE  OnceInv'
<1>1. ASSUME NEW s \in Sessions \ touched' PROVE InOne(s)'
  <2>1. InOne(s) /\ s # t /\ s # None
    BY <1>1, QueueAssumption DEF OnceInv, QueueAssumption
  <2>2. Kept(s)
    BY <2>1, ClientElsewhere
  <2>3. QED
    BY <2>1, <2>2, KeptOne
<1>2. Interference'
  <2> SUFFICES ASSUME NEW e \in Clients, pc'[e] \notin Launches \cup {"idle"}
               PROVE  on'[e] \in touched'
    BY DEF Interference
  <2>1. CASE e = c
    BY <2>1 DEF ClientForm, TypeInv, TypeOK
  <2>2. CASE e # c
    BY <2>2 DEF ClientForm, TypeInv, TypeOK, OnceInv, Interference
  <2>3. QED
    BY <2>1, <2>2
<1>3. QED
  BY <1>1, <1>2 DEF OnceInv

LEMMA InsideClient ==
  ASSUME TypeInv, OnceInv, NEW c \in Clients, NEW t \in Sessions,
         touched' = touched, NEW l \in Launches \cup {"idle"}, NEW w,
         NEW n \in {t, None}, ClientForm(c, t, l, w, n),
         t \notin touched => InOne(t)'
  PROVE  OnceInv'
<1>1. ASSUME NEW s \in Sessions \ touched' PROVE InOne(s)'
  <2>1. CASE s = t
    BY <2>1
  <2>2. CASE s # t
    <3>1. InOne(s) /\ s # t /\ s # None
      BY <2>2, QueueAssumption DEF OnceInv, QueueAssumption
    <3>2. Kept(s)
      BY <3>1, ClientElsewhere
    <3>3. QED
      BY <3>1, <3>2, KeptOne
  <2>3. QED
    BY <2>1, <2>2
<1>2. Interference'
  BY DEF ClientForm, TypeInv, TypeOK, OnceInv, Interference
<1>3. QED
  BY <1>1, <1>2 DEF OnceInv

\* The one launch of a session nobody else has seen, at its next place.
LEMMA SoleLaunch ==
  ASSUME NEW s \in Sessions, NEW c \in Clients, Unseen(s)',
         \A e \in Clients : Launching(e, s)' => e = c,
         Late(c, s)' => state'[s] # "none", Holding(c, s)' => disk'[s]
  PROVE  InOne(s)'
<1>1. \A e \in Clients : (Late(e, s)' \/ Holding(e, s)') => Launching(e, s)'
  BY DEF Late, Holding, Launching, Launches
<1>2. OneLaunch(s)'
  BY <1>1 DEF OneLaunch
<1>3. OneStart(s)' /\ OneAgent(s)' /\ NewIsUnseen(s)'
  BY DEF Unseen, OneStart, OneAgent, NewIsUnseen
<1>4. QED
  BY <1>2, <1>3 DEF InOne

LEMMA UnseenStays ==
  ASSUME NEW s \in Sessions, Unseen(s), UNCHANGED <<queue, passVars, runVars>>
  PROVE  Unseen(s)'
  BY DEF Unseen, Queued, Hands, Listed, Works, Current, passVars, runVars

\* What a client in the middle of its own launch knows.
LEMMA LaunchAlone ==
  ASSUME TypeInv, OnceInv, NEW c \in Clients, pc[c] \in Launches,
         on[c] \notin touched
  PROVE  /\ on[c] \in Sessions /\ InOne(on[c]) /\ Unseen(on[c])
         /\ \A e \in Clients : Launching(e, on[c]) => e = c
<1>1. on[c] \in Sessions
  BY DEF TypeInv, Placed, Launches
<1>2. InOne(on[c]) /\ Launching(c, on[c])
  BY <1>1 DEF OnceInv, Launching
<1>3. QED
  BY <1>1, <1>2 DEF InOne, OneLaunch

\* The steps of a launch up to its runner or its place in the queue.
LEMMA LaunchOn ==
  ASSUME TypeInv, OnceInv, NEW c \in Clients, pc[c] \in Launches,
         UNCHANGED <<queue, passVars, runVars>>, touched' = touched,
         NEW l \in Launches \cup {"idle"}, NEW w, NEW n \in {on[c], None},
         pc' = [pc EXCEPT ![c] = l], on' = [on EXCEPT ![c] = n],
         had' = [had EXCEPT ![c] = w],
         \A u \in Sessions \ {on[c]} : state'[u] = state[u] /\ disk'[u] = disk[u],
         l \in {"enqueue", "spawn"} /\ on[c] \notin touched => state'[on[c]] # "none",
         l = "spawn" \/ (l = "insert" /\ w) => on[c] \in touched \/ disk'[on[c]]
  PROVE  OnceInv'
<1>1. PICK t \in Sessions : t = on[c]
  BY DEF TypeInv, Placed, Launches
<1>2. ClientForm(c, t, l, w, n)
  BY <1>1 DEF ClientForm
<1>3. ASSUME t \notin touched PROVE InOne(t)'
  <2>1. Unseen(t) /\ \A e \in Clients : Launching(e, t) => e = c
    BY <1>1, <1>3, LaunchAlone
  <2>2. Unseen(t)'
    BY <1>1, <2>1, UnseenStays
  <2>3. /\ \A e \in Clients \ {c} : pc'[e] = pc[e] /\ on'[e] = on[e]
        /\ pc'[c] = l /\ had'[c] = w
    BY DEF TypeInv, TypeOK
  <2>4. \A e \in Clients : Launching(e, t)' => e = c
    BY <2>1, <2>3 DEF Launching
  <2>5. Late(c, t)' => state'[t] # "none"
    BY <1>1, <1>3, <2>3 DEF Late
  <2>6. Holding(c, t)' => disk'[t]
    BY <1>1, <1>3, <2>3 DEF Holding
  <2>7. QED
    BY <1>1, <2>2, <2>4, <2>5, <2>6, SoleLaunch
<1>4. n \in {t, None}
  BY <1>1
<1>5. QED
  BY <1>1, <1>2, <1>3, <1>4, InsideClient

LEMMA OnceLaunch ==
  ASSUME TypeInv, LimitInv, OnceInv, NEW c \in Clients, NEW s \in Sessions, Launch(c, s)
  PROVE  OnceInv'
<1> DEFINE l == IF HasSlot THEN "make" ELSE "insert"
<1>1. /\ pc[c] = "idle" /\ state[s] = "none" /\ \A e \in Clients : on[e] # s
      /\ pc' = [pc EXCEPT ![c] = l] /\ on' = [on EXCEPT ![c] = s] /\ had' = had
      /\ UNCHANGED <<state, disk, queue, passVars, runVars, touched>>
  BY DEF Launch, rowVars
<1>2. had[c] = FALSE /\ had = [had EXCEPT ![c] = had[c]]
  BY <1>1 DEF LimitInv, SlotInHand, Shape
<1>3. l \in Launches \cup {"idle"} /\ l \in {"make", "insert"}
  BY DEF Launches
<1> HIDE DEF l
<1>4. ClientForm(c, s, l, had[c], s)
  BY <1>1, <1>2 DEF ClientForm
<1>5. ASSUME s \notin touched PROVE InOne(s)'
  <2>1. Unseen(s)
    BY <1>1, <1>5 DEF OnceInv, InOne, NewIsUnseen
  <2>2. Unseen(s)'
    BY <1>1, <2>1, UnseenStays
  <2>3. /\ \A e \in Clients \ {c} : on'[e] = on[e]
        /\ pc'[c] = l /\ had'[c] = FALSE
    BY <1>1, <1>2 DEF TypeInv, TypeOK
  <2>4. \A e \in Clients : Launching(e, s)' => e = c
    BY <1>1, <2>3 DEF Launching
  <2>5. ~Late(c, s)' /\ ~Holding(c, s)'
    BY <1>3, <2>3 DEF Late, Holding
  <2>6. QED
    BY <2>2, <2>4, <2>5, SoleLaunch
<1>6. QED
  BY <1>1, <1>3, <1>4, <1>5, InsideClient

LEMMA OnceEnqueue ==
  ASSUME TypeInv, OnceInv, NEW c \in Clients, enqueue_pending_worktree(c)
  PROVE  OnceInv'
<1>1. /\ pc[c] = "enqueue" /\ pc' = [pc EXCEPT ![c] = "idle"]
      /\ on' = [on EXCEPT ![c] = None] /\ had' = [had EXCEPT ![c] = FALSE]
      /\ UNCHANGED <<state, disk, passVars, runVars, touched>>
  BY DEF enqueue_pending_worktree, Leave, rowVars, history
<1>2. PICK t \in Sessions : t = on[c]
  BY <1>1 DEF TypeInv, Placed
<1>3. ClientForm(c, t, "idle", FALSE, None)
  BY <1>1, <1>2 DEF ClientForm, enqueue_pending_worktree
<1>4. ASSUME t \notin touched PROVE InOne(t)'
  <2>1. InOne(t) /\ Unseen(t) /\ \A e \in Clients : Launching(e, t) => e = c
    BY <1>1, <1>2, <1>4, LaunchAlone DEF Launches
  <2>2. Late(c, t)
    BY <1>1, <1>2 DEF Late
  <2>3. state[t] # "none"
    BY <2>1, <2>2 DEF InOne, OneLaunch
  <2>4. /\ \A e \in Clients \ {c} : on'[e] = on[e] /\ pc'[e] = pc[e]
        /\ pc'[c] = "idle"
    BY <1>1 DEF TypeInv, TypeOK
  <2>5. \A e \in Clients : ~Launching(e, t)'
    BY <2>1, <2>4 DEF Launching, Launches
  <2>6. OneLaunch(t)'
    BY <2>5 DEF OneLaunch, Late, Holding, Launching, Launches
  <2>7. /\ \A d \in Daemons : ~Hands(d, t)' /\ ~Listed(d, t)'
        /\ \A r \in Runners : ~Works(r, t)'
    BY <1>1, <2>1 DEF Unseen, Hands, Listed, Current, Works, passVars, runVars
  <2>8. QED
    BY <1>1, <2>3, <2>6, <2>7 DEF InOne, OneStart, OneAgent, NewIsUnseen
<1>5. QED
  BY <1>1, <1>3, <1>4, InsideClient DEF Launches

LEMMA OnceSpawn ==
  ASSUME TypeInv, OnceInv, NEW c \in Clients, NEW r \in Runners, Spawn(c, r)
  PROVE  OnceInv'
<1>1. /\ pc[c] \in {"spawn", "respawn"} /\ run[r] = "unborn"
      /\ pc' = [pc EXCEPT ![c] = "idle"] /\ on' = [on EXCEPT ![c] = None]
      /\ had' = [had EXCEPT ![c] = FALSE]
      /\ of' = [of EXCEPT ![r] = on[c]] /\ run' = [run EXCEPT ![r] = "started"]
      /\ UNCHANGED <<state, disk, queue, passVars, touched>>
  BY DEF Spawn, StartRunner, Leave, rowVars, history
<1>2. PICK t \in Sessions : t = on[c]
  BY <1>1 DEF TypeInv, Placed
<1>3. /\ \A e \in Clients \ {c} : on'[e] = on[e] /\ pc'[e] = pc[e] /\ had'[e] = had[e]
      /\ pc'[c] = "idle"
  BY <1>1 DEF TypeInv, TypeOK
<1>4. /\ \A q \in Runners \ {r} : of'[q] = of[q] /\ run'[q] = run[q]
      /\ of'[r] = t
  BY <1>1, <1>2 DEF TypeInv, TypeOK
<1>5. \A s \in Sessions : /\ (Queued(s)' <=> Queued(s))
                          /\ \A d \in Daemons : /\ Hands(d, s)' <=> Hands(d, s)
                                                /\ Listed(d, s)' <=> Listed(d, s)
  BY <1>1 DEF passVars, Queued, Hands, Listed, Current
<1>6. \A s \in Sessions, e \in Clients :
        /\ Launching(e, s)' => e # c /\ Launching(e, s)
        /\ Late(e, s)' => e # c /\ Late(e, s)
        /\ Holding(e, s)' => e # c /\ Holding(e, s)
  BY <1>3 DEF Launching, Late, Holding, Launches
<1>7. \A s \in Sessions, q \in Runners \ {r} : Works(q, s)' <=> Works(q, s)
  BY <1>4 DEF Works
<1>8. ASSUME NEW s \in Sessions \ touched' PROVE InOne(s)'
  <2>1. InOne(s) /\ s \notin touched
    BY <1>1, <1>8 DEF OnceInv
  <2>2. CASE s # t
    <3>1. ~Works(r, s)'
      BY <1>4, <2>2 DEF Works
    <3>2. Kept(s)
      BY <1>1, <1>5, <1>6, <1>7, <3>1 DEF Kept
    <3>3. QED
      BY <2>1, <3>2, KeptOne
  <2>3. CASE s = t
    <3>1. pc[c] = "spawn"
      BY <1>1, <1>2, <2>1, <2>3 DEF OnceInv, Interference, Launches
    <3>2. Unseen(s) /\ \A e \in Clients : Launching(e, s) => e = c
      BY <1>2, <2>1, <2>3, <3>1, LaunchAlone DEF Launches
    <3>3. Late(c, s) /\ Holding(c, s)
      BY <1>2, <2>3, <3>1 DEF Late, Holding
    <3>4. state[s] # "none" /\ disk[s]
      BY <2>1, <3>3 DEF InOne, OneLaunch
    <3>5. \A e \in Clients : ~Launching(e, s)'
      BY <1>6, <3>2
    <3>6. OneLaunch(s)'
      BY <3>5 DEF OneLaunch, Late, Holding, Launching, Launches
    <3>7. \A d \in Daemons : ~Hands(d, s)'
      BY <1>5, <3>2 DEF Unseen
    <3>8. \A q \in Runners : Works(q, s)' => q = r
      BY <1>7, <3>2 DEF Unseen
    <3>9. QED
      BY <1>1, <3>4, <3>6, <3>7, <3>8 DEF InOne, OneStart, OneAgent, NewIsUnseen
  <2>4. QED
    BY <2>2, <2>3
<1>9. Interference'
  BY <1>1, <1>3 DEF OnceInv, Interference
<1>10. QED
  BY <1>8, <1>9 DEF OnceInv

LEMMA OnceClient ==
  ASSUME TypeInv, LimitInv, OnceInv, NEW c \in Clients, ClientStep(c)
  PROVE  OnceInv'
<1> USE DEF rowVars, history
<1>0. /\ on = [on EXCEPT ![c] = on[c]] /\ had = [had EXCEPT ![c] = had[c]]
      /\ on[c] \in {on[c], None} /\ None \in {on[c], None}
  BY DEF TypeInv, TypeOK
<1>1. ASSUME pc[c] \notin Launches, pc[c] # "idle" PROVE on[c] \in touched
  BY <1>1 DEF OnceInv, Interference
<1>2. CASE MakeTree(c)
  <2>1. on[c] \in Sessions
    BY <1>2 DEF MakeTree, TypeInv, Placed
  <2>2. disk'[on[c]] /\ \A u \in Sessions \ {on[c]} : disk'[u] = disk[u]
    BY <1>2, <2>1 DEF MakeTree, TypeInv, TypeOK
  <2>3. QED
    BY <1>0, <1>2, <2>2, LaunchOn DEF MakeTree, Launches
<1>3. CASE MakeTreeFails(c)
  BY <1>0, <1>3, LaunchOn DEF MakeTreeFails, Leave, Launches
<1>4. CASE insert_session(c)
  <2> DEFINE l == IF had[c] THEN "spawn" ELSE "enqueue"
  <2>1. on[c] \in Sessions /\ had[c] \in BOOLEAN
    BY <1>4 DEF insert_session, TypeInv, TypeOK, Placed
  <2>2. state'[on[c]] # "none" /\ \A u \in Sessions \ {on[c]} : state'[u] = state[u]
    BY <1>4, <2>1 DEF insert_session, TypeInv, TypeOK
  <2>3. l = "spawn" => on[c] \in touched \/ disk[on[c]]
    <3>1. CASE had[c] /\ on[c] \notin touched
      <4>1. Holding(c, on[c]) /\ InOne(on[c])
        BY <1>4, <2>1, <3>1 DEF Holding, insert_session, OnceInv
      <4>2. QED
        BY <4>1 DEF InOne, OneLaunch
    <3>2. QED
      BY <3>1
  <2>4. l \in Launches \cup {"idle"} /\ l # "insert"
    BY DEF Launches
  <2>5. /\ pc' = [pc EXCEPT ![c] = l] /\ on' = on /\ had' = had
        /\ UNCHANGED <<queue, disk, passVars, runVars, touched>>
    BY <1>4 DEF insert_session, Goto
  <2>6. pc[c] \in Launches
    BY <1>4 DEF insert_session, Launches
  <2> HIDE DEF l
  <2>7. QED
    BY <1>0, <2>2, <2>3, <2>4, <2>5, <2>6, LaunchOn
<1>5. CASE LaunchFails(c)
  <2>1. on[c] \in Sessions /\ pc[c] \in Launches
    BY <1>5 DEF LaunchFails, TypeInv, Placed, Launches
  <2>2. \A u \in Sessions \ {on[c]} : state'[u] = state[u]
    BY <1>5 DEF LaunchFails, Fail, TypeInv, TypeOK
  <2>3. CASE Leave(c)
    BY <1>0, <1>5, <2>1, <2>2, <2>3, LaunchOn DEF LaunchFails, Leave, Launches
  <2>4. CASE Goto(c, "unmake")
    BY <1>0, <1>5, <2>1, <2>2, <2>4, LaunchOn DEF LaunchFails, Goto, Launches
  <2>5. QED
    BY <1>5, <2>3, <2>4 DEF LaunchFails
<1>6. CASE ResumeFails(c)
  <2>1. ClientForm(c, on[c], "idle", FALSE, None) /\ on[c] \in touched' /\ touched' = touched
    BY <1>1, <1>6 DEF ClientForm, ResumeFails, Leave, Launches
  <2>2. QED
    BY <1>0, <2>1, OutsideClient
<1>7. ASSUME NEW s \in Sessions, NEW l \in Places \ (Launches \cup {"idle"}),
             NEW w \in BOOLEAN, Begin(c, s, l, w)
      PROVE  OnceInv'
  <2>1. ClientForm(c, s, l, w, s) /\ s \in touched' /\ touched \subseteq touched'
    BY <1>7 DEF ClientForm, Begin
  <2>2. QED
    BY <2>1, OutsideClient
<1>8. CASE StopRow(c)
  <2>1. \A u \in Sessions \ {on[c]} : state'[u] = state[u] /\ disk'[u] = disk[u]
    BY <1>8 DEF StopRow, TypeInv, TypeOK
  <2>2. /\ UNCHANGED <<queue, passVars, runVars, touched>>
        /\ on[c] \in touched
    BY <1>1, <1>8 DEF StopRow, Launches
  <2>3. CASE Leave(c)
    <3>1. ClientForm(c, on[c], "idle", FALSE, None)
      BY <2>1, <2>2, <2>3 DEF ClientForm, Leave
    <3>2. QED
      BY <1>0, <2>2, <3>1, OutsideClient
  <2>4. CASE Goto(c, "rmClear")
    <3>1. ClientForm(c, on[c], "rmClear", had[c], on[c])
      BY <1>0, <2>1, <2>2, <2>4 DEF ClientForm, Goto
    <3>2. QED
      BY <1>0, <2>2, <3>1, OutsideClient
  <2>5. QED
    BY <1>8, <2>3, <2>4 DEF StopRow
<1>9. CASE RemoveTree(c)
  <2>1. \A u \in Sessions \ {on[c]} : state'[u] = state[u] /\ disk'[u] = disk[u]
    BY <1>9 DEF RemoveTree, TypeInv, TypeOK
  <2>2. UNCHANGED <<queue, passVars, runVars, touched>>
    BY <1>9 DEF RemoveTree
  <2>3. CASE pc[c] = "unmake" /\ Leave(c)
    BY <1>0, <2>1, <2>2, <2>3, LaunchOn DEF Leave, Launches
  <2>4. ASSUME NEW l, l # "idle", pc[c] \in {"rmClear", "rmDelete"}, Goto(c, l)
        PROVE  OnceInv'
    <3>1. on[c] \in touched
      BY <1>1, <2>4 DEF Launches
    <3>2. ClientForm(c, on[c], l, had[c], on[c])
      BY <1>0, <2>1, <2>2, <2>4 DEF ClientForm, Goto
    <3>3. QED
      BY <1>0, <2>2, <3>1, <3>2, OutsideClient
  <2>5. QED
    BY <1>9, <2>3, <2>4 DEF RemoveTree
<1>10. CASE clear_worktree(c)
  <2>1. ClientForm(c, on[c], "idle", FALSE, None) /\ on[c] \in touched' /\ touched' = touched
    BY <1>1, <1>10 DEF ClientForm, clear_worktree, Leave, Launches
  <2>2. QED
    BY <1>0, <2>1, OutsideClient
<1>11. CASE delete_session(c)
  <2>1. \A u \in Sessions \ {on[c]} : state'[u] = state[u] /\ disk'[u] = disk[u]
    BY <1>11 DEF delete_session, TypeInv, TypeOK
  <2>2. ClientForm(c, on[c], "idle", FALSE, None) /\ on[c] \in touched' /\ touched' = touched
    BY <1>1, <1>11, <2>1 DEF ClientForm, delete_session, Leave, Launches
  <2>3. QED
    BY <1>0, <2>2, OutsideClient
<1>12. CASE SetPending(c)
  <2>1. \A u \in Sessions \ {on[c]} : state'[u] = state[u] /\ disk'[u] = disk[u]
    BY <1>12 DEF SetPending, TypeInv, TypeOK
  <2>2. /\ UNCHANGED <<queue, passVars, runVars, touched>>
        /\ on[c] \in touched
    BY <1>1, <1>12 DEF SetPending, Launches
  <2>3. CASE Leave(c)
    <3>1. ClientForm(c, on[c], "idle", FALSE, None)
      BY <2>1, <2>2, <2>3 DEF ClientForm, Leave
    <3>2. QED
      BY <1>0, <2>2, <3>1, OutsideClient
  <2>4. CASE Goto(c, "respawn")
    <3>1. ClientForm(c, on[c], "respawn", had[c], on[c])
      BY <1>0, <2>1, <2>2, <2>4 DEF ClientForm, Goto
    <3>2. QED
      BY <1>0, <2>2, <3>1, OutsideClient
  <2>5. QED
    BY <1>12, <2>3, <2>4 DEF SetPending
<1>13. CASE ClientCrash(c)
  <2>1. CASE pc[c] \in Launches
    BY <1>0, <1>13, <2>1, LaunchOn DEF ClientCrash, Leave, Launches
  <2>2. CASE pc[c] \notin Launches
    <3>1. /\ ClientForm(c, on[c], "idle", FALSE, None)
          /\ on[c] \in touched' /\ touched' = touched
      BY <1>1, <1>13, <2>2 DEF ClientForm, ClientCrash, Leave
    <3>2. QED
      BY <1>0, <3>1, OutsideClient
  <2>3. QED
    BY <2>1, <2>2
<1>14. ASSUME NEW s \in Sessions, Cleanup(c, s) \/ Delete(c, s) \/ Resume(c, s)
       PROVE  OnceInv'
  BY <1>7, <1>14 DEF Cleanup, Delete, Resume, Places, Launches
<1>15. ASSUME NEW s \in Sessions, NEW b \in BOOLEAN, Stop(c, s, b) PROVE OnceInv'
  <2>1. (b /\ tree[s]) \in BOOLEAN
    OBVIOUS
  <2>2. QED
    BY <1>7, <1>15, <2>1 DEF Stop, Places, Launches
<1>16. QED
  BY <1>2, <1>3, <1>4, <1>5, <1>6, <1>8, <1>9, <1>10, <1>11, <1>12, <1>13, <1>14,
     <1>15, OnceLaunch, OnceEnqueue, OnceSpawn DEF ClientStep

LEMMA OnceFrom ==
  ASSUME OnceInv, UNCHANGED <<opVars, touched>>,
         \A s \in Sessions : InOne(s) => InOne(s)'
  PROVE  OnceInv'
  BY DEF OnceInv, Interference, opVars

LEMMA KeptAll ==
  ASSUME OnceInv, UNCHANGED <<opVars, touched>>, \A s \in Sessions : Kept(s)
  PROVE  OnceInv'
<1>1. \A s \in Sessions : InOne(s) => InOne(s)'
  BY KeptOne
<1>2. QED
  BY <1>1, OnceFrom

\* A step of daemon d takes nothing in hand.
DaemonForm(d) ==
  /\ UNCHANGED <<opVars, touched>>
  /\ \A e \in Daemons \ {d} : pass'[e] = pass[e] /\ todo'[e] = todo[e]
  /\ \A s \in Sessions : /\ state'[s] = "none" => state[s] = "none"
                         /\ Queued(s)' => Queued(s)
                         /\ Listed(d, s)' => Listed(d, s) \/ Queued(s)

LEMMA DaemonKeeps ==
  ASSUME NEW d \in Daemons, DaemonForm(d), NEW s \in Sessions,
         disk[s] => disk'[s], Hands(d, s)' => Hands(d, s),
         \A r \in Runners : Works(r, s)' => Works(r, s)
  PROVE  Kept(s)
<1>1. \A e \in Daemons : /\ Hands(e, s)' => Hands(e, s)
                         /\ Listed(e, s)' => Listed(e, s) \/ Queued(s)
  <2> SUFFICES ASSUME NEW e \in Daemons
               PROVE  /\ Hands(e, s)' => Hands(e, s)
                      /\ Listed(e, s)' => Listed(e, s) \/ Queued(s)
    OBVIOUS
  <2>1. CASE e = d
    BY <2>1 DEF DaemonForm
  <2>2. CASE e # d
    BY <2>2 DEF DaemonForm, Hands, Listed, Current
  <2>3. QED
    BY <2>1, <2>2
<1>2. \A c \in Clients : /\ Launching(c, s)' <=> Launching(c, s)
                         /\ Late(c, s)' <=> Late(c, s)
                         /\ Holding(c, s)' <=> Holding(c, s)
  BY DEF DaemonForm, opVars, Launching, Late, Holding
<1>3. QED
  BY <1>1, <1>2 DEF DaemonForm, Kept

LEMMA SameRunners ==
  ASSUME UNCHANGED runVars
  PROVE  \A s \in Sessions, r \in Runners : Works(r, s)' <=> Works(r, s)
  BY DEF runVars, Works

\* The current session of a daemon is in its list, and was launched.
LEMMA CurrentIsLaunched ==
  ASSUME TypeInv, OnceInv, NEW d \in Daemons, pass[d] \in {"create", "attach", "spawn"}
  PROVE  /\ todo[d] # <<>> /\ Current(d) \in Sessions
         /\ Current(d) \notin touched =>
              /\ InOne(Current(d)) /\ state[Current(d)] # "none"
              /\ \A c \in Clients : ~Launching(c, Current(d))
<1>1. todo[d] # <<>>
  BY DEF TypeInv, Placed
<1>2. PICK t \in Sessions : t = Current(d)
  BY <1>1, QueueTypes
<1>3. Listed(d, t)
  BY <1>1, <1>2, QueueMoves
<1>4. ~Unseen(t)
  BY <1>3 DEF Unseen
<1>5. t \notin touched => InOne(t)
  BY DEF OnceInv
<1>6. InOne(t) => state[t] # "none" /\ \A c \in Clients : ~Launching(c, t)
  BY <1>4 DEF InOne, OneLaunch, NewIsUnseen
<1>7. QED
  BY <1>1, <1>2, <1>5, <1>6

\* After the launch: at most one daemon has it in hand, or it has one agent.
LEMMA OneAfterLaunch ==
  ASSUME NEW s \in Sessions, state'[s] # "none",
         \A c \in Clients : ~Launching(c, s)',
         \A d, e \in Daemons : Hands(d, s)' /\ Hands(e, s)' => d = e,
         \A q, r \in Runners : Works(q, s)' /\ Works(r, s)' => q = r,
         \A d \in Daemons, r \in Runners : ~(Hands(d, s)' /\ Works(r, s)'),
         \/ disk'[s]
         \/ (\A d \in Daemons : ~Hands(d, s)') /\ \A r \in Runners : ~Works(r, s)'
  PROVE  InOne(s)'
<1>1. OneLaunch(s)'
  BY DEF OneLaunch, Late, Holding, Launching, Launches
<1>2. OneStart(s)' /\ OneAgent(s)' /\ NewIsUnseen(s)'
  <2>1. \A d \in Daemons : Hands(d, s)' => \A r \in Runners : ~Works(r, s)'
    OBVIOUS
  <2>2. ASSUME NEW r \in Runners, Works(r, s)' PROVE disk'[s]
    BY <2>2
  <2>3. OneStart(s)'
    BY <2>1 DEF OneStart
  <2>4. OneAgent(s)'
    BY <2>2 DEF OneAgent
  <2>5. QED
    BY <2>3, <2>4 DEF NewIsUnseen
<1>3. QED
  BY <1>1, <1>2 DEF InOne

LEMMA OnceCreate ==
  ASSUME TypeInv, OnceInv, NEW d \in Daemons, CreateTree(d) PROVE OnceInv'
<1>1. /\ pass[d] = "create" /\ ~disk[Current(d)]
      /\ pass' = [pass EXCEPT ![d] = "attach"] /\ UNCHANGED <<todo, free>>
      /\ disk' = [disk EXCEPT ![Current(d)] = TRUE]
      /\ UNCHANGED <<state, queue, opVars, runVars, touched>>
  BY DEF CreateTree, Move, rowVars, history
<1>2. PICK t \in Sessions : t = Current(d)
  BY <1>1, CurrentIsLaunched
<1>3. DaemonForm(d)
  BY <1>1 DEF DaemonForm, Queued, Listed, TypeInv, TypeOK
<1>4. \A s \in Sessions : disk[s] => disk'[s]
  BY <1>1 DEF TypeInv, TypeOK
<1>5. Current(d)' = t
  BY <1>1, <1>2 DEF Current
<1>6. ASSUME NEW s \in Sessions \ touched PROVE InOne(s)'
  <2>1. InOne(s)
    BY <1>6 DEF OnceInv
  <2>2. CASE s # t
    <3>1. ~Hands(d, s)'
      BY <1>5, <2>2 DEF Hands
    <3>2. Kept(s)
      BY <1>1, <1>3, <1>4, <3>1, SameRunners, DaemonKeeps
    <3>3. QED
      BY <2>1, <3>2, KeptOne
  <2>3. CASE s = t
    <3>1. state[s] # "none" /\ \A c \in Clients : ~Launching(c, s)
      BY <1>1, <1>2, <2>3, CurrentIsLaunched
    <3>2. /\ \A e \in Daemons : ~Hands(e, s)
          /\ \A r \in Runners : ~Works(r, s)
      BY <1>1, <1>2, <2>1, <2>3 DEF InOne, OneStart, OneAgent
    <3>3. \A r \in Runners : ~Works(r, s)'
      BY <1>1, <3>2, SameRunners
    <3>4. \A e \in Daemons : Hands(e, s)' => e = d
      BY <1>3, <3>2 DEF DaemonForm, Hands, Current
    <3>5. \A c \in Clients : ~Launching(c, s)'
      BY <1>1, <3>1 DEF Launching, opVars
    <3>6. disk'[s]
      BY <1>1, <1>2, <2>3 DEF TypeInv, TypeOK
    <3>7. QED
      BY <1>1, <3>1, <3>3, <3>4, <3>5, <3>6, OneAfterLaunch
  <2>4. QED
    BY <2>2, <2>3
<1>7. QED
  BY <1>1, <1>6 DEF OnceInv, Interference, opVars

LEMMA OnceAttach ==
  ASSUME TypeInv, OnceInv, NEW d \in Daemons, attach_worktree(d) PROVE OnceInv'
<1>1. /\ pass[d] = "attach" /\ UNCHANGED <<state, queue, opVars, runVars, touched>>
  BY DEF attach_worktree, history
<1>2. PICK t \in Sessions : t = Current(d)
  BY <1>1, CurrentIsLaunched
<1>3. CASE Present(t)
  <2>1. pass' = [pass EXCEPT ![d] = "spawn"] /\ todo' = todo /\ disk' = disk
    BY <1>2, <1>3 DEF attach_worktree, Move
  <2>2. DaemonForm(d)
    BY <1>1, <2>1 DEF DaemonForm, Queued, Listed, TypeInv, TypeOK
  <2>3. \A s \in Sessions : Hands(d, s)' => Hands(d, s)
    BY <1>1, <2>1 DEF Hands, Current
  <2>4. \A s \in Sessions : Kept(s)
    BY <1>1, <2>1, <2>2, <2>3, SameRunners, DaemonKeeps
  <2>5. QED
    BY <1>1, <2>4, KeptAll
<1>4. CASE ~Present(t)
  <2>1. /\ pass' = [pass EXCEPT ![d] = "idle"] /\ todo' = [todo EXCEPT ![d] = <<>>]
        /\ disk' = [disk EXCEPT ![t] = FALSE]
    BY <1>2, <1>4 DEF attach_worktree, Over
  <2>2. pass'[d] = "idle" /\ todo'[d] = <<>>
    BY <2>1 DEF TypeInv, TypeOK
  <2>3. \A s \in Sessions : ~Hands(d, s)' /\ ~Listed(d, s)'
    BY <2>2, EmptyHasNone DEF Hands, Listed
  <2>4. DaemonForm(d)
    BY <1>1, <2>1, <2>3 DEF DaemonForm, Queued, TypeInv, TypeOK
  <2>5. ASSUME NEW s \in Sessions \ touched PROVE InOne(s)'
    <3>1. InOne(s)
      BY <2>5 DEF OnceInv
    <3>2. CASE s # t
      <4>1. disk'[s] = disk[s]
        BY <2>1, <3>2 DEF TypeInv, TypeOK
      <4>2. Kept(s)
        BY <1>1, <2>3, <2>4, <4>1, SameRunners, DaemonKeeps
      <4>3. QED
        BY <3>1, <4>2, KeptOne
    <3>3. CASE s = t
      <4>1. state[s] # "none" /\ \A c \in Clients : ~Launching(c, s)
        BY <1>1, <1>2, <3>3, CurrentIsLaunched
      <4>2. Hands(d, s)
        BY <1>1, <1>2, <3>3 DEF Hands
      <4>3. /\ \A e \in Daemons : Hands(e, s) => e = d
            /\ \A r \in Runners : ~Works(r, s)
        BY <3>1, <4>2 DEF InOne, OneStart
      <4>4. \A r \in Runners : ~Works(r, s)'
        BY <1>1, <4>3, SameRunners
      <4>5. \A e \in Daemons : ~Hands(e, s)'
        BY <2>3, <2>4, <4>3 DEF DaemonForm, Hands, Current
      <4>6. \A c \in Clients : ~Launching(c, s)'
        BY <1>1, <4>1 DEF Launching, opVars
      <4>7. QED
        BY <1>1, <4>1, <4>4, <4>5, <4>6, OneAfterLaunch
    <3>4. QED
      BY <3>2, <3>3
  <2>6. QED
    BY <1>1, <2>5 DEF OnceInv, Interference, opVars
<1>5. QED
  BY <1>3, <1>4

LEMMA OnceSpawnTask ==
  ASSUME TypeInv, OnceInv, NEW d \in Daemons, NEW r \in Runners, SpawnTask(d, r)
  PROVE  OnceInv'
<1>1. /\ pass[d] = "spawn" /\ run[r] = "unborn"
      /\ pass' = [pass EXCEPT ![d] = "started"] /\ UNCHANGED <<todo, free>>
      /\ of' = [of EXCEPT ![r] = Current(d)] /\ run' = [run EXCEPT ![r] = "started"]
      /\ UNCHANGED <<state, queue, disk, opVars, touched>>
  BY DEF SpawnTask, StartRunner, Move, rowVars, history
<1>2. PICK t \in Sessions : t = Current(d)
  BY <1>1, CurrentIsLaunched
<1>3. DaemonForm(d)
  BY <1>1 DEF DaemonForm, Queued, Listed, TypeInv, TypeOK
<1>4. /\ \A q \in Runners \ {r} : of'[q] = of[q] /\ run'[q] = run[q]
      /\ of'[r] = t /\ pass'[d] = "started"
  BY <1>1, <1>2 DEF TypeInv, TypeOK
<1>5. \A s \in Sessions, q \in Runners \ {r} : Works(q, s)' <=> Works(q, s)
  BY <1>4 DEF Works
<1>6. \A s \in Sessions : ~Hands(d, s)'
  BY <1>4 DEF Hands
<1>7. ASSUME NEW s \in Sessions \ touched PROVE InOne(s)'
  <2>1. InOne(s)
    BY <1>7 DEF OnceInv
  <2>2. CASE s # t
    <3>1. ~Works(r, s)'
      BY <1>4, <2>2 DEF Works
    <3>2. Kept(s)
      BY <1>1, <1>3, <1>5, <1>6, <3>1, DaemonKeeps
    <3>3. QED
      BY <2>1, <3>2, KeptOne
  <2>3. CASE s = t
    <3>1. state[s] # "none" /\ \A c \in Clients : ~Launching(c, s)
      BY <1>1, <1>2, <2>3, CurrentIsLaunched
    <3>2. Hands(d, s)
      BY <1>1, <1>2, <2>3 DEF Hands
    <3>3. /\ disk[s] /\ \A e \in Daemons : Hands(e, s) => e = d
          /\ \A q \in Runners : ~Works(q, s)
      BY <2>1, <3>2 DEF InOne, OneStart
    <3>4. \A q \in Runners : Works(q, s)' => q = r
      BY <1>5, <3>3
    <3>5. \A e \in Daemons : ~Hands(e, s)'
      BY <1>3, <1>6, <3>3 DEF DaemonForm, Hands, Current
    <3>6. \A c \in Clients : ~Launching(c, s)'
      BY <1>1, <3>1 DEF Launching, opVars
    <3>7. QED
      BY <1>1, <3>1, <3>3, <3>4, <3>5, <3>6, OneAfterLaunch
  <2>4. QED
    BY <2>2, <2>3
<1>8. QED
  BY <1>1, <1>7 DEF OnceInv, Interference, opVars

LEMMA OnceDaemon ==
  ASSUME TypeInv, OnceInv, NEW d \in Daemons, DaemonStep(d) PROVE OnceInv'
<1> USE DEF rowVars, history
<1>0. /\ \A s : In(Without(queue, s), s) => Queued(s)
      /\ pass \in [Daemons -> Stages] /\ todo \in [Daemons -> Seq(Sessions)]
      /\ state \in [Sessions -> {"none", "deleted", "Pending", "Running"} \cup Ended]
  BY QueueMoves DEF TypeInv, TypeOK, Stages
\* Where the pass goes on without having anything in hand.
<1>1. ASSUME UNCHANGED <<opVars, runVars, touched>>, disk' = disk,
             NEW l \in {"idle", "queue", "look", "skip", "create", "fail", "started"},
             pass' = [pass EXCEPT ![d] = l],
             \A e \in Daemons \ {d} : todo'[e] = todo[e],
             \A s \in Sessions : /\ state'[s] = "none" => state[s] = "none"
                                 /\ Queued(s)' => Queued(s)
                                 /\ Listed(d, s)' => Listed(d, s) \/ Queued(s)
      PROVE  OnceInv'
  <2>1. DaemonForm(d)
    BY <1>0, <1>1 DEF DaemonForm
  <2>2. \A s \in Sessions : ~Hands(d, s)'
    BY <1>0, <1>1 DEF Hands
  <2>3. \A s \in Sessions : Kept(s)
    BY <1>1, <2>1, <2>2, SameRunners, DaemonKeeps
  <2>4. QED
    BY <1>1, <2>3, KeptAll
<1>2. ASSUME todo' = todo PROVE \A s : Listed(d, s)' <=> Listed(d, s)
  BY <1>2 DEF Listed
<1>3. ASSUME todo' = [todo EXCEPT ![d] = <<>>]
      PROVE  /\ \A s : ~Listed(d, s)'
             /\ \A e \in Daemons \ {d} : todo'[e] = todo[e]
  BY <1>0, <1>3, EmptyHasNone DEF Listed
<1>4. ASSUME todo[d] # <<>>, todo' = [todo EXCEPT ![d] = Tail(@)]
      PROVE  /\ \A s : Listed(d, s)' => Listed(d, s)
             /\ \A e \in Daemons \ {d} : todo'[e] = todo[e]
  BY <1>0, <1>4, QueueMoves DEF Listed
<1>5. ASSUME queue' = queue PROVE \A s : Queued(s)' <=> Queued(s)
  BY <1>5 DEF Queued
<1>6. ASSUME NEW t, queue' = Without(queue, t) PROVE \A s : Queued(s)' => Queued(s)
  BY <1>6, QueueMoves DEF Queued
<1>7. CASE CountSlots(d)
  BY <1>1, <1>2, <1>5, <1>7 DEF CountSlots
<1>8. CASE pending_worktree_queue(d)
  <2> DEFINE n == IF Len(queue) < free[d] THEN Len(queue) ELSE free[d]
  <2>1. n \in 0..Len(queue) /\ queue \in Seq(Sessions)
    BY LenProperties, QueueAssumption DEF QueueAssumption, TypeInv, TypeOK
  <2>2. \A s : In(SubSeq(queue, 1, n), s) => Queued(s)
    BY <2>1, FirstOnes DEF Queued
  <2>3. todo' = [todo EXCEPT ![d] = SubSeq(queue, 1, n)]
    BY <1>8 DEF pending_worktree_queue
  <2>4. \A s \in Sessions : Listed(d, s)' => Queued(s)
    BY <1>0, <2>2, <2>3 DEF Listed
  <2>5. QED
    BY <1>0, <1>1, <1>5, <1>8, <2>3, <2>4 DEF pending_worktree_queue
<1>9. CASE Look(d)
  BY <1>1, <1>2, <1>5, <1>9 DEF Look, Move
<1>10. CASE EndPass(d)
  BY <1>1, <1>3, <1>5, <1>10 DEF EndPass, Over
<1>11. CASE SkipEntry(d)
  <2>1. todo[d] # <<>>
    BY <1>11 DEF SkipEntry, TypeInv, Placed
  <2>2. QED
    BY <1>1, <1>4, <1>6, <1>11, <2>1 DEF SkipEntry, NextEntry
<1>12. CASE CreateTreeFails(d)
  BY <1>1, <1>2, <1>6, <1>12 DEF CreateTreeFails, Move
<1>13. CASE FailEntry(d)
  <2>1. todo[d] # <<>>
    BY <1>13 DEF FailEntry, TypeInv, Placed
  <2>2. \A s \in Sessions : state'[s] = "none" => state[s] = "none"
    BY <1>0, <1>13 DEF FailEntry, Fail
  <2>3. UNCHANGED <<queue, disk, opVars, runVars, touched>>
    BY <1>13 DEF FailEntry
  <2>4. CASE NextEntry(d)
    BY <1>1, <1>4, <1>5, <2>1, <2>2, <2>3, <2>4 DEF NextEntry
  <2>5. CASE Over(d)
    BY <1>1, <1>3, <1>5, <2>2, <2>3, <2>5 DEF Over
  <2>6. QED
    BY <1>13, <2>4, <2>5 DEF FailEntry
<1>14. CASE EntryStarted(d)
  <2>1. todo[d] # <<>>
    BY <1>14 DEF EntryStarted, TypeInv, Placed
  <2>2. UNCHANGED <<state, disk, opVars, runVars, touched>>
    BY <1>14 DEF EntryStarted
  <2>3. \A s \in Sessions : Queued(s)' => Queued(s)
    BY <1>6, <1>14 DEF EntryStarted
  <2>4. CASE NextEntry(d)
    BY <1>1, <1>4, <2>1, <2>2, <2>3, <2>4 DEF NextEntry
  <2>5. CASE Over(d)
    BY <1>1, <1>3, <2>2, <2>3, <2>5 DEF Over
  <2>6. QED
    BY <1>14, <2>4, <2>5 DEF EntryStarted
<1>15. QED
  BY <1>7, <1>8, <1>9, <1>10, <1>11, <1>12, <1>13, <1>14, OnceCreate, OnceAttach,
     OnceSpawnTask DEF DaemonStep

LEMMA OnceCrash ==
  ASSUME TypeInv, OnceInv, NEW d \in Daemons, DaemonCrash(d) PROVE OnceInv'
<1>1. /\ pass' = [pass EXCEPT ![d] = "idle"] /\ todo' = [todo EXCEPT ![d] = <<>>]
      /\ of' = of /\ UNCHANGED <<state, queue, disk, opVars, touched>>
      /\ \A r \in Runners : run'[r] \in {run[r], "crashed"}
  BY DEF DaemonCrash, Over, rowVars
<1>2. \A s \in Sessions, r \in Runners : Works(r, s)' => Works(r, s)
  BY <1>1 DEF Works, Working
<1>3. pass'[d] = "idle" /\ todo'[d] = <<>>
  BY <1>1 DEF TypeInv, TypeOK
<1>4. \A s \in Sessions : ~Hands(d, s)' /\ ~Listed(d, s)'
  BY <1>3, EmptyHasNone DEF Hands, Listed
<1>5. DaemonForm(d)
  BY <1>1, <1>4 DEF DaemonForm, Queued, TypeInv, TypeOK
<1>6. \A s \in Sessions : Kept(s)
  BY <1>1, <1>2, <1>4, <1>5, DaemonKeeps
<1>7. QED
  BY <1>1, <1>6, KeptAll

\* A runner, or the recovery of a session, only writes states.
LEMMA RowsKeep ==
  ASSUME OnceInv, UNCHANGED <<queue, disk, passVars, opVars, touched>>,
         \A s \in Sessions : state'[s] = "none" => state[s] = "none",
         \A s \in Sessions, r \in Runners : Works(r, s)' => Works(r, s)
  PROVE  OnceInv'
<1>1. \A s \in Sessions : Kept(s)
  BY DEF Kept, passVars, opVars, Queued, Listed, Hands, Current, Launching, Late, Holding
<1>2. QED
  BY <1>1, KeptAll

LEMMA OnceRunner ==
  ASSUME TypeInv, OnceInv, NEW r \in Runners, RunnerStep(r) PROVE OnceInv'
<1>1. UNCHANGED <<queue, disk, passVars, opVars, touched>>
  BY DEF RunnerStep, Skip, Accept, GiveUp, RecordPid, RunFails, RecordRunning, Finish, history
<1>2. \A s \in Sessions : state'[s] = "none" => state[s] = "none"
  <2>1. state \in [Sessions -> {"none", "deleted", "Pending", "Running"} \cup Ended]
    BY DEF TypeInv, TypeOK
  <2>2. \/ state' = state \/ Fail(of[r])
        \/ state' = [state EXCEPT ![of[r]] = "Running"]
        \/ state' = [state EXCEPT ![of[r]] = "Completed"]
    BY DEF RunnerStep, Skip, Accept, GiveUp, RecordPid, RunFails, RecordRunning,
           Finish, rowVars
  <2>3. QED
    BY <2>1, <2>2 DEF Fail
<1>3. /\ run[r] \in Working
      /\ \E l \in Working \cup {"done"} : To(r, l)
  BY DEF RunnerStep, Skip, Accept, GiveUp, RecordPid, RunFails, RecordRunning, Finish,
         Working
<1>4. \A s \in Sessions, q \in Runners : Works(q, s)' => Works(q, s)
  BY <1>3 DEF To, Works, TypeInv, TypeOK
<1>5. QED
  BY <1>1, <1>2, <1>4, RowsKeep

LEMMA OnceRecover ==
  ASSUME TypeInv, OnceInv, NEW s \in Sessions, Recover(s) PROVE OnceInv'
<1>1. UNCHANGED <<queue, disk, passVars, opVars, runVars, touched>>
  BY DEF Recover, history
<1>2. \A t \in Sessions : state'[t] = "none" => state[t] = "none"
  BY DEF Recover, TypeInv, TypeOK
<1>3. QED
  BY <1>1, <1>2, SameRunners, RowsKeep

LEMMA OnceInit == Init => OnceInv
<1> SUFFICES ASSUME Init PROVE OnceInv
  OBVIOUS
<1>1. \A s \in Sessions : ~Queued(s) /\ \A d \in Daemons : ~Listed(d, s) /\ ~Hands(d, s)
  BY EmptyHasNone DEF Init, Queued, Listed, Hands
<1>2. \A s \in Sessions : /\ \A c \in Clients : ~Launching(c, s) /\ ~Late(c, s) /\ ~Holding(c, s)
                          /\ \A r \in Runners : ~Works(r, s)
  BY DEF Init, Launching, Late, Holding, Launches, Works, Working
<1>3. \A s \in Sessions : InOne(s)
  BY <1>1, <1>2 DEF InOne, OneLaunch, OneStart, OneAgent, NewIsUnseen, Unseen
<1>4. QED
  BY <1>3 DEF OnceInv, Interference, Init

LEMMA OnceStep ==
  ASSUME TypeInv, LimitInv, OnceInv, [Next]_vars PROVE OnceInv'
<1>1. CASE UNCHANGED vars
  <2>1. UNCHANGED <<state, queue, disk, passVars, opVars, runVars, touched>>
    BY <1>1 DEF vars, rowVars, passVars, opVars, runVars, history
  <2>2. QED
    BY <2>1, SameRunners, RowsKeep
<1>2. QED
  BY <1>1, OnceClient, OnceDaemon, OnceCrash, OnceRunner, OnceRecover DEF Next

\* A session that no client stops, resumes, cleans up or deletes
\* (manager.rs) has at most one runner, whatever the launch and any number of
\* daemons that read the queue at the same time do.
THEOREM OneAgentEach == Spec => []StartedOnce
<1>1. Init => TypeInv /\ LimitInv /\ OnceInv
  BY TypeInit, LimitInit, OnceInit
<1>2. TypeInv /\ LimitInv /\ OnceInv /\ [Next]_vars => TypeInv' /\ LimitInv' /\ OnceInv'
  BY TypeStep, LimitStep, OnceStep
<1>3. OnceInv => StartedOnce
  BY DEF OnceInv, InOne, OneAgent, Works, StartedOnce
<1>4. QED
  BY <1>1, <1>2, <1>3, PTL DEF Spec

(***************************************************************************)
(* Nobody is forgotten.  A pending session that already has a worktree or  *)
(* a pid, or that a pass is going to dequeue, is served: a daemon has it   *)
(* in hand, a client is about to start its runner, a runner has not yet    *)
(* written its state, or it was cut off.                                   *)
(***************************************************************************)
Pending(s) == state[s] = "Pending"
Early(c, s) == on[c] = s /\ pc[c] \in {"make", "insert"}
Later(c, s) == on[c] = s /\ pc[c] \notin {"idle", "make", "insert"}
Enqueues(c, s) == on[c] = s /\ pc[c] = "enqueue"
Starts(c, s) == on[c] = s /\ pc[c] \in {"spawn", "respawn"}
Goes(r, s) == of[r] = s /\ run[r] \in {"started", "accepted", "recorded"}
Dequeues(d, s) == pass[d] \in {"skip", "started"} /\ Current(d) = s

Served(s) ==
  \/ \E d \in Daemons : Held(d, s)
  \/ \E c \in Clients : Starts(c, s)
  \/ \E r \in Runners : Goes(r, s)
  \/ s \in broken

PendingIsKnown(s) ==
  Pending(s) => Queued(s) \/ Served(s) \/ \E c \in Clients : Enqueues(c, s)

BusyIsServed(s) ==
  Pending(s) /\ (tree[s] \/ pid[s] \/ \E d \in Daemons : Dequeues(d, s)) => Served(s)

NewIsFresh(s) ==
  state[s] = "none" =>
    ~tree[s] /\ ~pid[s] /\ ~Queued(s) /\ \A d \in Daemons : ~Listed(d, s)

LaunchIsFirst(s) ==
  \A c \in Clients :
    /\ Early(c, s) => state[s] = "none" /\ \A e \in Clients : on[e] = s => e = c
    /\ Later(c, s) => state[s] # "none"

Fine(s) == PendingIsKnown(s) /\ BusyIsServed(s) /\ NewIsFresh(s) /\ LaunchIsFirst(s)

StrandInv == \A s \in Sessions : Fine(s)

\* A step after which nothing is pending that was not, and nobody comes to a
\* session that has no row.
RowForm(s) ==
  /\ Pending(s)' => Pending(s)
  /\ state'[s] = "none" <=> state[s] = "none"
  /\ Queued(s)' => Queued(s) \/ state[s] # "none"
  /\ \A d \in Daemons : Listed(d, s)' => Listed(d, s) \/ Queued(s)
  /\ \A c \in Clients : /\ Early(c, s)' => Early(c, s)
                        /\ on'[c] = s => on[c] = s \/ state[s] # "none"
                        /\ Later(c, s)' => Later(c, s) \/ state[s] # "none"
  /\ state[s] = "none" => ~tree'[s] /\ ~pid'[s]

\* Nor is one that stays pending forgotten.
Tended(s) == Pending(s)' =>
  /\ Served(s) => Served(s)'
  /\ Queued(s) => Queued(s)' \/ Served(s)'
  /\ \A c \in Clients : Enqueues(c, s) => Enqueues(c, s)' \/ Queued(s)' \/ Served(s)'
  /\ tree'[s] => tree[s] \/ Served(s)'
  /\ pid'[s] => pid[s] \/ Served(s)'
  /\ \A d \in Daemons :
       Dequeues(d, s)' => Dequeues(d, s) \/ tree[s] \/ pid[s] \/ Served(s)'

LEMMA FineStep ==
  ASSUME NEW s \in Sessions, Fine(s), RowForm(s), Tended(s) PROVE Fine(s)'
<1>1. PendingIsKnown(s) /\ BusyIsServed(s) /\ NewIsFresh(s) /\ LaunchIsFirst(s)
  BY DEF Fine
<1>2. PendingIsKnown(s)'
  <2> SUFFICES ASSUME Pending(s)'
               PROVE  Queued(s)' \/ Served(s)' \/ \E c \in Clients : Enqueues(c, s)'
    BY DEF PendingIsKnown
  <2>1. Pending(s)
    BY DEF RowForm
  <2>2. QED
    BY <1>1, <2>1 DEF PendingIsKnown, Tended
<1>3. BusyIsServed(s)'
  <2> SUFFICES ASSUME Pending(s)',
                      tree'[s] \/ pid'[s] \/ \E d \in Daemons : Dequeues(d, s)'
               PROVE  Served(s)'
    BY DEF BusyIsServed
  <2>1. Pending(s)
    BY DEF RowForm
  <2>2. Served(s)' \/ tree[s] \/ pid[s] \/ \E d \in Daemons : Dequeues(d, s)
    BY DEF Tended
  <2>3. QED
    BY <1>1, <2>1, <2>2 DEF BusyIsServed, Tended
<1>4. NewIsFresh(s)'
  BY <1>1 DEF NewIsFresh, RowForm
<1>5. LaunchIsFirst(s)'
  BY <1>1 DEF LaunchIsFirst, RowForm
<1>6. QED
  BY <1>2, <1>3, <1>4, <1>5 DEF Fine

\* What a step has to show when it makes a session pending.
LEMMA FineServed ==
  ASSUME NEW s \in Sessions, Served(s)', state'[s] # "none",
         \A c \in Clients : ~Early(c, s)'
  PROVE  Fine(s)'
  BY DEF Fine, PendingIsKnown, BusyIsServed, NewIsFresh, LaunchIsFirst

LEMMA ClientServes ==
  ASSUME TypeInv, NEW c \in Clients, NEW s \in Sessions,
         \A e \in Clients \ {c} : pc'[e] = pc[e] /\ on'[e] = on[e],
         UNCHANGED <<passVars, runVars>>, broken \subseteq broken',
         Starts(c, s) => Served(s)'
  PROVE  Served(s) => Served(s)'
<1>1. \A d \in Daemons : Held(d, s)' <=> Held(d, s)
  BY DEF Held, Current, passVars
<1>2. \A r \in Runners : Goes(r, s)' <=> Goes(r, s)
  BY DEF Goes, runVars
<1>3. \A e \in Clients \ {c} : Starts(e, s)' <=> Starts(e, s)
  BY DEF Starts
<1>4. QED
  BY <1>1, <1>2, <1>3 DEF Served

\* The sessions a step of a client is not about.
LEMMA ClientElsewhereFine ==
  ASSUME TypeInv, NEW c \in Clients, NEW t, NEW s \in Sessions, s # t, Fine(s),
         NEW l, NEW w, NEW n \in {t, None}, ClientForm(c, t, l, w, n),
         pc[c] = "idle" \/ on[c] = t, broken \subseteq broken',
         \A u \in Sessions \ {t} : tree'[u] = tree[u] /\ pid'[u] = pid[u]
  PROVE  Fine(s)'
<1>1. /\ \A e \in Clients \ {c} : pc'[e] = pc[e] /\ on'[e] = on[e]
      /\ on'[c] # s
  BY QueueAssumption DEF ClientForm, TypeInv, TypeOK, QueueAssumption
<1>2. Queued(s)' <=> Queued(s)
  <2>1. CASE queue' = queue
    BY <2>1 DEF Queued
  <2>2. CASE queue' = Without(queue, t)
    BY <2>2, QueueMoves DEF Queued
  <2>3. CASE t \in Sessions /\ queue' = Append(Without(queue, t), t)
    <3>1. In(Append(Without(queue, t), t), s) <=> In(Without(queue, t), s)
      BY <2>3, QueueMoves
    <3>2. QED
      BY <2>3, <3>1, QueueMoves DEF Queued
  <2>4. QED
    BY <2>1, <2>2, <2>3 DEF ClientForm
<1>3. ~Starts(c, s) /\ ~Enqueues(c, s)
  BY DEF Starts, Enqueues
<1>4. Served(s) => Served(s)'
  BY <1>1, <1>3, ClientServes DEF ClientForm
<1>5. /\ state'[s] = state[s] /\ tree'[s] = tree[s] /\ pid'[s] = pid[s]
      /\ \A d \in Daemons : /\ Listed(d, s)' <=> Listed(d, s)
                            /\ Dequeues(d, s)' <=> Dequeues(d, s)
  BY DEF ClientForm, passVars, Listed, Dequeues, Current
<1>6. RowForm(s)
  <2>1. \A e \in Clients : on'[e] = s => e # c
    BY <1>1
  <2>2. \A e \in Clients : /\ Early(e, s)' => Early(e, s)
                           /\ on'[e] = s => on[e] = s
                           /\ Later(e, s)' => Later(e, s)
    BY <1>1, <2>1 DEF Early, Later
  <2>3. state[s] = "none" => ~tree[s] /\ ~pid[s]
    BY DEF Fine, NewIsFresh
  <2>4. QED
    BY <1>2, <1>5, <2>2, <2>3 DEF RowForm, Pending
<1>7. Tended(s)
  <2>1. \A e \in Clients : Enqueues(e, s) => Enqueues(e, s)'
    BY <1>1, <1>3 DEF Enqueues
  <2>2. QED
    BY <1>2, <1>4, <1>5, <2>1 DEF Tended
<1>8. QED
  BY <1>6, <1>7, FineStep

LEMMA ClientHereFine ==
  ASSUME TypeInv, NEW c \in Clients, NEW t \in Sessions, Fine(t),
         NEW l, NEW w, NEW n \in {t, None}, ClientForm(c, t, l, w, n),
         broken \subseteq broken',
         Pending(t)' => Pending(t), state'[t] = "none" <=> state[t] = "none",
         tree'[t] => tree[t], pid'[t] => pid[t],
         Queued(t)' => Queued(t) \/ state[t] # "none",
         Pending(t)' /\ Queued(t) => Queued(t)',
         Pending(t)' /\ Starts(c, t) => t \in broken',
         Pending(t)' /\ Enqueues(c, t) => Queued(t)' \/ t \in broken',
         n = t => \/ l = "insert" /\ Early(c, t)
                  \/ l \notin {"make", "insert"} /\ state[t] # "none"
  PROVE  Fine(t)'
<1>1. /\ \A e \in Clients \ {c} : pc'[e] = pc[e] /\ on'[e] = on[e]
      /\ pc'[c] = l /\ on'[c] = n
  BY DEF ClientForm, TypeInv, TypeOK
<1>2. /\ \A d \in Daemons : /\ Listed(d, t)' <=> Listed(d, t)
                            /\ Dequeues(d, t)' <=> Dequeues(d, t)
      /\ UNCHANGED <<passVars, runVars>>
  BY DEF ClientForm, passVars, Listed, Dequeues, Current
<1>3. Pending(t)' /\ Served(t) => Served(t)'
  <2> SUFFICES ASSUME Pending(t)' PROVE Served(t) => Served(t)'
    OBVIOUS
  <2>1. Starts(c, t) => Served(t)'
    BY DEF Served
  <2>2. QED
    BY <1>1, <1>2, <2>1, ClientServes
<1>4. RowForm(t)
  <2>1. n = t \/ n # t
    OBVIOUS
  <2>2. \A e \in Clients : /\ Early(e, t)' => Early(e, t)
                           /\ on'[e] = t => on[e] = t \/ state[t] # "none"
                           /\ Later(e, t)' => Later(e, t) \/ state[t] # "none"
    <3> SUFFICES ASSUME NEW e \in Clients
                 PROVE  /\ Early(e, t)' => Early(e, t)
                        /\ on'[e] = t => on[e] = t \/ state[t] # "none"
                        /\ Later(e, t)' => Later(e, t) \/ state[t] # "none"
      OBVIOUS
    <3>1. CASE e # c
      BY <1>1, <3>1 DEF Early, Later
    <3>2. CASE e = c
      BY <1>1, <3>2 DEF Early, Later
    <3>3. QED
      BY <3>1, <3>2
  <2>3. state[t] = "none" => ~tree'[t] /\ ~pid'[t]
    BY DEF Fine, NewIsFresh
  <2>4. QED
    BY <1>2, <2>2, <2>3 DEF RowForm
<1>5. Tended(t)
  <2>1. \A e \in Clients \ {c} : Enqueues(e, t) => Enqueues(e, t)'
    BY <1>1 DEF Enqueues
  <2>2. t \in broken' => Served(t)'
    BY DEF Served
  <2>3. QED
    BY <1>2, <1>3, <2>1, <2>2 DEF Tended
<1>6. QED
  BY <1>4, <1>5, FineStep

LEMMA ClientFine ==
  ASSUME TypeInv, StrandInv, NEW c \in Clients, NEW t \in Sessions,
         NEW l, NEW w, NEW n \in {t, None}, ClientForm(c, t, l, w, n),
         pc[c] = "idle" \/ on[c] = t, broken \subseteq broken',
         \A u \in Sessions \ {t} : tree'[u] = tree[u] /\ pid'[u] = pid[u],
         Fine(t)'
  PROVE  StrandInv'
<1>1. \A s \in Sessions \ {t} : Fine(s)'
  BY ClientElsewhereFine DEF StrandInv
<1>2. QED
  BY <1>1 DEF StrandInv

LEMMA FineLaunch ==
  ASSUME TypeInv, StrandInv, NEW c \in Clients, NEW s \in Sessions, Launch(c, s)
  PROVE  StrandInv'
<1> DEFINE l == IF HasSlot THEN "make" ELSE "insert"
<1>1. /\ pc[c] = "idle" /\ state[s] = "none" /\ \A e \in Clients : on[e] # s
      /\ pc' = [pc EXCEPT ![c] = l] /\ on' = [on EXCEPT ![c] = s] /\ had' = had
      /\ UNCHANGED <<state, tree, pid, disk, queue, passVars, runVars, touched, broken>>
  BY DEF Launch, rowVars
<1>2. had = [had EXCEPT ![c] = had[c]]
  BY DEF TypeInv, TypeOK
<1>3. l \in {"make", "insert"}
  OBVIOUS
<1> HIDE DEF l
<1>4. ClientForm(c, s, l, had[c], s)
  BY <1>1, <1>2 DEF ClientForm
<1>5. /\ \A e \in Clients \ {c} : on'[e] = on[e]
      /\ pc'[c] = l /\ on'[c] = s
  BY <1>1 DEF TypeInv, TypeOK
<1>6. Fine(s)'
  <2>1. ~tree[s] /\ ~pid[s] /\ ~Queued(s) /\ \A d \in Daemons : ~Listed(d, s)
    BY <1>1 DEF StrandInv, Fine, NewIsFresh
  <2>2. NewIsFresh(s)'
    BY <1>1, <2>1 DEF NewIsFresh, Queued, Listed, passVars
  <2>3. LaunchIsFirst(s)'
    BY <1>1, <1>3, <1>5 DEF LaunchIsFirst, Early, Later
  <2>4. PendingIsKnown(s)' /\ BusyIsServed(s)'
    BY <1>1 DEF PendingIsKnown, BusyIsServed, Pending
  <2>5. QED
    BY <2>2, <2>3, <2>4 DEF Fine
<1>7. QED
  BY <1>1, <1>4, <1>6, ClientFine

LEMMA FineInsert ==
  ASSUME TypeInv, StrandInv, NEW c \in Clients, insert_session(c)
  PROVE  StrandInv'
<1> DEFINE l == IF had[c] THEN "spawn" ELSE "enqueue"
<1>1. /\ pc[c] = "insert" /\ pc' = [pc EXCEPT ![c] = l] /\ on' = on /\ had' = had
      /\ UNCHANGED <<pid, disk, queue, passVars, runVars, touched, broken>>
  BY DEF insert_session, Goto, history
<1>2. PICK t \in Sessions : t = on[c]
  BY <1>1 DEF TypeInv, Placed
<1>3. /\ state'[t] = "Pending" /\ tree'[t] = had[c]
      /\ \A u \in Sessions \ {t} : state'[u] = state[u] /\ tree'[u] = tree[u]
  BY <1>2 DEF insert_session, TypeInv, TypeOK
<1>4. on = [on EXCEPT ![c] = t] /\ had = [had EXCEPT ![c] = had[c]]
  BY <1>2 DEF TypeInv, TypeOK
<1>5. ClientForm(c, t, l, had[c], t)
  BY <1>1, <1>3, <1>4 DEF ClientForm
<1>6. /\ \A e \in Clients \ {c} : pc'[e] = pc[e]
      /\ pc'[c] = l
  BY <1>1 DEF TypeInv, TypeOK
<1>7. Fine(t)'
  <2>1. Early(c, t) /\ Fine(t)
    BY <1>1, <1>2 DEF Early, StrandInv
  <2>2. state[t] = "none" /\ \A e \in Clients : on[e] = t => e = c
    BY <2>1 DEF Fine, LaunchIsFirst
  <2>3. ~tree[t] /\ ~pid[t] /\ ~Queued(t) /\ \A d \in Daemons : ~Listed(d, t)
    BY <2>1, <2>2 DEF Fine, NewIsFresh
  <2>4. \A e \in Clients : ~Early(e, t)'
    BY <1>1, <1>6, <2>2 DEF Early
  <2>5. CASE had[c]
    <3>1. Starts(c, t)'
      BY <1>1, <1>2, <1>6, <2>5 DEF Starts
    <3>2. Served(t)'
      BY <3>1 DEF Served
    <3>3. QED
      BY <1>3, <2>4, <3>2, FineServed
  <2>6. CASE ~had[c]
    <3>1. Enqueues(c, t)'
      BY <1>1, <1>2, <1>6, <2>6 DEF Enqueues
    <3>2. \A d \in Daemons : ~Dequeues(d, t)
      <4> SUFFICES ASSUME NEW d \in Daemons, Dequeues(d, t) PROVE FALSE
        OBVIOUS
      <4>1. todo[d] # <<>>
        BY DEF Dequeues, TypeInv, Placed
      <4>2. Listed(d, t)
        BY <4>1, QueueMoves DEF Dequeues
      <4>3. QED
        BY <2>3, <4>2
    <3>3. \A d \in Daemons : ~Dequeues(d, t)'
      BY <1>1, <3>2 DEF Dequeues, Current, passVars
    <3>4. PendingIsKnown(t)' /\ BusyIsServed(t)'
      BY <1>1, <1>3, <2>3, <2>6, <3>1, <3>3 DEF PendingIsKnown, BusyIsServed
    <3>5. NewIsFresh(t)' /\ LaunchIsFirst(t)'
      BY <1>3, <2>4 DEF NewIsFresh, LaunchIsFirst
    <3>6. QED
      BY <3>4, <3>5 DEF Fine
  <2>7. QED
    BY <2>5, <2>6
<1> HIDE DEF l
<1>8. QED
  BY <1>1, <1>2, <1>3, <1>5, <1>7, ClientFine

LEMMA FineSetPending ==
  ASSUME TypeInv, StrandInv, NEW c \in Clients, SetPending(c), Present(on[c])
  PROVE  StrandInv'
<1>1. /\ pc[c] = "setPending" /\ pc' = [pc EXCEPT ![c] = "respawn"]
      /\ on' = on /\ had' = had
      /\ UNCHANGED <<tree, disk, queue, passVars, runVars, touched, broken>>
  BY DEF SetPending, Goto, history
<1>2. PICK t \in Sessions : t = on[c]
  BY <1>1 DEF TypeInv, Placed
<1>3. /\ state'[t] = "Pending"
      /\ \A u \in Sessions \ {t} : state'[u] = state[u] /\ pid'[u] = pid[u]
  BY <1>2 DEF SetPending, TypeInv, TypeOK
<1>4. on = [on EXCEPT ![c] = t] /\ had = [had EXCEPT ![c] = had[c]]
  BY <1>2 DEF TypeInv, TypeOK
<1>5. ClientForm(c, t, "respawn", had[c], t)
  BY <1>1, <1>3, <1>4 DEF ClientForm
<1>6. /\ \A e \in Clients \ {c} : pc'[e] = pc[e]
      /\ pc'[c] = "respawn"
  BY <1>1 DEF TypeInv, TypeOK
<1>7. Fine(t)'
  <2>1. Starts(c, t)'
    BY <1>1, <1>2, <1>6 DEF Starts
  <2>2. Served(t)'
    BY <2>1 DEF Served
  <2>3. \A e \in Clients : ~Early(e, t)
    BY <1>2 DEF StrandInv, Fine, LaunchIsFirst, Present
  <2>4. \A e \in Clients : ~Early(e, t)'
    BY <1>1, <1>6, <2>3 DEF Early
  <2>5. QED
    BY <1>3, <2>2, <2>4, FineServed
<1>8. QED
  BY <1>1, <1>2, <1>3, <1>5, <1>7, ClientFine

LEMMA FineSpawn ==
  ASSUME TypeInv, StrandInv, NEW c \in Clients, NEW r \in Runners, Spawn(c, r)
  PROVE  StrandInv'
<1>1. /\ pc[c] \in {"spawn", "respawn"} /\ run[r] = "unborn"
      /\ pc' = [pc EXCEPT ![c] = "idle"] /\ on' = [on EXCEPT ![c] = None]
      /\ of' = [of EXCEPT ![r] = on[c]] /\ run' = [run EXCEPT ![r] = "started"]
      /\ UNCHANGED <<state, tree, pid, queue, passVars, broken>>
  BY DEF Spawn, StartRunner, Leave, rowVars, history
<1>2. PICK t \in Sessions : t = on[c]
  BY <1>1 DEF TypeInv, Placed
<1>3. /\ \A e \in Clients \ {c} : on'[e] = on[e] /\ pc'[e] = pc[e]
      /\ pc'[c] = "idle" /\ on'[c] = None
  BY <1>1 DEF TypeInv, TypeOK
<1>4. /\ \A q \in Runners \ {r} : of'[q] = of[q] /\ run'[q] = run[q]
      /\ of'[r] = t /\ run'[r] = "started"
  BY <1>1, <1>2 DEF TypeInv, TypeOK
<1>5. ASSUME NEW s \in Sessions PROVE Fine(s)'
  <2>1. Fine(s) /\ s # None
    BY QueueAssumption DEF StrandInv, QueueAssumption
  <2>2. /\ \A d \in Daemons : /\ Listed(d, s)' <=> Listed(d, s)
                              /\ Dequeues(d, s)' <=> Dequeues(d, s)
                              /\ Held(d, s)' <=> Held(d, s)
        /\ Queued(s)' <=> Queued(s)
    BY <1>1 DEF passVars, Listed, Dequeues, Held, Current, Queued
  <2>3. Served(s) => Served(s)'
    <3>1. \A q \in Runners : Goes(q, s) => q # r /\ Goes(q, s)'
      BY <1>1, <1>4 DEF Goes
    <3>2. \A e \in Clients \ {c} : Starts(e, s) => Starts(e, s)'
      BY <1>3 DEF Starts
    <3>3. Starts(c, s) => Goes(r, s)'
      BY <1>2, <1>4 DEF Starts, Goes
    <3>4. QED
      BY <1>1, <2>2, <3>1, <3>2, <3>3 DEF Served
  <2>4. RowForm(s)
    <3>1. \A e \in Clients : /\ Early(e, s)' => Early(e, s)
                             /\ on'[e] = s => on[e] = s
                             /\ Later(e, s)' => Later(e, s)
      BY <1>3, <2>1 DEF Early, Later
    <3>2. state[s] = "none" => ~tree[s] /\ ~pid[s]
      BY <2>1 DEF Fine, NewIsFresh
    <3>3. QED
      BY <1>1, <2>2, <3>1, <3>2 DEF RowForm, Pending
  <2>5. Tended(s)
    <3>1. \A e \in Clients : Enqueues(e, s) => Enqueues(e, s)'
      BY <1>1, <1>3 DEF Enqueues
    <3>2. QED
      BY <1>1, <2>2, <2>3, <3>1 DEF Tended
  <2>6. QED
    BY <2>1, <2>4, <2>5, FineStep
<1>6. QED
  BY <1>5 DEF StrandInv

\* What a client does for the session it is on, besides inserting it, making
\* it pending again and starting its runner.
LEMMA FineOwn ==
  ASSUME TypeInv, StrandInv, NEW c \in Clients, pc[c] # "idle",
         NEW t \in Sessions, t = on[c],
         \/ MakeTree(c) \/ MakeTreeFails(c) \/ ResumeFails(c) \/ ClientCrash(c)
         \/ enqueue_pending_worktree(c) \/ LaunchFails(c) \/ StopRow(c)
         \/ RemoveTree(c) \/ clear_worktree(c) \/ delete_session(c)
         \/ SetPending(c) /\ ~Present(t)
  PROVE  StrandInv'
<1> USE DEF rowVars, history
<1>0. on = [on EXCEPT ![c] = t] /\ had = [had EXCEPT ![c] = had[c]] /\ t # None
  BY QueueAssumption DEF TypeInv, TypeOK, QueueAssumption
\* A step for the client's own session, at whose end it is not pending or
\* not disturbed.
<1>1. ASSUME NEW l, NEW w, NEW n \in {t, None}, ClientForm(c, t, l, w, n),
             broken \subseteq broken',
             \A u \in Sessions \ {t} : tree'[u] = tree[u] /\ pid'[u] = pid[u],
             Pending(t)' => Pending(t), state'[t] = "none" <=> state[t] = "none",
             tree'[t] => tree[t], pid'[t] => pid[t],
             Queued(t)' => Queued(t) \/ state[t] # "none",
             Pending(t)' /\ Queued(t) => Queued(t)',
             Pending(t)' => t \in broken' \/ (~Starts(c, t) /\ (Enqueues(c, t) => Queued(t)')),
             n = t => \/ l = "insert" /\ Early(c, t)
                      \/ l \notin {"make", "insert"} /\ state[t] # "none"
      PROVE  StrandInv'
  <2>1. Fine(t)
    BY DEF StrandInv
  <2>2. Fine(t)'
    BY <1>1, <2>1, ClientHereFine
  <2>3. QED
    BY <1>1, <2>2, ClientFine
<1>2. /\ queue' = queue => (Queued(t)' <=> Queued(t))
      /\ state' = state => (Pending(t)' <=> Pending(t))
      /\ pc[c] \notin {"idle", "make", "insert"} => state[t] # "none"
  <2>1. pc[c] \notin {"idle", "make", "insert"} => Later(c, t) /\ Fine(t)
    BY DEF Later, StrandInv
  <2>2. QED
    BY <2>1 DEF Queued, Pending, Fine, LaunchIsFirst
<1>3. CASE MakeTree(c)
  <2>1. /\ pc[c] = "make" /\ on' = on
        /\ \A u \in Sessions \ {t} : disk'[u] = disk[u]
    BY <1>2, <1>3 DEF MakeTree, TypeInv, TypeOK
  <2>2. ClientForm(c, t, "insert", TRUE, t)
    BY <1>0, <1>3, <2>1 DEF MakeTree, ClientForm
  <2>3. Early(c, t) /\ ~Starts(c, t) /\ ~Enqueues(c, t)
    BY <2>1 DEF Early, Starts, Enqueues
  <2>4. QED
    BY <1>1, <1>2, <1>3, <2>1, <2>2, <2>3 DEF MakeTree
<1>4. ASSUME Leave(c), UNCHANGED <<rowVars, queue, disk, passVars, runVars>>,
             Break({t}), pc[c] # "idle"
      PROVE  StrandInv'
  <2>1. ClientForm(c, t, "idle", FALSE, None)
    BY <1>4 DEF Leave, ClientForm
  <2>2. t \in broken' /\ broken \subseteq broken' /\ None # t
    BY <1>2, <1>4, QueueAssumption DEF Break, QueueAssumption
  <2>3. QED
    BY <1>1, <1>2, <1>4, <2>1, <2>2
<1>5. CASE MakeTreeFails(c) \/ ResumeFails(c) \/ ClientCrash(c)
  BY <1>4, <1>5 DEF MakeTreeFails, ResumeFails, ClientCrash
<1>6. CASE enqueue_pending_worktree(c)
  <2>1. /\ pc[c] = "enqueue" /\ Leave(c) 
        /\ state[t] # "none"
        /\ UNCHANGED <<rowVars, disk, passVars, runVars, broken>>
    BY <1>2, <1>6, QueueAssumption DEF enqueue_pending_worktree, QueueAssumption
  <2>2. ClientForm(c, t, "idle", FALSE, None)
    BY <1>6, <2>1 DEF enqueue_pending_worktree, Leave, ClientForm
  <2>3. Pending(t) => Queued(t)'
    BY <1>6, <2>1, QueueMoves DEF Pending, Present, enqueue_pending_worktree, Queued
  <2>4. ~Starts(c, t) /\ (Pending(t)' <=> Pending(t))
    BY <2>1 DEF Starts, Pending
  <2>5. QED
    BY <1>1, <2>1, <2>2, <2>3, <2>4
<1>7. CASE LaunchFails(c)
  <2>1. /\ pc[c] = "spawn"  /\ state[t] # "none"
        /\ UNCHANGED <<tree, pid, queue, disk, passVars, runVars, broken>>
    BY <1>2, <1>7, QueueAssumption DEF LaunchFails, QueueAssumption
  <2>2. /\ ~Pending(t)' /\ state'[t] # "none"
        /\ \A u \in Sessions \ {t} : state'[u] = state[u]
    BY <1>7, <2>1 DEF LaunchFails, Fail, Pending, TypeInv, TypeOK
  <2>3. CASE Leave(c)
    <3>1. ClientForm(c, t, "idle", FALSE, None)
      BY <2>1, <2>2, <2>3 DEF Leave, ClientForm
    <3>2. QED
      BY <1>1, <1>2, <2>1, <2>2, <3>1
  <2>4. CASE Goto(c, "unmake")
    <3>1. ClientForm(c, t, "unmake", had[c], t)
      BY <1>0, <2>1, <2>2, <2>4 DEF Goto, ClientForm
    <3>2. QED
      BY <1>1, <1>2, <2>1, <2>2, <3>1
  <2>5. QED
    BY <1>7, <2>3, <2>4 DEF LaunchFails
<1>8. CASE StopRow(c)
  <2>1. /\ pc[c] = "stop"  /\ state[t] # "none"
        /\ UNCHANGED <<tree, queue, disk, passVars, runVars, broken>>
    BY <1>2, <1>8, QueueAssumption DEF StopRow, QueueAssumption
  <2>2. /\ ~Pending(t)' /\ state'[t] # "none" /\ (pid'[t] => pid[t])
        /\ \A u \in Sessions \ {t} : state'[u] = state[u] /\ pid'[u] = pid[u]
    <3>1. CASE Present(t)
      BY <1>8, <2>1, <3>1 DEF StopRow, Pending, TypeInv, TypeOK
    <3>2. CASE ~Present(t)
      BY <1>8, <2>1, <3>2 DEF StopRow, Pending, Present
    <3>3. QED
      BY <3>1, <3>2
  <2>3. CASE Leave(c)
    <3>1. ClientForm(c, t, "idle", FALSE, None)
      BY <2>1, <2>2, <2>3 DEF Leave, ClientForm
    <3>2. QED
      BY <1>1, <1>2, <2>1, <2>2, <3>1
  <2>4. CASE Goto(c, "rmClear")
    <3>1. ClientForm(c, t, "rmClear", had[c], t)
      BY <1>0, <2>1, <2>2, <2>4 DEF Goto, ClientForm
    <3>2. QED
      BY <1>1, <1>2, <2>1, <2>2, <3>1
  <2>5. QED
    BY <1>8, <2>3, <2>4 DEF StopRow
<1>9. CASE RemoveTree(c)
  <2>1. /\ pc[c] \in {"rmClear", "rmDelete", "unmake"} /\ t \in Sessions
        /\ t # None /\ state[t] # "none"
        /\ UNCHANGED <<rowVars, queue, passVars, runVars, broken>>
        /\ \A u \in Sessions \ {t} : disk'[u] = disk[u]
    <3>1. pc[c] \in {"rmClear", "rmDelete", "unmake"}
      BY <1>9 DEF RemoveTree
    <3>2. QED
      BY <1>2, <1>9, <3>1, QueueAssumption DEF RemoveTree, QueueAssumption, TypeInv, TypeOK
  <2>2. ~Starts(c, t) /\ ~Enqueues(c, t)
    BY <2>1 DEF Starts, Enqueues
  <2>3. CASE Leave(c)
    <3>1. ClientForm(c, t, "idle", FALSE, None)
      BY <2>1, <2>3 DEF Leave, ClientForm
    <3>2. QED
      BY <1>1, <1>2, <2>1, <2>2, <3>1
  <2>4. ASSUME NEW l \in {"clear", "delete"}, Goto(c, l) PROVE StrandInv'
    <3>1. ClientForm(c, t, l, had[c], t)
      BY <1>0, <2>1, <2>4 DEF Goto, ClientForm
    <3>2. QED
      BY <1>1, <1>2, <2>1, <2>2, <3>1
  <2>5. QED
    BY <1>9, <2>3, <2>4 DEF RemoveTree
<1>10. CASE clear_worktree(c)
  <2>1. /\ pc[c] = "clear"  /\ Leave(c)
        /\ UNCHANGED <<state, pid, queue, disk, passVars, runVars, broken>>
        /\ \A u \in Sessions \ {t} : tree'[u] = tree[u]
        /\ ~tree'[t]
    BY <1>2, <1>10, QueueAssumption DEF clear_worktree, QueueAssumption, TypeInv, TypeOK
  <2>2. ~Starts(c, t) /\ ~Enqueues(c, t)
    BY <2>1 DEF Starts, Enqueues
  <2>3. ClientForm(c, t, "idle", FALSE, None)
    BY <2>1 DEF Leave, ClientForm
  <2>4. QED
    BY <1>1, <1>2, <2>1, <2>2, <2>3
<1>11. CASE delete_session(c)
  <2>1. /\ pc[c] = "delete"  /\ Leave(c)
        /\ state[t] # "none"
        /\ UNCHANGED <<disk, passVars, runVars, broken>>
        /\ \A u \in Sessions \ {t} :
             tree'[u] = tree[u] /\ pid'[u] = pid[u] /\ state'[u] = state[u]
        /\ ~tree'[t] /\ ~pid'[t] /\ state'[t] = "deleted"
        /\ queue' = Without(queue, t)
    BY <1>2, <1>11, QueueAssumption DEF delete_session, QueueAssumption, TypeInv, TypeOK
  <2>2. ~Pending(t)'
    BY <2>1 DEF Pending
  <2>3. ClientForm(c, t, "idle", FALSE, None)
    BY <2>1 DEF Leave, ClientForm
  <2>4. QED
    BY <1>1, <1>2, <2>1, <2>2, <2>3
<1>12. CASE SetPending(c) /\ ~Present(t)
  <2>1. /\ pc[c] = "setPending"  /\ Leave(c)
        /\ UNCHANGED <<rowVars, queue, disk, passVars, runVars, broken>>
    BY <1>2, <1>12, QueueAssumption DEF SetPending, QueueAssumption
  <2>2. ~Starts(c, t) /\ ~Enqueues(c, t)
    BY <2>1 DEF Starts, Enqueues
  <2>3. ClientForm(c, t, "idle", FALSE, None)
    BY <2>1 DEF Leave, ClientForm
  <2>4. QED
    BY <1>1, <1>2, <2>1, <2>2, <2>3
<1>13. QED
  BY <1>3, <1>5, <1>6, <1>7, <1>8, <1>9, <1>10, <1>11, <1>12

LEMMA FineClient ==
  ASSUME TypeInv, StrandInv, NEW c \in Clients, ClientStep(c)
  PROVE  StrandInv'
<1>1. ASSUME \/ MakeTree(c) \/ MakeTreeFails(c) \/ ResumeFails(c) \/ ClientCrash(c)
             \/ enqueue_pending_worktree(c) \/ LaunchFails(c) \/ StopRow(c)
             \/ RemoveTree(c) \/ clear_worktree(c) \/ delete_session(c)
             \/ SetPending(c) /\ ~Present(on[c])
      PROVE  StrandInv'
  <2>1. pc[c] # "idle"
    BY <1>1 DEF MakeTree, MakeTreeFails, ResumeFails, ClientCrash,
      enqueue_pending_worktree, LaunchFails, StopRow, RemoveTree, clear_worktree,
      delete_session, SetPending
  <2>2. PICK t \in Sessions : t = on[c]
    BY <2>1 DEF TypeInv, Placed
  <2>3. QED
    BY <1>1, <2>1, <2>2, FineOwn
<1>13. ASSUME NEW s \in Sessions, NEW l \in Places \ (Launches \cup {"idle"}),
              NEW w \in BOOLEAN, Begin(c, s, l, w)
       PROVE  StrandInv'
  <2>1. /\ ClientForm(c, s, l, w, s) /\ pc[c] = "idle" /\ state[s] # "none"
        /\ UNCHANGED <<state, tree, pid, queue, broken>>
    BY <1>13 DEF ClientForm, Begin, Present, rowVars, history
  <2>2. ~Starts(c, s) /\ ~Enqueues(c, s) /\ Fine(s) /\ l \notin {"make", "insert"}
    BY <2>1 DEF Starts, Enqueues, StrandInv, Launches
  <2>3. (Queued(s)' <=> Queued(s)) /\ (Pending(s)' <=> Pending(s))
    BY <2>1 DEF Queued, Pending
  <2>4. Fine(s)'
    BY <2>1, <2>2, <2>3, ClientHereFine
  <2>5. QED
    BY <2>1, <2>4, ClientFine
<1>14. ASSUME NEW s \in Sessions, Cleanup(c, s) \/ Delete(c, s) \/ Resume(c, s)
       PROVE  StrandInv'
  BY <1>13, <1>14 DEF Cleanup, Delete, Resume, Places, Launches
<1>15. ASSUME NEW s \in Sessions, NEW b \in BOOLEAN, Stop(c, s, b) PROVE StrandInv'
  <2>1. (b /\ tree[s]) \in BOOLEAN
    OBVIOUS
  <2>2. QED
    BY <1>13, <1>15, <2>1 DEF Stop, Places, Launches
<1>16. QED
  BY <1>1, <1>14, <1>15, FineLaunch, FineInsert, FineSetPending, FineSpawn DEF ClientStep

\* A step of a daemon: what it had in hand it keeps, has started or has cut
\* off, and what it dequeues was served or is in hand.
DaemonTends(d, s) ==
  /\ Pending(s)' => Pending(s)
  /\ state'[s] = "none" <=> state[s] = "none"
  /\ Queued(s)' => Queued(s)
  /\ Listed(d, s)' => Listed(d, s) \/ Queued(s)
  /\ pid'[s] = pid[s]
  /\ tree'[s] => tree[s] \/ (Held(d, s)' /\ state[s] # "none")
  /\ \A r \in Runners : Goes(r, s) => Goes(r, s)' \/ s \in broken'
  /\ Pending(s)' =>
       /\ Held(d, s) => Held(d, s)' \/ s \in broken' \/ \E r \in Runners : Goes(r, s)'
       /\ Queued(s) => Queued(s)' \/ Held(d, s)' \/ Dequeues(d, s)
       /\ Dequeues(d, s)' => \/ Dequeues(d, s) \/ tree[s] \/ pid[s]
                             \/ \E r \in Runners : Goes(r, s)'

LEMMA DaemonFine ==
  ASSUME TypeInv, NEW d \in Daemons, NEW s \in Sessions, Fine(s),
         UNCHANGED opVars, broken \subseteq broken',
         \A e \in Daemons \ {d} : pass'[e] = pass[e] /\ todo'[e] = todo[e],
         DaemonTends(d, s)
  PROVE  Fine(s)'
<1>1. \A e \in Daemons \ {d} : /\ Listed(e, s)' <=> Listed(e, s)
                               /\ Dequeues(e, s)' <=> Dequeues(e, s)
                               /\ Held(e, s)' <=> Held(e, s)
  BY DEF Listed, Dequeues, Held, Current
<1>2. \A c \in Clients : /\ Early(c, s)' <=> Early(c, s)
                         /\ Later(c, s)' <=> Later(c, s)
                         /\ Enqueues(c, s)' <=> Enqueues(c, s)
                         /\ Starts(c, s)' <=> Starts(c, s)
                         /\ on'[c] = on[c]
  BY DEF opVars, Early, Later, Enqueues, Starts
<1>3. Pending(s)' /\ Served(s) => Served(s)'
  BY <1>1, <1>2 DEF Served, DaemonTends
<1>4. RowForm(s)
  <2>1. \A e \in Daemons : Listed(e, s)' => Listed(e, s) \/ Queued(s)
    BY <1>1 DEF DaemonTends
  <2>2. state[s] = "none" => ~tree'[s] /\ ~pid'[s]
    BY DEF Fine, NewIsFresh, DaemonTends
  <2>3. QED
    BY <1>2, <2>1, <2>2 DEF RowForm, DaemonTends
<1>5. ASSUME Pending(s)' PROVE Tended(s)
  <2>1. Dequeues(d, s) => Served(s)'
    BY <1>3, <1>5 DEF Fine, BusyIsServed, DaemonTends
  <2>2. Held(d, s)' \/ (\E r \in Runners : Goes(r, s)') => Served(s)'
    BY DEF Served
  <2>3. \A e \in Daemons :
          Dequeues(e, s)' => Dequeues(e, s) \/ tree[s] \/ pid[s] \/ Served(s)'
    BY <1>1, <1>5, <2>2 DEF DaemonTends
  <2>4. QED
    BY <1>2, <1>3, <1>5, <2>1, <2>2, <2>3 DEF Tended, DaemonTends
<1>6. Tended(s)
  BY <1>5 DEF Tended
<1>7. QED
  BY <1>4, <1>6, FineStep

LEMMA FineDaemon ==
  ASSUME TypeInv, StrandInv, NEW d \in Daemons, DaemonStep(d) PROVE StrandInv'
<1> USE DEF rowVars, history
<1>0. /\ pass \in [Daemons -> Stages] /\ todo \in [Daemons -> Seq(Sessions)]
      /\ state \in [Sessions -> {"none", "deleted", "Pending", "Running"} \cup Ended]
      /\ tree \in [Sessions -> BOOLEAN]
      /\ of \in [Runners -> Sessions \cup {None}]
      /\ run \in [Runners -> Working \cup {"unborn", "done", "crashed"}]
  BY DEF TypeInv, TypeOK, Stages
<1>1. ASSUME UNCHANGED <<opVars, broken>>,
             \A e \in Daemons \ {d} : pass'[e] = pass[e] /\ todo'[e] = todo[e],
             \A s \in Sessions : Fine(s) => DaemonTends(d, s)
      PROVE  StrandInv'
  BY <1>1, DaemonFine DEF StrandInv
\* The parts that are the same in most steps.
<1>2. ASSUME UNCHANGED runVars
      PROVE  \A s \in Sessions, r \in Runners : Goes(r, s)' <=> Goes(r, s)
  BY <1>2 DEF runVars, Goes
<1>3. ASSUME queue' = queue PROVE \A s : Queued(s)' <=> Queued(s)
  BY <1>3 DEF Queued
<1>4. ASSUME NEW t, queue' = Without(queue, t)
      PROVE  \A s : (Queued(s)' => Queued(s)) /\ (s # t /\ Queued(s) => Queued(s)')
  BY <1>4, QueueMoves DEF Queued
<1>5. ASSUME NEW l, pass' = [pass EXCEPT ![d] = l]
      PROVE  pass'[d] = l /\ \A e \in Daemons \ {d} : pass'[e] = pass[e]
  BY <1>0, <1>5
<1>6. ASSUME todo' = todo
      PROVE  /\ Current(d)' = Current(d)
             /\ \A s : Listed(d, s)' <=> Listed(d, s)
  BY <1>6 DEF Listed, Current
<1>7. ASSUME NEW q, todo' = [todo EXCEPT ![d] = q]
      PROVE  todo'[d] = q /\ \A e \in Daemons \ {d} : todo'[e] = todo[e]
  BY <1>0, <1>7
\* A step from a place where nothing is in hand to another one.
<1>8. ASSUME UNCHANGED <<state, tree, pid, opVars, runVars, broken>>,
             pass[d] \notin {"create", "attach", "spawn", "fail"},
             NEW l \in {"idle", "queue", "look"}, pass' = [pass EXCEPT ![d] = l],
             \A e \in Daemons \ {d} : todo'[e] = todo[e],
             \A s \in Sessions : /\ Listed(d, s)' => Listed(d, s) \/ Queued(s)
                                 /\ Queued(s)' => Queued(s)
                                 /\ Queued(s) => Queued(s)' \/ Dequeues(d, s)
      PROVE  StrandInv'
  <2>1. \A s \in Sessions : ~Held(d, s) /\ ~Dequeues(d, s)'
    BY <1>5, <1>8 DEF Held, Dequeues
  <2>2. \A s \in Sessions : DaemonTends(d, s)
    BY <1>2, <1>8, <2>1 DEF DaemonTends, Pending
  <2>3. QED
    BY <1>1, <1>5, <1>8, <2>2
<1>9. CASE CountSlots(d)
  BY <1>3, <1>6, <1>8, <1>9 DEF CountSlots
<1>10. CASE pending_worktree_queue(d)
  <2> DEFINE n == IF Len(queue) < free[d] THEN Len(queue) ELSE free[d]
  <2>1. n \in 0..Len(queue) /\ queue \in Seq(Sessions)
    BY LenProperties, QueueAssumption DEF QueueAssumption, TypeInv, TypeOK
  <2>2. \A s : In(SubSeq(queue, 1, n), s) => Queued(s)
    BY <2>1, FirstOnes DEF Queued
  <2>3. todo' = [todo EXCEPT ![d] = SubSeq(queue, 1, n)]
    BY <1>10 DEF pending_worktree_queue
  <2>4. \A s \in Sessions : Listed(d, s)' => Queued(s)
    BY <1>0, <2>2, <2>3 DEF Listed
  <2>5. QED
    BY <1>3, <1>7, <1>8, <1>10, <2>3, <2>4 DEF pending_worktree_queue
<1>11. CASE EndPass(d)
  <2>1. \A s : ~Listed(d, s)'
    BY <1>7, <1>11, EmptyHasNone DEF EndPass, Over, Listed
  <2>2. QED
    BY <1>3, <1>7, <1>8, <1>11, <2>1 DEF EndPass, Over
<1>12. CASE SkipEntry(d)
  <2>1. todo[d] # <<>>
    BY <1>12 DEF SkipEntry, TypeInv, Placed
  <2>2. \A s : Listed(d, s)' => Listed(d, s)
    BY <1>0, <1>12, <2>1, QueueMoves DEF SkipEntry, NextEntry, Listed
  <2>3. \A s \in Sessions : s = Current(d) => Dequeues(d, s)
    BY <1>12 DEF SkipEntry, Dequeues
  <2>4. \A s \in Sessions : (Queued(s)' => Queued(s))
                            /\ (Queued(s) => Queued(s)' \/ Dequeues(d, s))
    BY <1>4, <1>12, <2>3 DEF SkipEntry
  <2>5. QED
    BY <1>7, <1>8, <1>12, <2>2, <2>4 DEF SkipEntry, NextEntry
<1>13. CASE EntryStarted(d)
  <2>1. todo[d] # <<>>
    BY <1>13 DEF EntryStarted, TypeInv, Placed
  <2>2. \A s \in Sessions : s = Current(d) => Dequeues(d, s)
    BY <1>13 DEF EntryStarted, Dequeues
  <2>3. \A s \in Sessions : (Queued(s)' => Queued(s))
                            /\ (Queued(s) => Queued(s)' \/ Dequeues(d, s))
    BY <1>4, <1>13, <2>2 DEF EntryStarted
  <2>4. CASE NextEntry(d)
    <3>1. \A s : Listed(d, s)' => Listed(d, s)
      BY <1>0, <2>1, <2>4, QueueMoves DEF NextEntry, Listed
    <3>2. QED
      BY <1>7, <1>8, <1>13, <2>3, <2>4, <3>1 DEF EntryStarted, NextEntry
  <2>5. CASE Over(d)
    <3>1. \A s : ~Listed(d, s)'
      BY <1>7, <2>5, EmptyHasNone DEF Over, Listed
    <3>2. QED
      BY <1>7, <1>8, <1>13, <2>3, <2>5, <3>1 DEF EntryStarted, Over
  <2>6. QED
    BY <1>13, <2>4, <2>5 DEF EntryStarted
<1>14. CASE Look(d)
  <2>1. /\ pass[d] = "look" /\ UNCHANGED <<state, tree, pid, queue, todo, opVars, runVars, broken>>
        /\ pass' = [pass EXCEPT ![d] = IF Eligible(Current(d)) THEN "create" ELSE "skip"]
    BY <1>14 DEF Look, Move
  <2>2. \A s \in Sessions : ~Held(d, s)
    BY <2>1 DEF Held
  <2>3. \A s \in Sessions : Dequeues(d, s)' /\ Pending(s)' => tree[s] \/ pid[s]
    <3>1. \A s \in Sessions : Dequeues(d, s)' => s = Current(d) /\ ~Eligible(s)
      BY <1>5, <1>6, <2>1 DEF Dequeues
    <3>2. QED
      BY <2>1, <3>1 DEF Eligible, Pending
  <2>4. \A s \in Sessions : DaemonTends(d, s)
    BY <1>2, <1>3, <1>6, <2>1, <2>2, <2>3 DEF DaemonTends, Pending
  <2>5. QED
    BY <1>1, <1>5, <2>1, <2>4
<1>15. CASE CreateTree(d)
  <2>1. /\ pass[d] = "create" /\ pass' = [pass EXCEPT ![d] = "attach"]
        /\ UNCHANGED <<state, tree, pid, queue, todo, opVars, runVars, broken>>
    BY <1>15 DEF CreateTree, Move
  <2>2. \A s \in Sessions : (Held(d, s) => Held(d, s)') /\ ~Dequeues(d, s)'
    BY <1>5, <1>6, <2>1 DEF Held, Dequeues
  <2>3. \A s \in Sessions : DaemonTends(d, s)
    BY <1>2, <1>3, <1>6, <2>1, <2>2 DEF DaemonTends, Pending
  <2>4. QED
    BY <1>1, <1>5, <2>1, <2>3
<1>16. CASE CreateTreeFails(d)
  <2>1. /\ pass[d] = "create" /\ pass' = [pass EXCEPT ![d] = "fail"]
        /\ queue' = Without(queue, Current(d))
        /\ UNCHANGED <<state, tree, pid, todo, opVars, runVars, broken>>
    BY <1>16 DEF CreateTreeFails, Move
  <2>2. \A s \in Sessions : /\ Held(d, s) => Held(d, s)'
                            /\ ~Dequeues(d, s)'
                            /\ s = Current(d) => Held(d, s)'
    BY <1>5, <1>6, <2>1 DEF Held, Dequeues
  <2>3. \A s \in Sessions : (Queued(s)' => Queued(s))
                            /\ (Queued(s) => Queued(s)' \/ Held(d, s)')
    BY <1>4, <2>1, <2>2
  <2>4. \A s \in Sessions : DaemonTends(d, s)
    BY <1>2, <1>6, <2>1, <2>2, <2>3 DEF DaemonTends, Pending
  <2>5. QED
    BY <1>1, <1>5, <2>1, <2>4
<1>17. CASE FailEntry(d)
  <2>1. /\ pass[d] = "fail" /\ Fail(Current(d)) /\ todo[d] # <<>>
        /\ UNCHANGED <<tree, pid, queue, opVars, runVars, broken>>
    BY <1>17 DEF FailEntry, TypeInv, Placed
  <2>2. PICK l \in {"idle", "look"} : pass' = [pass EXCEPT ![d] = l]
    BY <1>17 DEF FailEntry, NextEntry, Over
  <2>3. PICK q : todo' = [todo EXCEPT ![d] = q] /\ \A s : In(q, s) => Listed(d, s)
    BY <1>17, <2>1, QueueMoves, EmptyHasNone DEF FailEntry, NextEntry, Over
  <2>4. \A s \in Sessions : (Listed(d, s)' => Listed(d, s)) /\ ~Dequeues(d, s)'
    BY <1>5, <1>7, <2>2, <2>3 DEF Listed, Dequeues
  <2>5. \A s \in Sessions : /\ Pending(s)' => Pending(s) /\ s # Current(d)
                            /\ state'[s] = "none" <=> state[s] = "none"
    BY <1>0, <2>1 DEF Fail, Pending
  <2>6. \A s \in Sessions : Held(d, s) => s = Current(d)
    BY DEF Held
  <2>7. \A s \in Sessions : DaemonTends(d, s)
    BY <1>2, <1>3, <2>1, <2>4, <2>5, <2>6 DEF DaemonTends
  <2>8. QED
    BY <1>1, <1>5, <1>7, <2>1, <2>2, <2>3, <2>7
<1>18. CASE attach_worktree(d)
  <2>0. pass[d] = "attach" /\ UNCHANGED <<state, pid, queue, opVars, runVars, broken>>
    BY <1>18 DEF attach_worktree
  <2>1. CASE Present(Current(d))
    <3>1. /\ pass' = [pass EXCEPT ![d] = "spawn"] /\ todo' = todo
          /\ tree' = [tree EXCEPT ![Current(d)] = TRUE]
      BY <1>18, <2>1 DEF attach_worktree, Move
    <3>2. \A s \in Sessions : /\ Held(d, s) => Held(d, s)'
                              /\ ~Dequeues(d, s)'
                              /\ s = Current(d) => Held(d, s)' /\ state[s] # "none"
      BY <1>5, <1>6, <2>1, <3>1 DEF Held, Dequeues, Present
    <3>3. \A s \in Sessions : tree'[s] => tree[s] \/ s = Current(d)
      BY <1>0, <3>1
    <3>4. \A s \in Sessions : DaemonTends(d, s)
      BY <1>2, <1>3, <1>6, <2>0, <3>1, <3>2, <3>3 DEF DaemonTends, Pending
    <3>5. QED
      BY <1>1, <1>5, <2>0, <3>1, <3>4
  <2>2. CASE ~Present(Current(d))
    <3>1. /\ pass' = [pass EXCEPT ![d] = "idle"] /\ todo' = [todo EXCEPT ![d] = <<>>]
          /\ tree' = tree
      BY <1>18, <2>2 DEF attach_worktree, Over
    <3>2. \A s \in Sessions : ~Listed(d, s)' /\ ~Dequeues(d, s)'
      <4>1. pass'[d] = "idle" /\ todo'[d] = <<>>
        BY <1>5, <1>7, <3>1
      <4>2. QED
        BY <4>1, EmptyHasNone DEF Listed, Dequeues
    <3>3. \A s \in Sessions : Held(d, s) => ~Pending(s)
      BY <2>2 DEF Held, Present, Pending
    <3>4. \A s \in Sessions : DaemonTends(d, s)
      BY <1>2, <1>3, <2>0, <3>1, <3>2, <3>3 DEF DaemonTends, Pending
    <3>5. QED
      BY <1>1, <1>5, <1>7, <2>0, <3>1, <3>4
  <2>3. QED
    BY <2>1, <2>2
<1>19. ASSUME NEW r \in Runners, SpawnTask(d, r) PROVE StrandInv'
  <2>1. /\ pass[d] = "spawn" /\ pass' = [pass EXCEPT ![d] = "started"]
        /\ run[r] = "unborn"
        /\ of' = [of EXCEPT ![r] = Current(d)] /\ run' = [run EXCEPT ![r] = "started"]
        /\ UNCHANGED <<state, tree, pid, queue, todo, opVars, broken>>
    BY <1>19 DEF SpawnTask, StartRunner, Move
  <2>2. /\ \A s \in Sessions, q \in Runners : Goes(q, s) => Goes(q, s)'
        /\ \A s \in Sessions : s = Current(d) => Goes(r, s)'
    BY <1>0, <2>1 DEF Goes
  <2>3. \A s \in Sessions : /\ Held(d, s) => s = Current(d)
                            /\ Dequeues(d, s)' => s = Current(d)
    BY <1>6, <2>1 DEF Held, Dequeues
  <2>4. \A s \in Sessions : DaemonTends(d, s)
    BY <1>3, <1>6, <2>1, <2>2, <2>3 DEF DaemonTends, Pending
  <2>5. QED
    BY <1>1, <1>5, <2>1, <2>4
<1>20. QED
  BY <1>9, <1>10, <1>11, <1>12, <1>13, <1>14, <1>15, <1>16, <1>17, <1>18, <1>19
     DEF DaemonStep

LEMMA FineCrash ==
  ASSUME TypeInv, StrandInv, NEW d \in Daemons, DaemonCrash(d) PROVE StrandInv'
<1>1. /\ pass' = [pass EXCEPT ![d] = "idle"] /\ todo' = [todo EXCEPT ![d] = <<>>]
      /\ of' = of /\ UNCHANGED <<state, tree, pid, queue, opVars>>
      /\ run' = [r \in Runners |-> IF r \in TasksOf(d) THEN "crashed" ELSE run[r]]
      /\ broken' = broken \cup (InHand(d) \cup {of[r] : r \in TasksOf(d)})
  BY DEF DaemonCrash, Over, rowVars, Break
<1>2. pass'[d] = "idle" /\ todo'[d] = <<>>
      /\ \A e \in Daemons \ {d} : pass'[e] = pass[e] /\ todo'[e] = todo[e]
  BY <1>1 DEF TypeInv, TypeOK
<1>3. \A s \in Sessions : ~Listed(d, s)' /\ ~Dequeues(d, s)'
  BY <1>2, EmptyHasNone DEF Listed, Dequeues
<1>4. \A s \in Sessions, r \in Runners : Goes(r, s) => Goes(r, s)' \/ s \in broken'
  BY <1>1 DEF Goes
<1>5. \A s \in Sessions : Held(d, s) => s \in broken'
  <2>1. \A s \in Sessions : Held(d, s) => s \in InHand(d)
    BY DEF Held, InHand, TypeInv, Placed
  <2>2. QED
    BY <1>1, <2>1
<1>6. \A s \in Sessions : DaemonTends(d, s)
  BY <1>1, <1>3, <1>4, <1>5 DEF DaemonTends, Pending, Queued
<1>7. broken \subseteq broken'
  BY <1>1
<1>8. QED
  BY <1>1, <1>2, <1>6, <1>7, DaemonFine DEF StrandInv

\* A runner, or the recovery of a session: one row changes.
LEMMA RowFine ==
  ASSUME TypeInv, StrandInv, UNCHANGED <<tree, queue, passVars, opVars>>,
         broken \subseteq broken', NEW t \in Sessions,
         \A s \in Sessions \ {t} : state'[s] = state[s] /\ pid'[s] = pid[s],
         \A s \in Sessions \ {t}, r \in Runners : Goes(r, s) => Goes(r, s)',
         Pending(t)' => Pending(t), state'[t] = "none" <=> state[t] = "none",
         pid'[t] => pid[t] \/ (state[t] # "none" /\ \E r \in Runners : Goes(r, t)'),
         Pending(t)' /\ (\E r \in Runners : Goes(r, t)) =>
           t \in broken' \/ \E r \in Runners : Goes(r, t)'
  PROVE  StrandInv'
<1> SUFFICES ASSUME NEW s \in Sessions PROVE Fine(s)'
  BY DEF StrandInv
<1>1. Fine(s)
  BY DEF StrandInv
<1>2. /\ Queued(s)' <=> Queued(s)
      /\ \A d \in Daemons : /\ Listed(d, s)' <=> Listed(d, s)
                            /\ Dequeues(d, s)' <=> Dequeues(d, s)
                            /\ Held(d, s)' <=> Held(d, s)
      /\ \A c \in Clients : /\ Early(c, s)' <=> Early(c, s)
                            /\ Later(c, s)' <=> Later(c, s)
                            /\ Enqueues(c, s)' <=> Enqueues(c, s)
                            /\ Starts(c, s)' <=> Starts(c, s)
                            /\ on'[c] = on[c]
      /\ tree'[s] = tree[s]
  BY DEF passVars, opVars, Queued, Listed, Dequeues, Held, Current, Early, Later,
         Enqueues, Starts
<1>3. /\ Pending(s)' => Pending(s)
      /\ state'[s] = "none" <=> state[s] = "none"
      /\ pid'[s] => pid[s] \/ (state[s] # "none" /\ \E r \in Runners : Goes(r, s)')
      /\ Pending(s)' /\ (\E r \in Runners : Goes(r, s)) =>
           s \in broken' \/ \E r \in Runners : Goes(r, s)'
  <2>1. CASE s = t
    BY <2>1
  <2>2. CASE s # t
    BY <2>2 DEF Pending
  <2>3. QED
    BY <2>1, <2>2
<1>4. Pending(s)' /\ Served(s) => Served(s)'
  BY <1>2, <1>3 DEF Served
<1>5. RowForm(s)
  <2>1. state[s] = "none" => ~tree[s] /\ ~pid[s]
    BY <1>1 DEF Fine, NewIsFresh
  <2>2. QED
    BY <1>2, <1>3, <2>1 DEF RowForm
<1>6. Tended(s)
  <2>1. pid'[s] => pid[s] \/ Served(s)'
    BY <1>3 DEF Served
  <2>2. QED
    BY <1>2, <1>4, <2>1 DEF Tended
<1>7. QED
  BY <1>1, <1>5, <1>6, FineStep

LEMMA FineRunner ==
  ASSUME TypeInv, StrandInv, NEW r \in Runners, RunnerStep(r) PROVE StrandInv'
<1> USE DEF rowVars, history
<1>1. /\ run[r] \in Working
      /\ \E l \in Working \cup {"done"} : To(r, l)
  BY DEF RunnerStep, Skip, Accept, GiveUp, RecordPid, RunFails, RecordRunning, Finish,
         Working
<1>2. PICK t \in Sessions : t = of[r]
  BY <1>1 DEF TypeInv, Placed, Working
<1>3. \A q \in Runners \ {r} : of'[q] = of[q] /\ run'[q] = run[q]
  BY <1>1 DEF To, TypeInv, TypeOK
<1>4. \A s \in Sessions \ {t}, q \in Runners : Goes(q, s) => Goes(q, s)'
  BY <1>2, <1>3 DEF Goes
<1>5. \A q \in Runners \ {r} : Goes(q, t) => Goes(q, t)'
  BY <1>3 DEF Goes
<1>6. /\ state \in [Sessions -> {"none", "deleted", "Pending", "Running"} \cup Ended]
      /\ pid \in [Sessions -> BOOLEAN]
      /\ of \in [Runners -> Sessions \cup {None}]
      /\ run \in [Runners -> Working \cup {"unborn", "done", "crashed"}]
  BY DEF TypeInv, TypeOK
\* The runner stops being one that goes on only when the row is not pending
\* afterwards, or it was cut off.
<1>7. ASSUME UNCHANGED <<tree, queue, passVars, opVars>>, broken \subseteq broken',
             \A s \in Sessions \ {t} : state'[s] = state[s] /\ pid'[s] = pid[s],
             Pending(t)' => Pending(t), state'[t] = "none" <=> state[t] = "none",
             pid'[t] => pid[t] \/ (state[t] # "none" /\ Goes(r, t)'),
             Pending(t)' => t \in broken' \/ Goes(r, t)' \/ ~Goes(r, t)
      PROVE  StrandInv'
  <2>1. Pending(t)' /\ (\E q \in Runners : Goes(q, t)) =>
           t \in broken' \/ \E q \in Runners : Goes(q, t)'
    BY <1>5, <1>7
  <2>2. pid'[t] => pid[t] \/ (state[t] # "none" /\ \E q \in Runners : Goes(q, t)')
    BY <1>7
  <2>3. QED
    BY <1>4, <1>7, <2>1, <2>2, RowFine
<1>8. CASE Skip(r)
  <2>1. ~Pending(t)' /\ UNCHANGED <<state, tree, pid, queue, passVars, opVars, broken>>
    BY <1>2, <1>8 DEF Skip, Pending
  <2>2. QED
    BY <1>7, <2>1
<1>9. CASE Accept(r)
  <2>1. Goes(r, t)'
    BY <1>2, <1>6, <1>9 DEF Accept, To, Goes
  <2>2. UNCHANGED <<state, tree, pid, queue, passVars, opVars, broken>>
    BY <1>9 DEF Accept
  <2>3. Pending(t)' <=> Pending(t)
    BY <2>2 DEF Pending
  <2>4. QED
    BY <1>7, <2>1, <2>2, <2>3
<1>10. CASE GiveUp(r)
  <2>1. /\ t \in broken' /\ broken \subseteq broken'
        /\ UNCHANGED <<state, tree, pid, queue, passVars, opVars>>
    BY <1>2, <1>10 DEF GiveUp, Break
  <2>2. Pending(t)' <=> Pending(t)
    BY <2>1 DEF Pending
  <2>3. QED
    BY <1>7, <2>1, <2>2
<1>11. CASE RecordPid(r)
  <2>1. /\ UNCHANGED <<state, tree, queue, passVars, opVars, broken>>
        /\ pid'[t] = Present(t)
        /\ \A s \in Sessions \ {t} : pid'[s] = pid[s]
    BY <1>2, <1>6, <1>11 DEF RecordPid
  <2>2. Present(t) => Goes(r, t)' /\ state[t] # "none"
    BY <1>2, <1>6, <1>11 DEF RecordPid, To, Goes, Present
  <2>3. ~Present(t) => ~Pending(t)'
    BY <2>1 DEF Present, Pending
  <2>4. Pending(t)' <=> Pending(t)
    BY <2>1 DEF Pending
  <2>5. QED
    BY <1>7, <2>1, <2>2, <2>3, <2>4
<1>12. CASE RunFails(r) \/ Finish(r) \/ RecordRunning(r)
  <2>1. /\ UNCHANGED <<tree, queue, passVars, opVars, broken>>
        /\ \/ pid' = [pid EXCEPT ![t] = FALSE]
           \/ pid' = pid
    BY <1>2, <1>12 DEF RunFails, Finish, RecordRunning
  <2>2. /\ pid'[t] => pid[t]
        /\ \A s \in Sessions \ {t} : pid'[s] = pid[s]
    BY <1>6, <2>1
  <2>3. \/ Fail(t)
        \/ state' = [state EXCEPT ![t] = "Running"] /\ state[t] \in {"Pending", "Running"}
        \/ state' = [state EXCEPT ![t] = "Completed"] /\ state[t] = "Running"
    BY <1>2, <1>12 DEF RunFails, Finish, RecordRunning
  <2>4. /\ ~Pending(t)' /\ (state'[t] = "none" <=> state[t] = "none")
        /\ \A s \in Sessions \ {t} : state'[s] = state[s]
    BY <1>6, <2>3 DEF Fail, Pending
  <2>5. QED
    BY <1>7, <2>1, <2>2, <2>4
<1>13. QED
  BY <1>8, <1>9, <1>10, <1>11, <1>12 DEF RunnerStep

LEMMA FineRecover ==
  ASSUME TypeInv, StrandInv, NEW t \in Sessions, Recover(t) PROVE StrandInv'
<1>1. /\ UNCHANGED <<tree, queue, passVars, opVars, broken>>
      /\ \A s \in Sessions \ {t} : state'[s] = state[s] /\ pid'[s] = pid[s]
      /\ state[t] = "Running" /\ state'[t] = "Failed" /\ ~pid'[t]
  BY DEF Recover, history, TypeInv, TypeOK
<1>2. \A s \in Sessions, r \in Runners : Goes(r, s) => Goes(r, s)'
  BY DEF Recover, runVars, Goes
<1>3. ~Pending(t)'
  BY <1>1 DEF Pending
<1>4. QED
  BY <1>1, <1>2, <1>3, RowFine

LEMMA FineInit == Init => StrandInv
<1> SUFFICES ASSUME Init PROVE StrandInv
  OBVIOUS
<1>1. \A s \in Sessions : ~Queued(s) /\ \A d \in Daemons : ~Listed(d, s)
  BY EmptyHasNone DEF Init, Queued, Listed
<1>2. \A s \in Sessions : \A c \in Clients : ~Early(c, s) /\ ~Later(c, s)
  BY DEF Init, Early, Later
<1>3. \A s \in Sessions : Fine(s)
  BY <1>1, <1>2 DEF Init, Fine, PendingIsKnown, BusyIsServed, NewIsFresh, LaunchIsFirst,
                    Pending
<1>4. QED
  BY <1>3 DEF StrandInv

LEMMA FineAll ==
  ASSUME TypeInv, StrandInv, [Next]_vars PROVE StrandInv'
<1>1. CASE UNCHANGED vars
  <2>1. UNCHANGED <<state, tree, pid, queue, passVars, opVars, runVars, broken>>
    BY <1>1 DEF vars, rowVars, passVars, opVars, runVars, history
  <2>2. \A s \in Sessions : (Pending(s)' <=> Pending(s))
                            /\ \A r \in Runners : Goes(r, s)' <=> Goes(r, s)
    BY <2>1 DEF Pending, Goes, runVars
  <2>3. ASSUME NEW t \in Sessions PROVE StrandInv'
    BY <2>1, <2>2, RowFine
  <2>4. QED
    BY <2>3 DEF StrandInv
<1>2. QED
  BY <1>1, FineClient, FineDaemon, FineCrash, FineRunner, FineRecover DEF Next

\* No pending session is forgotten by the launches, the activation passes of
\* any number of daemons (activate_pending_worktree_sessions) and the stops
\* and resumes of any number of clients: it is in the queue, somebody is
\* about to start it, or its start was cut off.
THEOREM NobodyIsForgotten == Spec => []NoneStranded
<1>1. Init => TypeInv /\ LimitInv /\ StrandInv
  BY TypeInit, LimitInit, FineInit
<1>2. TypeInv /\ LimitInv /\ StrandInv /\ [Next]_vars => TypeInv' /\ LimitInv' /\ StrandInv'
  BY TypeStep, LimitStep, FineAll
<1>3. StrandInv => NoneStranded
  <2> SUFFICES ASSUME StrandInv, NEW s \in Sessions, Pending(s)
               PROVE  Owed(s) \/ s \in broken
    BY DEF NoneStranded, Pending
  <2>1. Queued(s) \/ Served(s) \/ \E c \in Clients : Enqueues(c, s)
    BY DEF StrandInv, Fine, PendingIsKnown
  <2>2. CASE Queued(s)
    BY <2>2 DEF Queued, In, InQueue, Owed
  <2>3. CASE Served(s)
    BY <2>3 DEF Served, Starts, Goes, Owed
  <2>4. CASE \E c \in Clients : Enqueues(c, s)
    BY <2>4 DEF Enqueues, Owed
  <2>5. QED
    BY <2>1, <2>2, <2>3, <2>4
<1>4. QED
  BY <1>1, <1>2, <1>3, PTL DEF Spec

\* Every variable keeps its type; a pass that gives the last of its slots
\* ends, so that its count never goes below zero.
THEOREM QueueTypesKept == Spec => []TypeOK
<1>1. Init => TypeInv /\ LimitInv
  BY TypeInit, LimitInit
<1>2. TypeInv /\ LimitInv /\ [Next]_vars => TypeInv' /\ LimitInv'
  BY TypeStep, LimitStep
<1>3. TypeInv => TypeOK
  BY DEF TypeInv
<1>4. QED
  BY <1>1, <1>2, <1>3, PTL DEF Spec

(***************************************************************************)
(* Worktrees in git are accounted for.  A session is in the queue once, so *)
(* the pass that has given it a worktree takes the whole of it out; from   *)
(* then on nobody creates a worktree for it again, and one that a client   *)
(* has removed stays removed until its row is cleared.                     *)
(***************************************************************************)
LEMMA AppendStaysOnce ==
  ASSUME NEW q \in Seq(Sessions), NEW s \in Sessions, ~In(q, s), NEW t, Once(q, t)
  PROVE  Once(Append(q, s), t)
<1>1. /\ Len(q) \in Nat /\ Len(Append(q, s)) = Len(q) + 1
      /\ \A i \in 1..Len(q) : Append(q, s)[i] = q[i]
      /\ Append(q, s)[Len(q) + 1] = s
  BY AppendProperties, LenProperties
<1>2. \A i \in 1..(Len(q) + 1) : i \in 1..Len(q) \/ i = Len(q) + 1
  BY <1>1
<1>3. QED
  BY <1>1, <1>2 DEF Once, In

LEMMA TailStaysOnce ==
  ASSUME NEW q \in Seq(Sessions), q # <<>>
  PROVE  /\ \A t : Once(q, t) => Once(Tail(q), t)
         /\ Once(q, Head(q)) => ~In(Tail(q), Head(q))
<1>1. Len(q) \in Nat \ {0} /\ Head(q) = q[1]
  BY EmptySeq
<1>2. /\ Len(Tail(q)) = Len(q) - 1
      /\ \A i \in 1..Len(Tail(q)) : Tail(q)[i] = q[i + 1]
  BY HeadTailProperties
<1>3. \A i \in 1..(Len(q) - 1) : i + 1 \in 1..Len(q) /\ i + 1 # 1
  BY <1>1
<1>4. \A i, j \in 1..(Len(q) - 1) : i + 1 = j + 1 => i = j
  OBVIOUS
<1>5. ASSUME NEW t, Once(q, t) PROVE Once(Tail(q), t)
  BY <1>2, <1>3, <1>4, <1>5 DEF Once
<1>6. 1 \in 1..Len(q)
  BY <1>1
<1>7. Once(q, Head(q)) => ~In(Tail(q), Head(q))
  BY <1>1, <1>2, <1>3, <1>6 DEF Once, In
<1>8. QED
  BY <1>5, <1>7

LEMMA FirstStayOnce ==
  ASSUME NEW q \in Seq(Sessions), NEW n \in 0..Len(q), NEW t, Once(q, t)
  PROVE  Once(SubSeq(q, 1, n), t)
<1>1. Len(q) \in Nat /\ \A i \in 1..Len(q) : q[i] \in Sessions
  BY LenProperties, ElementOfSeq
<1>2. /\ Len(SubSeq(q, 1, n)) = IF 1 <= n THEN n - 1 + 1 ELSE 0
      /\ \A i \in 1..(n - 1 + 1) : SubSeq(q, 1, n)[i] = q[1 + i - 1]
  BY <1>1, SubSeqProperties
<1>3. Len(SubSeq(q, 1, n)) = n /\ \A i \in 1..n : SubSeq(q, 1, n)[i] = q[i] /\ i \in 1..Len(q)
  BY <1>1, <1>2
<1>4. QED
  BY <1>3 DEF Once

Started(d, s) == pass[d] \in {"spawn", "started"} /\ Current(d) = s
Attaches(d, s) == pass[d] = "attach" /\ Current(d) = s
Inserts(c, s) == on[c] = s /\ pc[c] = "insert"
Removes(c, s) == on[c] = s /\ pc[c] \in {"insert", "rmClear", "rmDelete"}
Clears(c, s) == on[c] = s /\ pc[c] = "clear"
Cleans(c, s) ==
  on[c] = s /\ (pc[c] \in {"rmClear", "clear"} \/ (pc[c] = "stop" /\ had[c]))

\* The row has a worktree, or a client has read that it has one.
HadTree(s) == tree[s] \/ \E c \in Clients : Cleans(c, s)

Calm(s) == ~raced /\ s \notin broken /\ state[s] # "deleted"

RestsEmpty(d) == pass[d] \in {"idle", "queue"} => todo[d] = <<>>
OnceEach(s) == Once(queue, s) /\ \A d \in Daemons : Once(todo[d], s)

EnqueuedFirst(s) ==
  \A c \in Clients : Enqueues(c, s) =>
    /\ ~Queued(s) /\ ~HadTree(s) /\ \A d \in Daemons : ~Listed(d, s)
    /\ \A e \in Clients : Enqueues(e, s) => c = e

NewTreeIsInserted(s) ==
  state[s] = "none" /\ disk[s] =>
    s \in broken \/ \E c \in Clients : Inserts(c, s) /\ had[c]

InHandOnly(s) ==
  Calm(s) /\ HadTree(s) =>
    /\ Queued(s) => \E d \in Daemons : Started(d, s)
    /\ \A d \in Daemons : Listed(d, s) => Started(d, s)

RemovedIsGone(s) == Calm(s) => \A c \in Clients : Clears(c, s) => ~disk[s]

Accounted(s) ==
  disk[s] /\ ~tree[s] =>
    \/ \E d \in Daemons : Attaches(d, s)
    \/ \E c \in Clients : Removes(c, s)
    \/ s \in broken \/ state[s] = "deleted" \/ (raced /\ s \in touched)

TreeInv(s) ==
  /\ EnqueuedFirst(s) /\ NewTreeIsInserted(s) /\ InHandOnly(s)
  /\ RemovedIsGone(s) /\ Accounted(s)

AccInv ==
  /\ \A d \in Daemons : RestsEmpty(d)
  /\ \A s \in Sessions : OnceEach(s)
  /\ \A s \in Sessions : TreeInv(s)

\* What most steps do for the worktree of a session.
TreeKept(s) ==
  /\ state'[s] = "none" => state[s] = "none"
  /\ state[s] = "deleted" => state'[s] = "deleted"
  /\ disk'[s] => disk[s]
  /\ s \in broken => s \in broken'
  /\ raced => raced'
  /\ Queued(s)' => Queued(s)
  /\ \A d \in Daemons : Listed(d, s)' => Listed(d, s) \/ (Queued(s) /\ pass[d] = "queue")
  /\ HadTree(s)' => HadTree(s)
  /\ \A c \in Clients :
       /\ Enqueues(c, s)' => Enqueues(c, s)
       /\ Clears(c, s)' => Clears(c, s) \/ ~disk'[s]
       /\ Inserts(c, s) /\ had[c] =>
            (Inserts(c, s) /\ had[c])' \/ state'[s] # "none" \/ s \in broken'
  /\ \A d \in Daemons : Started(d, s) /\ Calm(s)' =>
       Started(d, s)' \/ (~Queued(s)' /\ \A e \in Daemons : ~Listed(e, s)')

LEMMA TreeKeptStep ==
  ASSUME LimitInv, NEW s \in Sessions, TreeInv(s), TreeKept(s), Accounted(s)'
  PROVE  TreeInv(s)'
<1>1. EnqueuedFirst(s) /\ NewTreeIsInserted(s) /\ InHandOnly(s) /\ RemovedIsGone(s)
  BY DEF TreeInv
<1>2. EnqueuedFirst(s)'
  BY <1>1 DEF EnqueuedFirst, TreeKept
<1>3. NewTreeIsInserted(s)'
  BY <1>1 DEF NewTreeIsInserted, TreeKept
<1>4. InHandOnly(s)'
  <2> SUFFICES ASSUME Calm(s)', HadTree(s)'
               PROVE  /\ Queued(s)' => \E d \in Daemons : Started(d, s)'
                      /\ \A d \in Daemons : Listed(d, s)' => Started(d, s)'
    BY DEF InHandOnly
  <2>1. Calm(s) /\ HadTree(s)
    BY DEF Calm, TreeKept
  <2>2. /\ Queued(s) => \E d \in Daemons : Started(d, s)
        /\ \A d \in Daemons : Listed(d, s) => Started(d, s)
    BY <1>1, <2>1 DEF InHandOnly
  <2>3. \A d, e \in Daemons : Started(e, s) => pass[d] # "queue"
    <3>1. \A d, e \in Daemons : pass[d] # "idle" /\ pass[e] # "idle" => d = e
      BY <2>1 DEF Calm, LimitInv, Exclusive
    <3>2. QED
      BY <3>1 DEF Started
  <2>4. \A d \in Daemons : Listed(d, s)' => Started(d, s)
    BY <2>2, <2>3 DEF TreeKept
  <2>5. QED
    BY <2>2, <2>4 DEF TreeKept
<1>5. RemovedIsGone(s)'
  BY <1>1 DEF RemovedIsGone, Calm, TreeKept
<1>6. QED
  BY <1>2, <1>3, <1>4, <1>5 DEF TreeInv

\* The daemons' places are left alone.
LEMMA SamePasses ==
  ASSUME UNCHANGED passVars
  PROVE  \A d \in Daemons, s \in Sessions :
           /\ Started(d, s)' <=> Started(d, s)
           /\ Attaches(d, s)' <=> Attaches(d, s)
           /\ Listed(d, s)' <=> Listed(d, s)
  BY DEF passVars, Started, Attaches, Listed, Current

\* Another client's part in a session.
LEMMA SameClient ==
  ASSUME NEW e, pc'[e] = pc[e], on'[e] = on[e], had'[e] = had[e]
  PROVE  \A s \in Sessions :
           /\ Enqueues(e, s)' <=> Enqueues(e, s)
           /\ Clears(e, s)' <=> Clears(e, s)
           /\ Cleans(e, s)' <=> Cleans(e, s)
           /\ Removes(e, s)' <=> Removes(e, s)
           /\ (Inserts(e, s) /\ had[e])' <=> Inserts(e, s) /\ had[e]
  BY DEF Enqueues, Clears, Cleans, Removes, Inserts

HistoryGrows ==
  broken \subseteq broken' /\ touched \subseteq touched' /\ (raced => raced')

\* A step of a client that leaves all sessions but t alone.
TreeForm(c, t, l, w, n) ==
  /\ pc[c] = "idle" \/ on[c] = t
  /\ UNCHANGED passVars /\ HistoryGrows
  /\ \A u \in Sessions \ {t} :
       state'[u] = state[u] /\ disk'[u] = disk[u] /\ tree'[u] = tree[u]
  /\ \/ queue' = queue
     \/ queue' = Without(queue, t)
     \/ queue' = Append(Without(queue, t), t)
  /\ pc' = [pc EXCEPT ![c] = l]
  /\ on' = [on EXCEPT ![c] = n]
  /\ had' = [had EXCEPT ![c] = w]

LEMMA TreeElsewhere ==
  ASSUME TypeInv, LimitInv, NEW c \in Clients, NEW t \in Sessions,
         NEW s \in Sessions, s # t, TreeInv(s),
         NEW l, NEW w, NEW n \in {t, None}, TreeForm(c, t, l, w, n)
  PROVE  TreeInv(s)'
<1>1. /\ \A e \in Clients \ {c} : pc'[e] = pc[e] /\ on'[e] = on[e] /\ had'[e] = had[e]
      /\ on'[c] # s /\ (pc[c] = "idle" \/ on[c] # s)
  BY QueueAssumption DEF TreeForm, TypeInv, TypeOK, QueueAssumption
<1>2. Queued(s)' => Queued(s)
  <2>1. CASE queue' = queue
    BY <2>1 DEF Queued
  <2>2. CASE queue' = Without(queue, t)
    BY <2>2, QueueMoves DEF Queued
  <2>3. CASE queue' = Append(Without(queue, t), t)
    <3>1. In(Append(Without(queue, t), t), s) => In(Without(queue, t), s)
      BY <2>3, QueueMoves
    <3>2. QED
      BY <2>3, <3>1, QueueMoves DEF Queued
  <2>4. QED
    BY <2>1, <2>2, <2>3 DEF TreeForm
<1>3. \A e \in Clients :
        /\ Enqueues(e, s)' <=> Enqueues(e, s)
        /\ Clears(e, s)' <=> Clears(e, s)
        /\ Cleans(e, s)' <=> Cleans(e, s)
        /\ Removes(e, s)' <=> Removes(e, s)
        /\ (Inserts(e, s) /\ had[e])' <=> Inserts(e, s) /\ had[e]
  <2>1. /\ ~Enqueues(c, s) /\ ~Clears(c, s) /\ ~Cleans(c, s) /\ ~Removes(c, s)
        /\ ~Inserts(c, s) /\ ~Enqueues(c, s)' /\ ~Clears(c, s)' /\ ~Cleans(c, s)'
        /\ ~Removes(c, s)' /\ ~Inserts(c, s)'
    BY <1>1 DEF Enqueues, Clears, Cleans, Removes, Inserts
  <2>2. QED
    BY <1>1, <2>1, SameClient
<1>4. state'[s] = state[s] /\ disk'[s] = disk[s] /\ tree'[s] = tree[s]
      /\ UNCHANGED passVars
  BY DEF TreeForm
<1>5. HadTree(s)' <=> HadTree(s)
  BY <1>3, <1>4 DEF HadTree
<1>6. TreeKept(s)
  BY <1>2, <1>3, <1>4, <1>5, SamePasses DEF TreeKept, HistoryGrows, TreeForm
<1>7. Accounted(s)'
  <2>1. Accounted(s)
    BY DEF TreeInv
  <2>2. \A d \in Daemons : Attaches(d, s)' <=> Attaches(d, s)
    BY <1>4, SamePasses
  <2>3. QED
    BY <1>3, <1>4, <2>1, <2>2 DEF Accounted, HistoryGrows, TreeForm
<1>8. QED
  BY <1>6, <1>7, TreeKeptStep

\* The session a step of a client is about.
LEMMA TreeHere ==
  ASSUME TypeInv, LimitInv, NEW c \in Clients, NEW t \in Sessions, TreeInv(t),
         NEW l \in Places \ {"enqueue"}, NEW w, NEW n \in {t, None},
         TreeForm(c, t, l, w, n),
         Queued(t)' => Queued(t),
         state'[t] = "none" => state[t] = "none",
         state[t] = "deleted" => state'[t] = "deleted",
         disk'[t] => disk[t],
         tree'[t] \/ (n = t /\ (l \in {"rmClear", "clear"} \/ (l = "stop" /\ w))) =>
           HadTree(t),
         l = "clear" => ~disk'[t],
         pc[c] # "insert" \/ state'[t] # "none" \/ t \in broken',
         \/ ~disk'[t] \/ tree'[t] \/ t \in broken' \/ state'[t] = "deleted"
         \/ n = t /\ l \in {"rmClear", "rmDelete"}
         \/ ~tree[t] /\ ~Removes(c, t)
         \/ raced' /\ t \in touched'
  PROVE  TreeInv(t)'
<1>1. /\ \A e \in Clients \ {c} : pc'[e] = pc[e] /\ on'[e] = on[e] /\ had'[e] = had[e]
      /\ pc'[c] = l /\ on'[c] = n /\ had'[c] = w
      /\ UNCHANGED passVars
  BY DEF TreeForm, TypeInv, TypeOK
<1>2. n = t \/ n # t
  OBVIOUS
<1>3. \A e \in Clients \ {c} :
        /\ Enqueues(e, t)' <=> Enqueues(e, t)
        /\ Clears(e, t)' <=> Clears(e, t)
        /\ Cleans(e, t)' <=> Cleans(e, t)
        /\ Removes(e, t)' <=> Removes(e, t)
        /\ (Inserts(e, t) /\ had[e])' <=> Inserts(e, t) /\ had[e]
  BY <1>1, SameClient
<1>4. /\ ~Enqueues(c, t)'
      /\ Clears(c, t)' => ~disk'[t]
      /\ Inserts(c, t) => state'[t] # "none" \/ t \in broken'
  BY <1>1 DEF Enqueues, Clears, Inserts
<1>5. HadTree(t)' => HadTree(t)
  <2>1. Cleans(c, t)' => HadTree(t)
    BY <1>1 DEF Cleans
  <2>2. \A e \in Clients \ {c} : Cleans(e, t)' => HadTree(t)
    BY <1>3 DEF HadTree
  <2>3. QED
    BY <2>1, <2>2 DEF HadTree
<1>6. TreeKept(t)
  BY <1>1, <1>3, <1>4, <1>5, SamePasses DEF TreeKept, HistoryGrows, TreeForm
<1>7. Accounted(t)'
  <2>1. SUFFICES ASSUME disk'[t], ~tree'[t], t \notin broken', state'[t] # "deleted",
                        ~(raced' /\ t \in touched')
                 PROVE  \/ \E d \in Daemons : Attaches(d, t)'
                        \/ \E e \in Clients : Removes(e, t)'
    BY DEF Accounted
  <2>2. CASE n = t /\ l \in {"rmClear", "rmDelete"}
    BY <2>2, <1>1 DEF Removes
  <2>3. CASE ~tree[t] /\ ~Removes(c, t)
    <3>1. \/ \E d \in Daemons : Attaches(d, t)
          \/ \E e \in Clients : Removes(e, t)
          \/ t \in broken \/ state[t] = "deleted" \/ (raced /\ t \in touched)
      BY <2>1, <2>3 DEF TreeInv, Accounted
    <3>2. QED
      BY <3>1, <2>1, <2>3, <1>1, <1>3, SamePasses DEF HistoryGrows, TreeForm
  <2>4. QED
    BY <2>1, <2>2, <2>3
<1>8. QED
  BY <1>6, <1>7, TreeKeptStep

LEMMA OneSession ==
  ASSUME TypeInv, LimitInv, AccInv, NEW c \in Clients, NEW t \in Sessions,
         NEW l, NEW w, NEW n \in {t, None}, TreeForm(c, t, l, w, n), TreeInv(t)'
  PROVE  AccInv'
<1>1. \A d \in Daemons : RestsEmpty(d)'
  BY DEF AccInv, RestsEmpty, TreeForm, passVars
<1>2. \A s \in Sessions : OnceEach(s)'
  <2> SUFFICES ASSUME NEW s \in Sessions PROVE OnceEach(s)'
    OBVIOUS
  <2>1. /\ queue \in Seq(Sessions) /\ Once(queue, s) /\ Once(queue, t)
        /\ \A d \in Daemons : Once(todo[d], s)
    BY DEF AccInv, OnceEach, TypeInv, TypeOK
  <2>2. /\ Without(queue, t) \in Seq(Sessions)
        /\ Once(Without(queue, t), s) /\ ~In(Without(queue, t), t)
    BY <2>1, WithoutKeepsOthers
  <2>3. Once(Append(Without(queue, t), t), s)
    BY <2>2, AppendStaysOnce
  <2>4. Once(queue', s)
    BY <2>1, <2>2, <2>3 DEF TreeForm
  <2>5. \A d \in Daemons : Once(todo'[d], s)
    BY <2>1 DEF TreeForm, passVars
  <2>6. QED
    BY <2>4, <2>5 DEF OnceEach
<1>3. \A s \in Sessions : TreeInv(s)'
  <2>1. \A s \in Sessions \ {t} : TreeInv(s)'
    BY TreeElsewhere DEF AccInv
  <2>2. QED
    BY <2>1
<1>4. QED
  BY <1>1, <1>2, <1>3 DEF AccInv

\* A new session is in no list, and only its launch is about it.
LEMMA NewIsAlone ==
  ASSUME TypeInv, StrandInv, AccInv, NEW c \in Clients, NEW t \in Sessions,
         on[c] = t, pc[c] \in {"make", "insert"}
  PROVE  /\ state[t] = "none" /\ \A e \in Clients \ {c} : on[e] # t
         /\ ~Queued(t) /\ ~tree[t] /\ \A d \in Daemons : ~Listed(d, t)
         /\ disk[t] => t \in broken \/ (Inserts(c, t) /\ had[c])
<1>1. NewIsFresh(t) /\ LaunchIsFirst(t) /\ NewTreeIsInserted(t)
  BY DEF StrandInv, Fine, AccInv, TreeInv
<1>2. Early(c, t)
  BY DEF Early
<1>3. state[t] = "none" /\ \A e \in Clients : on[e] = t => e = c
  BY <1>1, <1>2 DEF LaunchIsFirst
<1>4. disk[t] => t \in broken \/ (Inserts(c, t) /\ had[c])
  BY <1>1, <1>3 DEF NewTreeIsInserted, Inserts
<1>5. QED
  BY <1>1, <1>3, <1>4 DEF NewIsFresh

LEMMA TreeMake ==
  ASSUME TypeInv, LimitInv, StrandInv, AccInv, NEW c \in Clients, MakeTree(c)
  PROVE  AccInv'
<1>1. /\ pc[c] = "make" /\ pc' = [pc EXCEPT ![c] = "insert"] /\ on' = on
      /\ had' = [had EXCEPT ![c] = TRUE] /\ disk' = [disk EXCEPT ![on[c]] = TRUE]
      /\ UNCHANGED <<state, tree, queue, passVars, raced, touched, broken>>
  BY DEF MakeTree, rowVars, history
<1>2. PICK t \in Sessions : t = on[c]
  BY <1>1 DEF TypeInv, Placed
<1>3. /\ state[t] = "none" /\ \A e \in Clients \ {c} : on[e] # t
      /\ ~Queued(t) /\ ~tree[t] /\ \A d \in Daemons : ~Listed(d, t)
  BY <1>1, <1>2, NewIsAlone
<1>4. on = [on EXCEPT ![c] = t]
  BY <1>2 DEF TypeInv, TypeOK
<1>5. TreeForm(c, t, "insert", TRUE, t)
  BY <1>1, <1>2, <1>4 DEF TreeForm, HistoryGrows, TypeInv, TypeOK
<1>6. pc'[c] = "insert" /\ had'[c] /\ on'[c] = t /\ \A e \in Clients \ {c} : on'[e] # t
  BY <1>1, <1>2, <1>3 DEF TypeInv, TypeOK
<1>7. /\ \A e \in Clients : ~Enqueues(e, t)' /\ ~Clears(e, t)' /\ ~Cleans(e, t)'
      /\ (Inserts(c, t) /\ had[c])' /\ Removes(c, t)'
  BY <1>6 DEF Enqueues, Clears, Cleans, Inserts, Removes
<1>8. ~HadTree(t)'
  BY <1>1, <1>3, <1>7 DEF HadTree
<1>9. TreeInv(t)'
  BY <1>7, <1>8 DEF TreeInv, EnqueuedFirst, NewTreeIsInserted, InHandOnly,
    RemovedIsGone, Accounted
<1>10. QED
  BY <1>5, <1>9, OneSession

LEMMA TreeInsert ==
  ASSUME TypeInv, LimitInv, StrandInv, AccInv, NEW c \in Clients, insert_session(c)
  PROVE  AccInv'
<1> DEFINE l == IF had[c] THEN "spawn" ELSE "enqueue"
<1>1. /\ pc[c] = "insert" /\ pc' = [pc EXCEPT ![c] = l] /\ on' = on /\ had' = had
      /\ state' = [state EXCEPT ![on[c]] = "Pending"]
      /\ tree' = [tree EXCEPT ![on[c]] = had[c]]
      /\ UNCHANGED <<disk, queue, passVars, raced, touched, broken>>
  BY DEF insert_session, Goto, history
<1>2. PICK t \in Sessions : t = on[c]
  BY <1>1 DEF TypeInv, Placed
<1>3. /\ state[t] = "none" /\ \A e \in Clients \ {c} : on[e] # t
      /\ ~Queued(t) /\ ~tree[t] /\ \A d \in Daemons : ~Listed(d, t)
      /\ disk[t] => t \in broken \/ had[c]
  BY <1>1, <1>2, NewIsAlone
<1>4. on = [on EXCEPT ![c] = t] /\ had = [had EXCEPT ![c] = had[c]]
  BY <1>2 DEF TypeInv, TypeOK
<1>5. TreeForm(c, t, l, had[c], t)
  BY <1>1, <1>2, <1>4 DEF TreeForm, HistoryGrows, TypeInv, TypeOK
<1>6. /\ pc'[c] = l /\ had'[c] = had[c] /\ on'[c] = t
      /\ \A e \in Clients \ {c} : on'[e] # t
      /\ state'[t] = "Pending" /\ tree'[t] = had[c]
  BY <1>1, <1>2, <1>3 DEF TypeInv, TypeOK
<1>7. /\ \A e \in Clients : ~Clears(e, t)' /\ ~Cleans(e, t)' /\ (Enqueues(e, t)' => e = c)
      /\ Enqueues(c, t)' => ~had[c]
  BY <1>6 DEF Enqueues, Clears, Cleans
<1>8. HadTree(t)' <=> had[c]
  BY <1>6, <1>7 DEF HadTree
<1>9. ~Queued(t)' /\ \A d \in Daemons : ~Listed(d, t)'
  BY <1>1, <1>3, SamePasses DEF Queued
<1>10. TreeInv(t)'
  <2>1. EnqueuedFirst(t)'
    BY <1>7, <1>8, <1>9 DEF EnqueuedFirst
  <2>2. NewTreeIsInserted(t)' /\ InHandOnly(t)' /\ RemovedIsGone(t)'
    BY <1>6, <1>7, <1>9 DEF NewTreeIsInserted, InHandOnly, RemovedIsGone
  <2>3. Accounted(t)'
    BY <1>1, <1>3, <1>6 DEF Accounted
  <2>4. QED
    BY <2>1, <2>2, <2>3 DEF TreeInv
<1>11. QED
  BY <1>5, <1>10, OneSession

LEMMA TreeEnqueue ==
  ASSUME TypeInv, LimitInv, AccInv, NEW c \in Clients, enqueue_pending_worktree(c)
  PROVE  AccInv'
<1>1. /\ pc[c] = "enqueue" /\ Leave(c)
      /\ \/ queue' = queue \/ queue' = Append(Without(queue, on[c]), on[c])
      /\ UNCHANGED <<state, tree, disk, passVars, raced, touched, broken>>
  BY DEF enqueue_pending_worktree, rowVars, history
<1>2. PICK t \in Sessions : t = on[c]
  BY <1>1 DEF TypeInv, Placed
<1>3. TreeForm(c, t, "idle", FALSE, None)
  BY <1>1, <1>2 DEF TreeForm, HistoryGrows, Leave
<1>4. /\ pc'[c] = "idle"
      /\ \A e \in Clients \ {c} : pc'[e] = pc[e] /\ on'[e] = on[e] /\ had'[e] = had[e]
  BY <1>1 DEF Leave, TypeInv, TypeOK
<1>5. /\ ~Enqueues(c, t)' /\ ~Clears(c, t)' /\ ~Cleans(c, t)'
      /\ Enqueues(c, t) /\ ~Inserts(c, t) /\ ~Removes(c, t)
  BY <1>1, <1>2, <1>4 DEF Enqueues, Clears, Cleans, Inserts, Removes
<1>6. TreeInv(t)
  BY DEF AccInv
<1>7. /\ ~HadTree(t) /\ \A e \in Clients : Enqueues(e, t) => e = c
  BY <1>5, <1>6 DEF TreeInv, EnqueuedFirst
<1>8. \A e \in Clients : ~Enqueues(e, t)' /\ (Cleans(e, t)' => Cleans(e, t))
                         /\ (Clears(e, t)' => Clears(e, t))
                         /\ (Removes(e, t) => Removes(e, t)')
                         /\ (Inserts(e, t) /\ had[e] => (Inserts(e, t) /\ had[e])')
  BY <1>4, <1>5, <1>7, SameClient
<1>9. ~HadTree(t)'
  BY <1>1, <1>7, <1>8 DEF HadTree
<1>10. TreeInv(t)'
  <2>1. EnqueuedFirst(t)' /\ InHandOnly(t)'
    BY <1>8, <1>9 DEF EnqueuedFirst, InHandOnly
  <2>2. NewTreeIsInserted(t)' /\ RemovedIsGone(t)'
    BY <1>1, <1>6, <1>8 DEF TreeInv, NewTreeIsInserted, RemovedIsGone, Calm
  <2>3. Accounted(t)'
    BY <1>1, <1>6, <1>8, SamePasses DEF TreeInv, Accounted
  <2>4. QED
    BY <2>1, <2>2, <2>3 DEF TreeInv
<1>11. QED
  BY <1>3, <1>10, OneSession

LEMMA TreeOwn ==
  ASSUME TypeInv, LimitInv, OnceInv, AccInv, NEW c \in Clients, NEW t \in Sessions,
         t = on[c], pc[c] # "idle",
         \/ MakeTreeFails(c) \/ ResumeFails(c) \/ ClientCrash(c) \/ LaunchFails(c)
         \/ StopRow(c) \/ RemoveTree(c) \/ clear_worktree(c) \/ delete_session(c)
         \/ SetPending(c) \/ \E r \in Runners : Spawn(c, r)
  PROVE  AccInv'
<1>1. /\ state \in [Sessions -> {"none", "deleted", "Pending", "Running"} \cup Ended]
      /\ tree \in [Sessions -> BOOLEAN] /\ disk \in [Sessions -> BOOLEAN]
      /\ pc \in [Clients -> Places] /\ had \in [Clients -> BOOLEAN]
      /\ on = [on EXCEPT ![c] = t] /\ had = [had EXCEPT ![c] = had[c]]
      /\ TreeInv(t)
  BY DEF TypeInv, TypeOK, LimitInv, Shape, AccInv
<1>2. Queued(t)' => Queued(t)
  <2>1. queue' = queue \/ queue' = Without(queue, t)
    BY DEF MakeTreeFails, ResumeFails, ClientCrash, LaunchFails, StopRow, RemoveTree,
      clear_worktree, delete_session, SetPending, Spawn
  <2>2. CASE queue' = queue
    BY <2>2 DEF Queued
  <2>3. CASE queue' = Without(queue, t)
    BY <2>3, QueueMoves DEF Queued
  <2>4. QED
    BY <2>1, <2>2, <2>3
\* What is left to show of a step to l.
<1> DEFINE Tidy(l, w, n) ==
       /\ l \in Places \ {"enqueue"} /\ n \in {t, None} /\ TreeForm(c, t, l, w, n)
       /\ state'[t] = "none" => state[t] = "none"
       /\ state[t] = "deleted" => state'[t] = "deleted"
       /\ disk'[t] => disk[t]
       /\ tree'[t] \/ (n = t /\ (l \in {"rmClear", "clear"} \/ (l = "stop" /\ w)))
            => HadTree(t)
       /\ l = "clear" => ~disk'[t]
       /\ pc[c] # "insert" \/ state'[t] # "none" \/ t \in broken'
       /\ \/ ~disk'[t] \/ tree'[t] \/ t \in broken' \/ state'[t] = "deleted"
          \/ n = t /\ l \in {"rmClear", "rmDelete"}
          \/ ~tree[t] /\ ~Removes(c, t)
          \/ raced' /\ t \in touched'
<1>q. ASSUME NEW l, NEW w, NEW n, Tidy(l, w, n) PROVE AccInv'
  <2>1. TreeInv(t)'
    BY <1>q, <1>1, <1>2, TreeHere
  <2>2. QED
    BY <1>q, <2>1, OneSession
<1>3. CASE MakeTreeFails(c) \/ ResumeFails(c) \/ ClientCrash(c)
  <2>1. Tidy("idle", FALSE, None)
    BY <1>1, <1>3 DEF MakeTreeFails, ResumeFails, ClientCrash, Leave, Break,
      TreeForm, HistoryGrows, Places, HadTree, rowVars
  <2>2. QED
    BY <2>1, <1>q
<1>4. CASE LaunchFails(c)
  <2>1. Tidy("idle", FALSE, None) \/ Tidy("unmake", had[c], t)
    BY <1>1, <1>4 DEF LaunchFails, Fail, Goto, Leave, TreeForm, HistoryGrows, Places,
      HadTree, Removes, history
  <2>2. QED
    BY <2>1, <1>q
<1>5. CASE StopRow(c)
  <2>1. had[c] => HadTree(t)
    BY <1>5 DEF StopRow, HadTree, Cleans
  <2>2. Tidy("idle", FALSE, None) \/ Tidy("rmClear", had[c], t)
    BY <1>1, <1>5, <2>1 DEF StopRow, Present, Goto, Leave, TreeForm, HistoryGrows,
      Places, HadTree, Removes, history
  <2>3. QED
    BY <2>2, <1>q
<1>6. CASE RemoveTree(c)
  <2>1. pc[c] = "rmClear" => HadTree(t)
    BY DEF HadTree, Cleans
  <2>2. Tidy("idle", FALSE, None) \/ Tidy("clear", had[c], t) \/ Tidy("delete", had[c], t)
    BY <1>1, <1>6, <2>1 DEF RemoveTree, Goto, Leave, TreeForm, HistoryGrows, Places,
      HadTree, rowVars, history
  <2>3. QED
    BY <2>2, <1>q
<1>7. CASE clear_worktree(c)
  <2>1. pc[c] = "clear" /\ t \in touched
    BY <1>7 DEF clear_worktree, OnceInv, Interference, Launches
  <2>2. ~disk[t] \/ raced \/ t \in broken \/ state[t] = "deleted"
    BY <1>1, <2>1 DEF TreeInv, RemovedIsGone, Calm, Clears
  <2>3. Tidy("idle", FALSE, None)
    BY <1>1, <1>7, <2>1, <2>2 DEF clear_worktree, Leave, TreeForm, HistoryGrows,
      Places, history
  <2>4. QED
    BY <2>3, <1>q
<1>8. CASE delete_session(c)
  <2>1. Tidy("idle", FALSE, None)
    BY <1>1, <1>8 DEF delete_session, Leave, TreeForm, HistoryGrows, Places, history
  <2>2. QED
    BY <2>1, <1>q
<1>9. CASE SetPending(c)
  <2>1. Tidy("idle", FALSE, None) \/ Tidy("respawn", had[c], t)
    BY <1>1, <1>9 DEF SetPending, Present, Goto, Leave, TreeForm, HistoryGrows, Places,
      HadTree, Removes, history
  <2>2. QED
    BY <2>1, <1>q
<1>10. ASSUME NEW r \in Runners, Spawn(c, r) PROVE AccInv'
  <2>1. Tidy("idle", FALSE, None)
    BY <1>1, <1>10 DEF Spawn, Leave, TreeForm, HistoryGrows, Places, HadTree, Removes,
      rowVars, history
  <2>2. QED
    BY <2>1, <1>q
<1>11. QED
  BY <1>3, <1>4, <1>5, <1>6, <1>7, <1>8, <1>9, <1>10

LEMMA TreeBegin ==
  ASSUME TypeInv, LimitInv, AccInv, NEW c \in Clients, NEW s \in Sessions,
         NEW l \in Places \ {"idle", "enqueue", "clear"}, NEW w \in BOOLEAN,
         pc[c] = "idle", l = "rmClear" \/ (l = "stop" /\ w) => tree[s],
         pc' = [pc EXCEPT ![c] = l], on' = [on EXCEPT ![c] = s],
         had' = [had EXCEPT ![c] = w],
         UNCHANGED <<state, tree, disk, queue, passVars, broken>>,
         touched \subseteq touched', raced => raced'
  PROVE  AccInv'
<1>1. TreeForm(c, s, l, w, s) /\ TreeInv(s)
  BY DEF TreeForm, HistoryGrows, AccInv
<1>2. (Queued(s)' => Queued(s)) /\ ~Removes(c, s) /\ (tree[s] => HadTree(s))
  BY DEF Queued, Removes, HadTree
<1>3. tree[s] \in BOOLEAN
  BY DEF TypeInv, TypeOK
<1>4. TreeInv(s)'
  BY <1>1, <1>2, <1>3, TreeHere
<1>5. QED
  BY <1>1, <1>4, OneSession

LEMMA TreeClient ==
  ASSUME TypeInv, LimitInv, OnceInv, StrandInv, AccInv, NEW c \in Clients,
         ClientStep(c)
  PROVE  AccInv'
<1>1. ASSUME \/ MakeTreeFails(c) \/ ResumeFails(c) \/ ClientCrash(c) \/ LaunchFails(c)
             \/ StopRow(c) \/ RemoveTree(c) \/ clear_worktree(c) \/ delete_session(c)
             \/ SetPending(c) \/ \E r \in Runners : Spawn(c, r)
      PROVE  AccInv'
  <2>1. pc[c] # "idle"
    BY <1>1 DEF MakeTreeFails, ResumeFails, ClientCrash, LaunchFails, StopRow,
      RemoveTree, clear_worktree, delete_session, SetPending, Spawn
  <2>2. PICK t \in Sessions : t = on[c]
    BY <2>1 DEF TypeInv, Placed
  <2>3. QED
    BY <1>1, <2>1, <2>2, TreeOwn
<1>2. ASSUME NEW s \in Sessions, Launch(c, s) PROVE AccInv'
  <2> DEFINE l == IF HasSlot THEN "make" ELSE "insert"
  <2>1. /\ pc[c] = "idle" /\ pc' = [pc EXCEPT ![c] = l]
        /\ on' = [on EXCEPT ![c] = s] /\ had' = had
        /\ UNCHANGED <<state, tree, disk, queue, passVars, touched, broken>>
        /\ raced => raced'
    BY <1>2 DEF Launch, rowVars
  <2>2. had = [had EXCEPT ![c] = had[c]] /\ had[c] \in BOOLEAN
    BY DEF TypeInv, TypeOK
  <2>3. l \in Places \ {"idle", "enqueue", "clear"} /\ l # "rmClear" /\ l # "stop"
    BY DEF Places
  <2> HIDE DEF l
  <2>4. QED
    BY <2>1, <2>2, <2>3, TreeBegin
<1>3. ASSUME NEW s \in Sessions, NEW l \in Places \ {"idle", "enqueue", "clear"},
             NEW w \in BOOLEAN, Begin(c, s, l, w),
             l = "rmClear" \/ (l = "stop" /\ w) => tree[s]
      PROVE  AccInv'
  <2>1. /\ pc[c] = "idle" /\ pc' = [pc EXCEPT ![c] = l]
        /\ on' = [on EXCEPT ![c] = s] /\ had' = [had EXCEPT ![c] = w]
        /\ UNCHANGED <<state, tree, disk, queue, passVars, broken>>
        /\ touched \subseteq touched' /\ (raced => raced')
    BY <1>3 DEF Begin, rowVars
  <2>2. QED
    BY <1>3, <2>1, TreeBegin
<1>4. ASSUME NEW s \in Sessions, Cleanup(c, s) PROVE AccInv'
  <2>1. tree[s] /\ Begin(c, s, "rmClear", TRUE)
    BY <1>4 DEF Cleanup
  <2>2. QED
    BY <2>1, <1>3 DEF Places
<1>5. ASSUME NEW s \in Sessions, Delete(c, s) PROVE AccInv'
  <2>1. Begin(c, s, "rmDelete", FALSE) \/ Begin(c, s, "delete", FALSE)
    BY <1>5 DEF Delete
  <2>2. QED
    BY <2>1, <1>3 DEF Places
<1>6. ASSUME NEW s \in Sessions, Resume(c, s) PROVE AccInv'
  <2>1. Begin(c, s, "setPending", FALSE)
    BY <1>6 DEF Resume
  <2>2. QED
    BY <2>1, <1>3 DEF Places
<1>7. ASSUME NEW s \in Sessions, NEW b \in BOOLEAN, Stop(c, s, b) PROVE AccInv'
  <2>1. PICK w \in BOOLEAN : w = (b /\ tree[s])
    OBVIOUS
  <2>2. Begin(c, s, "stop", w)
    BY <1>7, <2>1 DEF Stop
  <2>3. QED
    BY <2>1, <2>2, <1>3 DEF Places
<1>8. QED
  BY <1>1, <1>2, <1>4, <1>5, <1>6, <1>7, TreeMake, TreeInsert, TreeEnqueue DEF ClientStep

(***************************************************************************)
(* The steps of a daemon.                                                  *)
(***************************************************************************)
PassForm(d) ==
  /\ \A e \in Daemons \ {d} : pass'[e] = pass[e] /\ todo'[e] = todo[e]
  /\ queue' = queue \/ \E s : queue' = Without(queue, s)
  /\ \/ todo'[d] = todo[d] /\ (pass'[d] \in {"idle", "queue"} => todo[d] = <<>>)
     \/ todo'[d] = <<>>
     \/ todo[d] # <<>> /\ todo'[d] = Tail(todo[d]) /\ pass'[d] = "look"
     \/ /\ pass[d] = "queue" /\ pass'[d] = "look"
        /\ \E n \in 0..Len(queue) : todo'[d] = SubSeq(queue, 1, n)

LEMMA PassesStayOnce ==
  ASSUME TypeInv, AccInv, NEW d \in Daemons, PassForm(d)
  PROVE  /\ \A e \in Daemons : RestsEmpty(e)'
         /\ \A s \in Sessions : OnceEach(s)'
<1>1. \A e \in Daemons : RestsEmpty(e)'
  BY DEF AccInv, RestsEmpty, PassForm
<1>2. ASSUME NEW s \in Sessions PROVE OnceEach(s)'
  <2>1. /\ queue \in Seq(Sessions) /\ Once(queue, s)
        /\ todo[d] \in Seq(Sessions) /\ \A e \in Daemons : Once(todo[e], s)
    BY DEF AccInv, OnceEach, TypeInv, TypeOK
  <2>2. Once(queue', s)
    BY <2>1, WithoutKeepsOthers DEF PassForm
  <2>3. Once(todo'[d], s)
    <3>1. CASE todo'[d] = todo[d]
      BY <3>1, <2>1
    <3>2. CASE todo'[d] = <<>>
      BY <3>2, EmptySeq DEF Once
    <3>3. CASE todo[d] # <<>> /\ todo'[d] = Tail(todo[d])
      BY <3>3, <2>1, TailStaysOnce
    <3>4. CASE \E n \in 0..Len(queue) : todo'[d] = SubSeq(queue, 1, n)
      BY <3>4, <2>1, FirstStayOnce
    <3>5. QED
      BY <3>1, <3>2, <3>3, <3>4 DEF PassForm
  <2>4. \A e \in Daemons : Once(todo'[e], s)
    BY <2>1, <2>3 DEF PassForm
  <2>5. QED
    BY <2>2, <2>4 DEF OnceEach
<1>3. QED
  BY <1>1, <1>2

\* What is in the queue and the list after such a step.
LEMMA PassMoves ==
  ASSUME TypeInv, NEW d \in Daemons, PassForm(d), NEW s
  PROVE  /\ Queued(s)' => Queued(s)
         /\ Listed(d, s)' => Listed(d, s) \/ (Queued(s) /\ pass[d] = "queue")
<1>1. queue \in Seq(Sessions) /\ todo[d] \in Seq(Sessions)
  BY DEF TypeInv, TypeOK
<1>2. Queued(s)' => Queued(s)
  BY <1>1, QueueMoves DEF PassForm, Queued
<1>3. CASE todo'[d] = todo[d]
  BY <1>2, <1>3 DEF Listed
<1>4. CASE todo'[d] = <<>>
  BY <1>2, <1>4, EmptyHasNone DEF Listed
<1>5. CASE todo[d] # <<>> /\ todo'[d] = Tail(todo[d])
  BY <1>2, <1>5, QueueMoves DEF Listed
<1>6. CASE pass[d] = "queue" /\ \E n \in 0..Len(queue) : todo'[d] = SubSeq(queue, 1, n)
  BY <1>1, <1>2, <1>6, FirstOnes DEF Listed, Queued
<1>7. QED
  BY <1>3, <1>4, <1>5, <1>6 DEF PassForm

\* What a pass does to the rows, for a session whose worktree it leaves alone.
LEMMA TreePass ==
  ASSUME TypeInv, LimitInv, NEW d \in Daemons, NEW s \in Sessions, TreeInv(s),
         PassForm(d), UNCHANGED opVars, HistoryGrows,
         tree'[s] = tree[s], disk'[s] = disk[s],
         state'[s] = "none" => state[s] = "none",
         state[s] = "deleted" => state'[s] = "deleted",
         Started(d, s) /\ Calm(s)' =>
           Started(d, s)' \/ (~Queued(s)' /\ \A e \in Daemons : ~Listed(e, s)'),
         Attaches(d, s) => s \in broken'
  PROVE  TreeInv(s)'
<1>1. \A c \in Clients :
        /\ Enqueues(c, s)' <=> Enqueues(c, s)
        /\ Clears(c, s)' <=> Clears(c, s)
        /\ Cleans(c, s)' <=> Cleans(c, s)
        /\ Removes(c, s)' <=> Removes(c, s)
        /\ (Inserts(c, s) /\ had[c])' <=> Inserts(c, s) /\ had[c]
  BY SameClient DEF opVars
<1>2. HadTree(s)' <=> HadTree(s)
  BY <1>1 DEF HadTree
<1>3. \A e \in Daemons \ {d} : /\ Started(e, s)' <=> Started(e, s)
                               /\ Attaches(e, s)' <=> Attaches(e, s)
                               /\ Listed(e, s)' <=> Listed(e, s)
  BY DEF PassForm, Started, Attaches, Listed, Current
<1>4. /\ Queued(s)' => Queued(s)
      /\ Listed(d, s)' => Listed(d, s) \/ (Queued(s) /\ pass[d] = "queue")
  BY PassMoves
<1>5. TreeKept(s)
  BY <1>1, <1>2, <1>3, <1>4 DEF TreeKept, HistoryGrows
<1>6. Accounted(s)'
  <2>1. Accounted(s)
    BY DEF TreeInv
  <2>2. QED
    BY <2>1, <1>1, <1>3 DEF Accounted, HistoryGrows
<1>7. QED
  BY <1>5, <1>6, TreeKeptStep

LEMMA OnePass ==
  ASSUME TypeInv, AccInv, NEW d \in Daemons, PassForm(d),
         \A s \in Sessions : TreeInv(s)'
  PROVE  AccInv'
  BY PassesStayOnce DEF AccInv

\* The steps in which the current session gets and loses no worktree.
LEMMA QuietPass ==
  ASSUME TypeInv, LimitInv, AccInv, NEW d \in Daemons,
         \/ CountSlots(d) \/ pending_worktree_queue(d) \/ Look(d) \/ EndPass(d)
         \/ SkipEntry(d) \/ CreateTreeFails(d) \/ FailEntry(d)
         \/ \E r \in Runners : SpawnTask(d, r)
  PROVE  AccInv'
<1>1. /\ UNCHANGED opVars /\ HistoryGrows /\ tree' = tree /\ disk' = disk
      /\ pass[d] # "attach"
  <2>1. pass[d] # "attach" /\ UNCHANGED <<opVars, tree, disk, touched, broken>>
    BY DEF CountSlots, pending_worktree_queue, Look, EndPass, SkipEntry, CreateTreeFails,
      FailEntry, SpawnTask, rowVars, history
  <2>2. raced => raced'
    BY DEF CountSlots, pending_worktree_queue, Look, EndPass, SkipEntry, CreateTreeFails,
      FailEntry, SpawnTask, history
  <2>3. QED
    BY <2>1, <2>2 DEF HistoryGrows
<1>2. PassForm(d)
  <2>0. /\ pass \in [Daemons -> Stages] /\ todo \in [Daemons -> Seq(Sessions)]
        /\ Len(queue) \in Nat /\ free[d] \in Nat
    BY LenProperties, QueueAssumption DEF TypeInv, TypeOK, LimitInv, Shape, QueueAssumption
  <2>1. CASE CountSlots(d)
    BY <2>0, <2>1 DEF CountSlots, PassForm, AccInv, RestsEmpty
  <2>2. CASE pending_worktree_queue(d)
    <3> DEFINE n == IF Len(queue) < free[d] THEN Len(queue) ELSE free[d]
    <3>1. /\ pass[d] = "queue" /\ pass' = [pass EXCEPT ![d] = "look"] /\ queue' = queue
          /\ todo' = [todo EXCEPT ![d] = SubSeq(queue, 1, n)]
      BY <2>2 DEF pending_worktree_queue
    <3>2. n \in 0..Len(queue)
      BY <2>0
    <3> HIDE DEF n
    <3>3. QED
      BY <2>0, <3>1, <3>2 DEF PassForm
  <2>3. CASE Look(d)
    BY <2>0, <2>3 DEF Look, Move, PassForm
  <2>4. CASE EndPass(d)
    BY <2>0, <2>4 DEF EndPass, Over, PassForm
  <2>5. CASE SkipEntry(d)
    BY <2>0, <2>5 DEF SkipEntry, NextEntry, PassForm, TypeInv, Placed
  <2>6. CASE CreateTreeFails(d)
    BY <2>0, <2>6 DEF CreateTreeFails, Move, PassForm
  <2>7. CASE FailEntry(d)
    BY <2>0, <2>7 DEF FailEntry, NextEntry, Over, PassForm, TypeInv, Placed
  <2>8. CASE \E r \in Runners : SpawnTask(d, r)
    BY <2>0, <2>8 DEF SpawnTask, Move, PassForm
  <2>9. QED
    BY <2>1, <2>2, <2>3, <2>4, <2>5, <2>6, <2>7, <2>8
<1>3. \A s \in Sessions : /\ state'[s] = "none" => state[s] = "none"
                          /\ state[s] = "deleted" => state'[s] = "deleted"
  BY DEF CountSlots, pending_worktree_queue, Look, EndPass, SkipEntry, CreateTreeFails,
    FailEntry, Fail, SpawnTask, rowVars, TypeInv, TypeOK
<1>4. \A s \in Sessions : Started(d, s) => Started(d, s)'
  <2> SUFFICES ASSUME NEW s \in Sessions, Started(d, s) PROVE Started(d, s)'
    OBVIOUS
  <2>1. pass[d] \in {"spawn", "started"}
    BY DEF Started
  <2>2. PICK r \in Runners : SpawnTask(d, r)
    BY <2>1 DEF CountSlots, pending_worktree_queue, Look, EndPass, SkipEntry,
      CreateTreeFails, FailEntry
  <2>3. QED
    BY <2>2 DEF SpawnTask, Move, Started, Current, TypeInv, TypeOK
<1>5. \A s \in Sessions : ~Attaches(d, s)
  BY <1>1 DEF Attaches
<1>6. ASSUME NEW s \in Sessions PROVE TreeInv(s)'
  BY <1>1, <1>2, <1>3, <1>4, <1>5, TreePass DEF AccInv
<1>7. QED
  BY <1>2, <1>6, OnePass

\* Nobody else works on the queue while this pass does, unless there was a race.
LEMMA OthersRest ==
  ASSUME TypeInv, LimitInv, AccInv, NEW d \in Daemons, pass[d] # "idle", ~raced
  PROVE  \A e \in Daemons \ {d} : pass[e] = "idle" /\ \A s : ~Listed(e, s)
<1>1. \A e \in Daemons \ {d} : pass[e] = "idle"
  BY DEF LimitInv, Exclusive
<1>2. QED
  BY <1>1, EmptyHasNone DEF AccInv, RestsEmpty, Listed

LEMMA StartedPass ==
  ASSUME TypeInv, LimitInv, AccInv, NEW d \in Daemons, EntryStarted(d)
  PROVE  AccInv'
<1>1. /\ pass[d] = "started" /\ queue' = Without(queue, Current(d))
      /\ \/ pass' = [pass EXCEPT ![d] = "idle"] /\ todo' = [todo EXCEPT ![d] = <<>>]
         \/ pass' = [pass EXCEPT ![d] = "look"] /\ todo' = [todo EXCEPT ![d] = Tail(@)]
      /\ UNCHANGED <<state, tree, disk, opVars, raced, touched, broken>>
  BY DEF EntryStarted, Over, NextEntry, rowVars, history
<1>2. todo[d] # <<>> /\ todo[d] \in Seq(Sessions) /\ queue \in Seq(Sessions)
  BY <1>1 DEF TypeInv, TypeOK, Placed
<1>3. PICK t \in Sessions : t = Current(d)
  BY <1>2, QueueTypes DEF TypeInv
<1>4. PassForm(d) /\ HistoryGrows
  BY <1>1, <1>2 DEF PassForm, HistoryGrows, TypeInv, TypeOK
<1>5. ~Queued(t)' /\ ~Listed(d, t)'
  <2>1. Once(queue, t) /\ Once(todo[d], t)
    BY DEF AccInv, OnceEach
  <2>2. ~In(Without(queue, t), t) /\ ~In(Tail(todo[d]), t)
    BY <1>2, <1>3, <2>1, WithoutKeepsOthers, TailStaysOnce DEF Current
  <2>3. todo'[d] = <<>> \/ todo'[d] = Tail(todo[d])
    BY <1>1 DEF TypeInv, TypeOK
  <2>4. QED
    BY <1>1, <1>3, <2>2, <2>3, EmptyHasNone DEF Queued, Listed
<1>6. ASSUME ~raced' PROVE \A e \in Daemons : ~Listed(e, t)'
  <2>1. \A e \in Daemons \ {d} : ~Listed(e, t)
    BY <1>1, <1>6, OthersRest
  <2>2. QED
    BY <1>4, <1>5, <2>1 DEF PassForm, Listed
<1>7. ASSUME NEW s \in Sessions PROVE TreeInv(s)'
  <2>1. Started(d, s) /\ Calm(s)' =>
          Started(d, s)' \/ (~Queued(s)' /\ \A e \in Daemons : ~Listed(e, s)')
    BY <1>3, <1>5, <1>6 DEF Started, Calm
  <2>2. ~Attaches(d, s)
    BY <1>1 DEF Attaches
  <2>3. QED
    BY <1>1, <1>4, <2>1, <2>2, TreePass DEF AccInv
<1>8. QED
  BY <1>4, <1>7, OnePass

LEMMA TreeCrash ==
  ASSUME TypeInv, LimitInv, AccInv, NEW d \in Daemons, DaemonCrash(d)
  PROVE  AccInv'
<1>1. /\ pass' = [pass EXCEPT ![d] = "idle"] /\ todo' = [todo EXCEPT ![d] = <<>>]
      /\ UNCHANGED <<state, tree, queue, disk, opVars, raced, touched>>
      /\ broken' = broken \cup (InHand(d) \cup {of[r] : r \in TasksOf(d)})
  BY DEF DaemonCrash, Over, Break, rowVars
<1>2. PassForm(d) /\ HistoryGrows
  BY <1>1 DEF PassForm, HistoryGrows, TypeInv, TypeOK
<1>3. \A s \in Sessions : Started(d, s) \/ Attaches(d, s) => s \in broken'
  BY <1>1 DEF Started, Attaches, InHand, TypeInv, Placed
<1>4. ASSUME NEW s \in Sessions PROVE TreeInv(s)'
  <2>1. Started(d, s) => ~Calm(s)'
    BY <1>3 DEF Calm
  <2>2. QED
    BY <1>1, <1>2, <1>3, <2>1, TreePass DEF AccInv
<1>5. QED
  BY <1>2, <1>4, OnePass

\* The session a daemon is about to serve: it has a row, its launch is over,
\* and unless there was a race or a cut it has had no worktree yet.
LEMMA ServedIsWaiting ==
  ASSUME TypeInv, StrandInv, AccInv, NEW d \in Daemons, pass[d] \in {"create", "attach"}
  PROVE  /\ todo[d] # <<>> /\ Current(d) \in Sessions /\ state[Current(d)] # "none"
         /\ Listed(d, Current(d)) /\ \A c \in Clients : ~Enqueues(c, Current(d))
         /\ Calm(Current(d)) => ~HadTree(Current(d))
<1>1. todo[d] # <<>>
  BY DEF TypeInv, Placed
<1>2. PICK t \in Sessions : t = Current(d)
  BY <1>1, QueueTypes
<1>3. Listed(d, t)
  BY <1>1, <1>2, QueueMoves
<1>4. NewIsFresh(t) /\ TreeInv(t)
  BY DEF StrandInv, Fine, AccInv
<1>5. state[t] # "none"
  BY <1>3, <1>4 DEF NewIsFresh
<1>6. \A c \in Clients : ~Enqueues(c, t)
  BY <1>3, <1>4 DEF TreeInv, EnqueuedFirst
<1>7. ~Started(d, t)
  BY DEF Started
<1>8. Calm(t) => ~HadTree(t)
  BY <1>3, <1>4, <1>7 DEF TreeInv, InHandOnly
<1>9. QED
  BY <1>1, <1>2, <1>3, <1>5, <1>6, <1>8

LEMMA CreatePass ==
  ASSUME TypeInv, LimitInv, StrandInv, AccInv, NEW d \in Daemons, CreateTree(d)
  PROVE  AccInv'
<1>1. /\ pass[d] = "create" /\ pass' = [pass EXCEPT ![d] = "attach"] /\ todo' = todo
      /\ disk' = [disk EXCEPT ![Current(d)] = TRUE]
      /\ UNCHANGED <<state, tree, queue, opVars, raced, touched, broken>>
  BY DEF CreateTree, Move, rowVars, history
<1>2. PICK t \in Sessions : t = Current(d)
  BY <1>1, ServedIsWaiting
<1>3. /\ state[t] # "none" /\ \A c \in Clients : ~Enqueues(c, t)
      /\ Calm(t) => ~HadTree(t)
  BY <1>1, <1>2, ServedIsWaiting
<1>4. PassForm(d) /\ HistoryGrows /\ Attaches(d, t)'
  BY <1>1, <1>2 DEF PassForm, HistoryGrows, Attaches, Current, TypeInv, TypeOK
<1>5. ~Started(d, t) /\ \A s \in Sessions : ~Started(d, s) /\ ~Attaches(d, s)
  BY <1>1 DEF Started, Attaches
<1>6. ASSUME NEW s \in Sessions \ {t} PROVE TreeInv(s)'
  <2>1. disk'[s] = disk[s]
    BY <1>1, <1>2 DEF TypeInv, TypeOK
  <2>2. QED
    BY <1>1, <1>4, <1>5, <2>1, TreePass DEF AccInv
<1>7. TreeInv(t)'
  <2>1. \A c \in Clients : /\ ~Enqueues(c, t)' /\ (Clears(c, t)' <=> Clears(c, t))
                           /\ (Cleans(c, t)' <=> Cleans(c, t))
    BY <1>1, <1>3, SameClient DEF opVars
  <2>2. Calm(t)' => ~HadTree(t)'
    BY <1>1, <1>3, <2>1 DEF HadTree, Calm
  <2>3. \A c \in Clients : Clears(c, t)' => HadTree(t)'
    BY DEF Clears, Cleans, HadTree
  <2>4. EnqueuedFirst(t)' /\ NewTreeIsInserted(t)'
    BY <1>1, <1>3, <2>1 DEF EnqueuedFirst, NewTreeIsInserted
  <2>5. InHandOnly(t)' /\ RemovedIsGone(t)'
    BY <2>2, <2>3 DEF InHandOnly, RemovedIsGone
  <2>6. QED
    BY <1>4, <2>4, <2>5 DEF TreeInv, Accounted
<1>8. QED
  BY <1>4, <1>6, <1>7, OnePass

LEMMA AttachPass ==
  ASSUME TypeInv, LimitInv, StrandInv, AccInv, NEW d \in Daemons, attach_worktree(d)
  PROVE  AccInv'
<1>1. pass[d] = "attach" /\ UNCHANGED <<state, queue, opVars, raced, touched, broken>>
  BY DEF attach_worktree, history
<1>2. PICK t \in Sessions : t = Current(d)
  BY <1>1, ServedIsWaiting
<1>3. /\ state[t] # "none" /\ Listed(d, t) /\ todo[d] # <<>>
      /\ \A c \in Clients : ~Enqueues(c, t)
  BY <1>1, <1>2, ServedIsWaiting
<1>4. \/ /\ Present(t) /\ tree' = [tree EXCEPT ![t] = TRUE] /\ disk' = disk
         /\ pass' = [pass EXCEPT ![d] = "spawn"] /\ todo' = todo
      \/ /\ ~Present(t) /\ disk' = [disk EXCEPT ![t] = FALSE] /\ tree' = tree
         /\ pass' = [pass EXCEPT ![d] = "idle"] /\ todo' = [todo EXCEPT ![d] = <<>>]
  BY <1>2 DEF attach_worktree, Move, Over
<1>5. PassForm(d) /\ HistoryGrows
  BY <1>1, <1>4 DEF PassForm, HistoryGrows, TypeInv, TypeOK
<1>6. ASSUME NEW s \in Sessions \ {t} PROVE TreeInv(s)'
  <2>1. disk'[s] = disk[s] /\ tree'[s] = tree[s]
    BY <1>4 DEF TypeInv, TypeOK
  <2>2. ~Started(d, s) /\ ~Attaches(d, s)
    BY <1>1, <1>2 DEF Started, Attaches
  <2>3. QED
    BY <1>1, <1>5, <2>1, <2>2, TreePass DEF AccInv
<1>7. \A c \in Clients : ~Enqueues(c, t)' /\ (Clears(c, t)' <=> Clears(c, t))
  BY <1>1, <1>3, SameClient DEF opVars
<1>8. EnqueuedFirst(t)' /\ NewTreeIsInserted(t)'
  BY <1>1, <1>3, <1>7 DEF EnqueuedFirst, NewTreeIsInserted
<1>9. CASE Present(t)
  <2>1. tree'[t] /\ disk' = disk /\ Started(d, t)'
    BY <1>2, <1>4, <1>9 DEF Started, Current, TypeInv, TypeOK
  <2>2. Calm(t)' => \A e \in Daemons : Listed(e, t)' => e = d
    <3>1. Calm(t)' => \A e \in Daemons \ {d} : ~Listed(e, t)
      BY <1>1, OthersRest DEF Calm
    <3>2. QED
      BY <1>5, <3>1 DEF PassForm, Listed
  <2>3. InHandOnly(t)'
    BY <2>1, <2>2 DEF InHandOnly
  <2>4. RemovedIsGone(t)'
    BY <1>1, <1>7, <2>1 DEF AccInv, TreeInv, RemovedIsGone, Calm
  <2>5. TreeInv(t)'
    BY <1>8, <2>1, <2>3, <2>4 DEF TreeInv, Accounted
  <2>6. QED
    BY <1>5, <1>6, <2>5, OnePass
<1>10. CASE ~Present(t)
  <2>1. ~disk'[t] /\ state'[t] = "deleted"
    BY <1>1, <1>3, <1>4, <1>10 DEF Present, TypeInv, TypeOK
  <2>2. TreeInv(t)'
    BY <1>8, <2>1 DEF TreeInv, InHandOnly, RemovedIsGone, Accounted, Calm
  <2>3. QED
    BY <1>5, <1>6, <2>2, OnePass
<1>11. QED
  BY <1>9, <1>10

(***************************************************************************)
(* Runners and recovery write states and pids only.                        *)
(***************************************************************************)
LEMMA RowsOnly ==
  ASSUME TypeInv, LimitInv, AccInv,
         UNCHANGED <<tree, queue, disk, passVars, opVars>>, HistoryGrows,
         \A s \in Sessions : /\ state'[s] = "none" => state[s] = "none"
                             /\ state[s] = "deleted" => state'[s] = "deleted"
  PROVE  AccInv'
<1>1. \A c \in Clients, s \in Sessions :
        /\ Enqueues(c, s)' <=> Enqueues(c, s)
        /\ Clears(c, s)' <=> Clears(c, s)
        /\ Cleans(c, s)' <=> Cleans(c, s)
        /\ Removes(c, s)' <=> Removes(c, s)
        /\ (Inserts(c, s) /\ had[c])' <=> Inserts(c, s) /\ had[c]
  BY SameClient DEF opVars
<1>2. \A s \in Sessions : (HadTree(s)' <=> HadTree(s)) /\ (Queued(s)' <=> Queued(s))
  BY <1>1 DEF HadTree, Queued
<1>3. ASSUME NEW s \in Sessions PROVE TreeInv(s)'
  <2>1. TreeKept(s)
    BY <1>1, <1>2, SamePasses DEF TreeKept, HistoryGrows
  <2>2. Accounted(s)'
    BY <1>1, SamePasses DEF AccInv, TreeInv, Accounted, HistoryGrows
  <2>3. QED
    BY <2>1, <2>2, TreeKeptStep DEF AccInv
<1>4. QED
  BY <1>3 DEF AccInv, RestsEmpty, OnceEach, passVars

LEMMA TreeRunner ==
  ASSUME TypeInv, LimitInv, AccInv, NEW r \in Runners, RunnerStep(r) PROVE AccInv'
<1>1. UNCHANGED <<tree, queue, disk, passVars, opVars>>
  BY DEF RunnerStep, Skip, Accept, GiveUp, RecordPid, RunFails, RecordRunning, Finish,
    rowVars
<1>2. HistoryGrows
  BY DEF RunnerStep, Skip, Accept, GiveUp, RecordPid, RunFails, RecordRunning, Finish,
    Break, history, HistoryGrows
<1>3. \A s \in Sessions : /\ state'[s] = "none" => state[s] = "none"
                          /\ state[s] = "deleted" => state'[s] = "deleted"
  BY DEF RunnerStep, Skip, Accept, GiveUp, RecordPid, RunFails, RecordRunning, Finish,
    Fail, rowVars, TypeInv, TypeOK
<1>4. QED
  BY <1>1, <1>2, <1>3, RowsOnly

LEMMA TreeRecover ==
  ASSUME TypeInv, LimitInv, AccInv, NEW s \in Sessions, Recover(s) PROVE AccInv'
<1>1. UNCHANGED <<tree, queue, disk, passVars, opVars>> /\ HistoryGrows
  BY DEF Recover, history, HistoryGrows
<1>2. \A u \in Sessions : /\ state'[u] = "none" => state[u] = "none"
                          /\ state[u] = "deleted" => state'[u] = "deleted"
  BY DEF Recover, TypeInv, TypeOK
<1>3. QED
  BY <1>1, <1>2, RowsOnly

LEMMA TreeInit == Init => AccInv
<1> SUFFICES ASSUME Init PROVE AccInv
  OBVIOUS
<1>1. queue = <<>> /\ Len(queue) = 0 /\ \A d \in Daemons : todo[d] = <<>>
  BY EmptySeq DEF Init
<1>2. \A s \in Sessions : OnceEach(s)
  BY <1>1 DEF OnceEach, Once
<1>3. \A d \in Daemons : RestsEmpty(d)
  BY <1>1 DEF RestsEmpty
<1>4. \A c \in Clients, s \in Sessions : ~Enqueues(c, s) /\ ~Cleans(c, s) /\ ~Clears(c, s)
  BY DEF Init, Enqueues, Cleans, Clears
<1>5. ASSUME NEW s \in Sessions PROVE TreeInv(s)
  <2>1. ~tree[s] /\ ~disk[s]
    BY DEF Init
  <2>2. ~HadTree(s)
    BY <1>4, <2>1 DEF HadTree
  <2>3. QED
    BY <1>4, <2>1, <2>2 DEF TreeInv, EnqueuedFirst, NewTreeIsInserted, InHandOnly,
      RemovedIsGone, Accounted
<1>6. QED
  BY <1>2, <1>3, <1>5 DEF AccInv

LEMMA TreeStep ==
  ASSUME TypeInv, LimitInv, OnceInv, StrandInv, AccInv, [Next]_vars PROVE AccInv'
<1>1. CASE UNCHANGED vars
  <2>1. /\ UNCHANGED <<tree, queue, disk, passVars, opVars>> /\ HistoryGrows
        /\ state' = state
    BY <1>1 DEF vars, rowVars, history, HistoryGrows
  <2>2. QED
    BY <2>1, RowsOnly
<1>2. ASSUME NEW d \in Daemons, DaemonStep(d) PROVE AccInv'
  BY <1>2, QuietPass, CreatePass, AttachPass, StartedPass DEF DaemonStep
<1>3. QED
  BY <1>1, <1>2, TreeClient, TreeCrash, TreeRunner, TreeRecover DEF Next

\* A worktree in git to which no row points is being created or removed, or
\* its session was cut off, deleted, or interfered with in a race of two
\* allocators: whatever creates (build_session_record, the activation pass),
\* attaches, removes and clears worktrees, none of the others is lost.
THEOREM NoTreeIsLost == Spec => []TreesAreAccounted
<1>1. Init => TypeInv /\ LimitInv /\ OnceInv /\ StrandInv /\ AccInv
  BY TypeInit, LimitInit, OnceInit, FineInit, TreeInit
<1>2. TypeInv /\ LimitInv /\ OnceInv /\ StrandInv /\ AccInv /\ [Next]_vars =>
        (TypeInv /\ LimitInv /\ OnceInv /\ StrandInv /\ AccInv)'
  BY TypeStep, LimitStep, OnceStep, FineAll, TreeStep
<1>3. AccInv => TreesAreAccounted
  BY DEF AccInv, TreeInv, Accounted, Attaches, Removes, TreesAreAccounted
<1>4. QED
  BY <1>1, <1>2, <1>3, PTL DEF Spec
=============================================================================
