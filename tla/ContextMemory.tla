---------------------------- MODULE ContextMemory ----------------------------
(***************************************************************************)
(* The observations of ecc2's context graph: what is remembered about each *)
(* entity.  Dashboards, connectors and commands add to it, a user pins what*)
(* must stay, and with every addition the history of the entity is         *)
(* compacted: repeats go first, then what is too old.                      *)
(*                                                                         *)
(* Every statement commits on its own, and the processes take turns.  An   *)
(* observation's type and summary are one text; its details and priority   *)
(* play no part in compaction and are left out.                            *)
(***************************************************************************)
EXTENDS Naturals, FiniteSets

CONSTANTS
  Processes,
  Entities,
  Texts,
  None,
  Retention, \* DEFAULT_CONTEXT_GRAPH_OBSERVATION_RETENTION
  Limits,    \* what --keep-observations-per-entity may be
  MaxAdds    \* bound: observations added

VARIABLES
  obs,   \* the observations
  adds,  \* how many were begun: their clock
  ids,   \* how many were inserted
  op,    \* what each process is doing
  torn,  \* history: entities whose repeats somebody was killed over
  loose  \* history: entities an observation was unpinned of, or whose
         \* compaction was cut short, since they were compacted

vars == <<obs, adds, ids, op, torn, loose>>

Idle ==
  [at |-> "idle",
   new |-> None,  \* the observation being added
   over |-> {},   \* the entities to compact, all or those of a session
   keep |-> 0]    \* how many unpinned observations are to stay

Init ==
  /\ obs = {} /\ adds = 0 /\ ids = 0
  /\ op = [p \in Processes |-> Idle]
  /\ torn = {} /\ loose = {}

At(p, l) == op[p].at = l
Go(p, o) == op' = [op EXCEPT ![p] = o]

SameMemory(o, r) == o.entity = r.entity /\ o.text = r.text
Newer(o, r) == o.at > r.at \/ (o.at = r.at /\ o.id > r.id)
Unpinned(e) == {o \in obs : o.entity = e /\ ~o.pinned}

(***************************************************************************)
(* add_context_observation: the time is taken, the row inserted, its       *)
(* entity compacted, and the row read again.                               *)
(***************************************************************************)
Add(p, e, t, pin) ==
  /\ At(p, "idle") /\ adds < MaxAdds
  /\ adds' = adds + 1
  /\ Go(p, [at |-> "insert", over |-> {e}, keep |-> Retention,
            new |-> [entity |-> e, text |-> t, pinned |-> pin, at |-> adds, id |-> 0]])
  /\ UNCHANGED <<obs, ids, torn, loose>>

Insert(p) ==
  LET new == [op[p].new EXCEPT !.id = ids] IN
  /\ At(p, "insert")
  /\ obs' = obs \cup {new} /\ ids' = ids + 1
  /\ Go(p, [op[p] EXCEPT !.at = "dedupe", !.new = new])
  /\ UNCHANGED <<adds, torn, loose>>

\* When compaction has taken the row away again, this is an error.
ReadBack(p) ==
  /\ At(p, "read")
  /\ Go(p, IF \E o \in obs : o.id = op[p].new.id THEN Idle
                                                 ELSE [op[p] EXCEPT !.at = "failed"])
  /\ UNCHANGED <<obs, adds, ids, torn, loose>>

GiveUp(p) ==
  /\ At(p, "failed") /\ Go(p, Idle)
  /\ UNCHANGED <<obs, adds, ids, torn, loose>>

(***************************************************************************)
(* compact_context_graph_observations, after an addition or by command.    *)
(***************************************************************************)
Compact(p, E, k) ==
  /\ At(p, "idle")
  /\ Go(p, [Idle EXCEPT !.at = "dedupe", !.over = E, !.keep = k])
  /\ UNCHANGED <<obs, adds, ids, torn, loose>>

\* Of the same memory, a pinned one comes before one that is not, then the newer.
Outranks(o, r) ==
  /\ SameMemory(o, r)
  /\ (o.pinned /\ ~r.pinned) \/ (o.pinned = r.pinned /\ Newer(o, r))

Dedupe(p) ==
  /\ At(p, "dedupe")
  /\ obs' = {r \in obs : r.entity \in op[p].over => \A o \in obs : ~Outranks(o, r)}
  /\ torn' = torn \ op[p].over
  /\ Go(p, [op[p] EXCEPT !.at = "overflow"])
  /\ UNCHANGED <<adds, ids, loose>>

\* Mutant: pinned observations use up the room of the others.
RankAmongAll(r) ==
  Cardinality({o \in obs : o.entity = r.entity /\ (o.pinned \/ Newer(o, r))})
Rank(r) == Cardinality({o \in Unpinned(r.entity) : Newer(o, r)})

\* Mutant: one too many stays.
OverflowLate(p) ==
  /\ At(p, "overflow")
  /\ obs' = {r \in obs : (r.entity \in op[p].over /\ ~r.pinned) => Rank(r) <= op[p].keep}
  /\ loose' = IF op[p].keep <= Retention THEN loose \ op[p].over ELSE loose
  /\ Go(p, IF op[p].new = None THEN Idle ELSE [op[p] EXCEPT !.at = "read"])
  /\ UNCHANGED <<adds, ids, torn>>

Overflow(p) ==
  /\ At(p, "overflow")
  /\ obs' = {r \in obs : (r.entity \in op[p].over /\ ~r.pinned) => Rank(r) < op[p].keep}
  /\ loose' = IF op[p].keep <= Retention THEN loose \ op[p].over ELSE loose
  /\ Go(p, IF op[p].new = None THEN Idle ELSE [op[p] EXCEPT !.at = "read"])
  /\ UNCHANGED <<adds, ids, torn>>

(***************************************************************************)
(* set_context_observation_pinned.                                         *)
(***************************************************************************)
SetPinned(o, pin) ==
  /\ o.pinned # pin
  /\ obs' = (obs \ {o}) \cup {[o EXCEPT !.pinned = pin]}
  /\ loose' = IF pin THEN loose ELSE loose \cup {o.entity}
  /\ UNCHANGED <<adds, ids, op, torn>>

\* A process is killed, or finds the database locked for too long.
Break(p) ==
  /\ op[p].at \in {"dedupe", "overflow"}
  /\ torn' = IF At(p, "dedupe") THEN torn \cup op[p].over ELSE torn
  /\ loose' = loose \cup op[p].over
  /\ Go(p, Idle)
  /\ UNCHANGED <<obs, adds, ids>>

Step(p) == Insert(p) \/ Dedupe(p) \/ Overflow(p) \/ ReadBack(p) \/ GiveUp(p)

Next ==
  \/ \E p \in Processes :
       \/ \E e \in Entities, t \in Texts, pin \in BOOLEAN : Add(p, e, t, pin)
       \/ \E E \in (SUBSET Entities) \ {{}}, k \in Limits : Compact(p, E, k)
       \/ Step(p) \/ Break(p)
  \/ \E o \in obs, pin \in BOOLEAN : SetPinned(o, pin)

Spec == Init /\ [][Next]_vars

\* What a process has begun it goes on with.
FairSpec == Spec /\ \A p \in Processes : WF_vars(Step(p))

-----------------------------------------------------------------------------
Observation ==
  [entity : Entities, text : Texts, pinned : BOOLEAN, at : 0..MaxAdds, id : 0..MaxAdds]

TypeOK ==
  /\ obs \subseteq Observation
  /\ adds \in 0..MaxAdds /\ ids \in 0..adds
  /\ op \in [Processes -> [at : {"idle", "insert", "dedupe", "overflow", "read", "failed"},
                           new : Observation \cup {None}, over : SUBSET Entities,
                           keep : Limits \cup {0, Retention}]]
  /\ torn \subseteq Entities /\ loose \subseteq Entities

Compacting(e, ls) == \E p \in Processes : op[p].at \in ls /\ e \in op[p].over

\* What was said twice about an entity is remembered once, unless somebody is
\* about to see to it, or was killed before he could.
NoRepeats ==
  \A o, r \in obs : SameMemory(o, r) /\ o # r =>
    o.entity \in torn \/ Compacting(o.entity, {"dedupe"})

\* No more than the retention is kept beside what is pinned, whoever adds at the
\* same time.
HistoryIsBounded ==
  \A e \in Entities :
    \/ Cardinality(Unpinned(e)) <= Retention
    \/ e \in loose \/ Compacting(e, {"dedupe", "overflow"})

\* A step leaves a pinned memory in place, unless it unpins it: itself, or a copy
\* that is pinned.
PinnedStays ==
  \A o \in obs : o.pinned =>
    \E r \in obs' : SameMemory(o, r) /\ (r.pinned \/ r.id = o.id)

\* The latest that was learned about an entity is not compacted away, unless it
\* repeats what is pinned or nothing is to stay.
LatestStays ==
  \A o \in obs :
    o \in Unpinned(o.entity) /\ (\A r \in Unpinned(o.entity) : ~Newer(r, o)) =>
      \/ \E r \in obs' : SameMemory(o, r)
      \/ \E p \in Processes : At(p, "overflow") /\ op[p].keep = 0
=============================================================================
