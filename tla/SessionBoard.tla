---------------------------- MODULE SessionBoard ----------------------------
(***************************************************************************)
(* The board of ecc2: a card per session, in a column for its state, a row *)
(* for what it works on and a place in the stack of those that share both. *)
(* Whoever changes a session, or its messages, refreshes the whole board   *)
(* afterwards, and a dashboard does so with every tick.                    *)
(*                                                                         *)
(* A refresh reads the sessions once and then writes card after card, each *)
(* write committed on its own, so that refreshes of several processes      *)
(* overlap.  Labels are numbers in the order of the rows; the lane stands  *)
(* for the column, progress and status detail; motion notes, activity notes*)
(* and conflict signals are left out.                                      *)
(***************************************************************************)
EXTENDS Naturals, FiniteSets, SequencesExt

CONSTANTS
  Sessions,
  Lanes, Inbox,
  Closed,      \* lanes whose sessions may be deleted
  Labels,      \* numbers: the issue, feature, project or branch, in order
  None,
  Dashboards,
  Writers,     \* processes that change something
  MaxChanges   \* bound: changes

Participants == Dashboards \cup Writers

VARIABLES
  listing, \* the sessions, the most recently updated first
  row,     \* what a session's row says: lane and label
  unread,  \* task handoffs it has not read
  cards,   \* the session_board table
  op,      \* what each process is doing
  changes

vars == <<listing, row, unread, cards, op, changes>>

Idle == [at |-> "idle", listing |-> <<>>, row |-> <<>>, next |-> 1]

Known == {listing[i] : i \in DOMAIN listing}

Init ==
  /\ listing = <<>> /\ changes = 0
  /\ row \in [Sessions -> [lane : {Inbox}, label : Labels]]
  /\ unread = [s \in Sessions |-> 0]
  /\ cards = [s \in Sessions |-> None]
  /\ op = [p \in Participants |-> Idle]

At(p, l) == op[p].at = l
Go(p, o) == op' = [op EXCEPT ![p] = o]

(***************************************************************************)
(* The statement of a change; the refresh that follows is a step of its    *)
(* own.                                                                    *)
(***************************************************************************)
Change(p) ==
  /\ p \in Writers /\ At(p, "idle") /\ changes < MaxChanges
  /\ changes' = changes + 1
  /\ Go(p, [Idle EXCEPT !.at = "list"])
  /\ UNCHANGED cards

Place(s) == CHOOSE i \in DOMAIN listing : listing[i] = s
Others(s) == IF s \in Known THEN RemoveAt(listing, Place(s)) ELSE listing

ToFront(s) == <<s>> \o Others(s)

\* insert_session; a session id is used once.
InsertSession(p, s) ==
  /\ Change(p) /\ s \notin Known /\ row[s].lane = Inbox
  /\ listing' = ToFront(s)
  /\ UNCHANGED <<row, unread>>

\* update_state and its like.
UpdateState(p, s, l) ==
  /\ Change(p) /\ s \in Known /\ row[s].lane # l /\ l # Inbox
  /\ row' = [row EXCEPT ![s].lane = l] /\ listing' = ToFront(s)
  /\ UNCHANGED unread

\* A session gets its worktree, or loses it: the label may be the branch.
UpdateWorktree(p, s, b) ==
  /\ Change(p) /\ s \in Known /\ row[s].label # b
  /\ row' = [row EXCEPT ![s].label = b] /\ listing' = ToFront(s)
  /\ UNCHANGED unread

SendHandoff(p, s) ==
  /\ Change(p) /\ s \in Known
  /\ unread' = [unread EXCEPT ![s] = @ + 1]
  /\ UNCHANGED <<listing, row>>

MarkRead(p, s) ==
  /\ Change(p) /\ s \in Known /\ unread[s] > 0
  /\ unread' = [unread EXCEPT ![s] = 0]
  /\ UNCHANGED <<listing, row>>

\* The card goes with its session, by the foreign key.
DeleteSession(p, s) ==
  /\ p \in Writers /\ At(p, "idle") /\ changes < MaxChanges
  /\ s \in Known /\ row[s].lane \in Closed
  /\ changes' = changes + 1
  /\ listing' = Others(s) /\ cards' = [cards EXCEPT ![s] = None]
  /\ unread' = [unread EXCEPT ![s] = 0]
  /\ Go(p, [Idle EXCEPT !.at = "list"])
  /\ UNCHANGED row

(***************************************************************************)
(* refresh_session_board_meta.                                             *)
(***************************************************************************)
Tick(d) ==
  /\ d \in Dashboards /\ At(d, "idle")
  /\ Go(d, [Idle EXCEPT !.at = "list"])
  /\ UNCHANGED <<listing, row, unread, cards, changes>>

ListSessions(p) ==
  /\ At(p, "list")
  /\ Go(p, [at |-> "write", listing |-> listing, row |-> row, next |-> 1])
  /\ UNCHANGED <<listing, row, unread, cards, changes>>

\* derive_board_meta_map, for the n-th of the sessions read.
RowIndex(o, n) ==
  Cardinality({o.row[o.listing[i]].label : i \in DOMAIN o.listing}
                \cap {b \in Labels : b < o.row[o.listing[n]].label})

StackIndex(o, n) ==
  Cardinality({i \in 1..(n - 1) : o.row[o.listing[i]] = o.row[o.listing[n]]})

Card(o, n) ==
  LET s == o.listing[n] IN
  [lane |-> o.row[s].lane, label |-> o.row[s].label,
   cell |-> <<RowIndex(o, n), StackIndex(o, n)>>, backlog |-> unread[s]]

\* The backlog is counted now, the rest was derived from what was read.
WriteCard(p) ==
  LET o == op[p]  s == o.listing[o.next] IN
  /\ At(p, "write") /\ o.next <= Len(o.listing) /\ s \in Known
  /\ cards' = [cards EXCEPT ![s] = Card(o, o.next)]
  /\ Go(p, [o EXCEPT !.next = @ + 1])
  /\ UNCHANGED <<listing, row, unread, changes>>

\* The session was deleted since: the foreign key ends the refresh.
RefuseCard(p) ==
  LET o == op[p] IN
  /\ At(p, "write") /\ o.next <= Len(o.listing) /\ o.listing[o.next] \notin Known
  /\ Go(p, Idle)
  /\ UNCHANGED <<listing, row, unread, cards, changes>>

EndRefresh(p) ==
  /\ At(p, "write") /\ op[p].next > Len(op[p].listing)
  /\ Go(p, Idle)
  /\ UNCHANGED <<listing, row, unread, cards, changes>>

\* A writer is killed, or finds the database locked: its change stands.
BreakOff(p) ==
  /\ p \in Writers /\ ~At(p, "idle")
  /\ Go(p, Idle)
  /\ UNCHANGED <<listing, row, unread, cards, changes>>

Refresh(p) == ListSessions(p) \/ WriteCard(p) \/ RefuseCard(p) \/ EndRefresh(p)

Next ==
  \/ \E p \in Writers, s \in Sessions :
       \/ InsertSession(p, s) \/ SendHandoff(p, s) \/ MarkRead(p, s) \/ DeleteSession(p, s)
       \/ \E l \in Lanes : UpdateState(p, s, l)
       \/ \E b \in Labels : UpdateWorktree(p, s, b)
  \/ \E p \in Participants : Tick(p) \/ Refresh(p) \/ BreakOff(p)

Spec == Init /\ [][Next]_vars

\* A dashboard ticks on, and who has begun a refresh goes on with it or is killed.
FairSpec ==
  /\ Spec
  /\ \A d \in Dashboards : WF_vars(Tick(d))
  /\ \A p \in Participants : WF_vars(Refresh(p))

-----------------------------------------------------------------------------
Row == [lane : Lanes, label : Labels]
Index == 0..Cardinality(Sessions)

TypeOK ==
  /\ listing \in Seq(Sessions) /\ Len(listing) = Cardinality(Known)
  /\ row \in [Sessions -> Row]
  /\ unread \in [Sessions -> 0..MaxChanges]
  /\ cards \in [Sessions -> {None} \cup
       [lane : Lanes, label : Labels, cell : Index \X Index, backlog : 0..MaxChanges]]
  /\ changes \in 0..MaxChanges
  /\ \A p \in Participants : op[p].at \in {"idle", "list", "write"}

\* What the board comes to, whatever refreshes have overwritten one another and
\* whichever broke off halfway: it shows the sessions as they are, and no card hides
\* another.
BoardMirrors ==
  \A s \in Known :
    /\ cards[s] # None
    /\ cards[s].lane = row[s].lane /\ cards[s].label = row[s].label
    /\ cards[s].backlog = unread[s]
    /\ \A r \in Known \ {s} :
         cards[r] # None =>
           cards[s].lane # cards[r].lane \/ cards[s].cell # cards[r].cell
=============================================================================
