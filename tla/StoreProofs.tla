---------------------------- MODULE StoreProofs ----------------------------
(***************************************************************************)
(* The database of ecc2, for any number of processes, sessions, files and  *)
(* entities: each part has the invariant of its own module, and the parts  *)
(* share no table, so that a step of one leaves the others' as they were.  *)
(***************************************************************************)
EXTENDS Store, FiniteSetTheorems, TLAPS

(***************************************************************************)
(* SchemaMigration: over any legacy and any columns, no process uses the   *)
(* database before it is up to date.                                       *)
(***************************************************************************)
\* What a process has passed, nobody takes away.
PassedArePresent ==
  \A p \in Processes :
    /\ at[p] \in {"create", "index"} => col[p] = 1
    /\ at[p] \in {"look", "add", "backfill"} =>
         \A i \in 1..(col[p] - 1) : Columns[i] \in columns
    /\ at[p] \in {"add", "backfill"} => col[p] <= Len(Columns)
    /\ at[p] = "backfill" => Columns[col[p]] \in columns
    /\ at[p] \in {"list", "open"} => Range(Columns) \subseteq columns

\* Then nobody adds the column whose values may be missing.
OpenWithoutNulls == \A p \in Processes : at[p] = "open" => ~nulls

UsableInv == TypeOK /\ PassedArePresent /\ OpenWithoutNulls

LEMMA ColumnsFacts ==
  /\ Len(Columns) \in Nat
  /\ \A i \in 1..Len(Columns) : Columns[i] \in Range(Columns)
  /\ \A c \in Range(Columns) : \E i \in 1..Len(Columns) : c = Columns[i]
  /\ Heartbeat \in Range(Columns)
BY SchemaAssumption DEF Range

LEMMA UsableInit == Init => UsableInv
<1> SUFFICES ASSUME Init PROVE UsableInv
  OBVIOUS
<1>1. TypeOK
  <2>1. tables \subseteq Tables /\ columns \subseteq Range(Columns) /\ rows \in BOOLEAN
    BY SchemaAssumption DEF Init
  <2>2. \A p \in Processes : at[p] = "closed" /\ col[p] = 1
    BY DEF Init
  <2>3. 1 \in 1..(Len(Columns) + 1)
    BY ColumnsFacts
  <2>4. /\ at \in [Processes -> {"closed", "create", "index", "look", "add", "backfill",
                                 "list", "open"}]
        /\ col \in [Processes -> 1..(Len(Columns) + 1)]
    BY <2>3 DEF Init
  <2>5. nulls \in BOOLEAN /\ cut \in {"nothing", "opening", "backfill"}
    BY DEF Init
  <2>6. QED
    BY <2>1, <2>4, <2>5 DEF TypeOK
<1>2. PassedArePresent /\ OpenWithoutNulls
  BY DEF Init, PassedArePresent, OpenWithoutNulls
<1>3. QED
  BY <1>1, <1>2 DEF UsableInv

Others(p) == \A q \in Processes : q # p => at'[q] = at[q] /\ col'[q] = col[q]

\* A step that moves one process and takes no column away: what is left to show is
\* about that process.
LEMMA OneMoves ==
  ASSUME UsableInv, NEW p \in Processes, Others(p),
         columns \subseteq columns', nulls' = nulls \/ nulls' = FALSE,
         at'[p] \in {"create", "index"} => col'[p] = 1,
         at'[p] \in {"look", "add", "backfill"} =>
           \A i \in 1..(col'[p] - 1) : Columns[i] \in columns',
         at'[p] \in {"add", "backfill"} => col'[p] <= Len(Columns),
         at'[p] = "backfill" => Columns[col'[p]] \in columns',
         at'[p] \in {"list", "open"} => Range(Columns) \subseteq columns',
         at'[p] = "open" => ~nulls'
  PROVE  PassedArePresent' /\ OpenWithoutNulls'
<1>1. PassedArePresent'
  <2> SUFFICES ASSUME NEW q \in Processes
               PROVE  /\ at'[q] \in {"create", "index"} => col'[q] = 1
                      /\ at'[q] \in {"look", "add", "backfill"} =>
                           \A i \in 1..(col'[q] - 1) : Columns[i] \in columns'
                      /\ at'[q] \in {"add", "backfill"} => col'[q] <= Len(Columns)
                      /\ at'[q] = "backfill" => Columns[col'[q]] \in columns'
                      /\ at'[q] \in {"list", "open"} => Range(Columns) \subseteq columns'
    BY DEF PassedArePresent
  <2>1. CASE q = p
    BY <2>1
  <2>2. CASE q # p
    BY <2>2 DEF Others, UsableInv, PassedArePresent
  <2>3. QED
    BY <2>1, <2>2
<1>2. OpenWithoutNulls'
  BY DEF Others, UsableInv, OpenWithoutNulls
<1>3. QED
  BY <1>1, <1>2

LEMMA GoMoves ==
  ASSUME UsableInv, NEW p \in Processes, NEW l, Go(p, l)
  PROVE  Others(p) /\ at'[p] = l /\ col'[p] = col[p]
BY DEF Go, Others, UsableInv, TypeOK

LEMMA NextColumnMoves ==
  ASSUME UsableInv, NEW p \in Processes, NextColumn(p)
  PROVE  Others(p) /\ at'[p] = "look" /\ col'[p] = col[p] + 1
BY DEF NextColumn, Others, UsableInv, TypeOK

LEMMA ColIsNat ==
  ASSUME UsableInv, NEW p \in Processes
  PROVE  col[p] \in Nat /\ 1 <= col[p] /\ col[p] <= Len(Columns) + 1
BY ColumnsFacts DEF UsableInv, TypeOK

LEMMA TypeStep == TypeOK /\ PassedArePresent /\ [Next]_vars => TypeOK'
<1> SUFFICES ASSUME TypeOK, PassedArePresent, [Next]_vars PROVE TypeOK'
  OBVIOUS
<1> DEFINE Doings == {"closed", "create", "index", "look", "add", "backfill",
                      "list", "open"}
<1>0. Len(Columns) \in Nat
  BY ColumnsFacts
<1>go. ASSUME NEW p \in Processes, NEW l \in Doings, Go(p, l)
       PROVE  at' \in [Processes -> Doings] /\ col' \in [Processes -> 1..(Len(Columns) + 1)]
  BY <1>go DEF Go, TypeOK
<1>next. ASSUME NEW p \in Processes, col[p] <= Len(Columns), NextColumn(p)
         PROVE  at' \in [Processes -> Doings] /\ col' \in [Processes -> 1..(Len(Columns) + 1)]
  <2>1. col[p] + 1 \in 1..(Len(Columns) + 1)
    BY <1>0, <1>next DEF TypeOK
  <2>2. QED
    BY <2>1, <1>next DEF NextColumn, TypeOK
<1>1. ASSUME NEW p \in Processes, Open(p) PROVE TypeOK'
  BY <1>1, <1>0 DEF Open, TypeOK
<1>2. ASSUME NEW p \in Processes, CreateTable(p) PROVE TypeOK'
  <2>1. CASE Go(p, "index") /\ UNCHANGED <<tables, columns>>
    BY <1>2, <1>go, <2>1 DEF CreateTable, TypeOK
  <2>2. CASE UNCHANGED <<at, col>>
    <3>1. tables' \subseteq Tables /\ columns' \subseteq Range(Columns)
      BY <1>2 DEF CreateTable, TypeOK
    <3>2. QED
      BY <1>2, <2>2, <3>1 DEF CreateTable, TypeOK
  <2>3. QED
    BY <1>2, <2>1, <2>2 DEF CreateTable
<1>3. ASSUME NEW p \in Processes, CreateIndexes(p) PROVE TypeOK'
  BY <1>3, <1>go DEF CreateIndexes, TypeOK
<1>4. ASSUME NEW p \in Processes, HasColumn(p) PROVE TypeOK'
  <2>1. col[p] \in Nat
    BY <1>0 DEF TypeOK
  <2>2. CASE col[p] > Len(Columns)
    BY <1>0, <2>1, <2>2, <1>4, <1>go DEF HasColumn, TypeOK
  <2>3. CASE col[p] <= Len(Columns) /\ Columns[col[p]] \in columns
    <3>1. ~(col[p] > Len(Columns))
      BY <1>0, <2>1, <2>3
    <3>2. NextColumn(p)
      BY <3>1, <2>3, <1>4 DEF HasColumn
    <3>3. QED
      BY <3>2, <2>3, <1>4, <1>next DEF HasColumn, TypeOK
  <2>4. CASE col[p] <= Len(Columns) /\ Columns[col[p]] \notin columns
    <3>1. ~(col[p] > Len(Columns))
      BY <1>0, <2>1, <2>4
    <3>2. Go(p, "add")
      BY <3>1, <2>4, <1>4 DEF HasColumn
    <3>3. QED
      BY <3>2, <1>4, <1>go DEF HasColumn, TypeOK
  <2>5. QED
    BY <1>0, <2>1, <2>2, <2>3, <2>4
<1>5. ASSUME NEW p \in Processes, AddColumn(p) PROVE TypeOK'
  <2>1. col[p] <= Len(Columns) /\ col[p] \in 1..Len(Columns)
    BY <1>0, <1>5 DEF AddColumn, PassedArePresent, TypeOK
  <2>2. Columns[col[p]] \in Range(Columns)
    BY <2>1, ColumnsFacts
  <2>3. at' \in [Processes -> Doings] /\ col' \in [Processes -> 1..(Len(Columns) + 1)]
    BY <1>5, <2>1, <1>go, <1>next DEF AddColumn
  <2>4. columns' \subseteq Range(Columns)
    BY <1>5, <2>2 DEF AddColumn, TypeOK
  <2>5. nulls' \in BOOLEAN
    BY <1>5 DEF AddColumn, TypeOK
  <2>6. QED
    BY <1>5, <2>3, <2>4, <2>5 DEF AddColumn, TypeOK
<1>6. ASSUME NEW p \in Processes, Backfill(p) PROVE TypeOK'
  <2>1. col[p] <= Len(Columns)
    BY <1>6 DEF Backfill, PassedArePresent
  <2>2. QED
    BY <1>6, <2>1, <1>next DEF Backfill, TypeOK
<1>7. ASSUME NEW p \in Processes, ListSessions(p) PROVE TypeOK'
  BY <1>7, <1>go DEF ListSessions, TypeOK
<1>8. ASSUME NEW p \in Processes, Work(p) PROVE TypeOK'
  <2>1. CASE Go(p, "closed") /\ rows' = rows
    BY <1>8, <1>go, <2>1 DEF Work, TypeOK
  <2>2. CASE rows' = TRUE /\ UNCHANGED <<at, col>>
    BY <1>8, <2>2 DEF Work, TypeOK
  <2>3. QED
    BY <1>8, <2>1, <2>2 DEF Work
<1>9. ASSUME NEW p \in Processes, Break(p) PROVE TypeOK'
  BY <1>9, <1>go DEF Break, TypeOK
<1>10. CASE UNCHANGED vars
  BY <1>10 DEF vars, TypeOK
<1>11. QED
  BY <1>1, <1>2, <1>3, <1>4, <1>5, <1>6, <1>7, <1>8, <1>9, <1>10 DEF Next, Step

LEMMA UsableStep == UsableInv /\ [Next]_vars => UsableInv'
<1> SUFFICES ASSUME UsableInv, [Next]_vars PROVE PassedArePresent' /\ OpenWithoutNulls'
  BY TypeStep DEF UsableInv
<1>0. Len(Columns) \in Nat
  BY ColumnsFacts
<1>1. ASSUME NEW p \in Processes, Open(p) PROVE PassedArePresent' /\ OpenWithoutNulls'
  <2>1. Others(p) /\ at'[p] = "create" /\ col'[p] = 1
    BY <1>1 DEF Open, Others, UsableInv, TypeOK
  <2>2. columns' = columns /\ nulls' = nulls
    BY <1>1 DEF Open
  <2>3. QED
    BY <2>1, <2>2, OneMoves
<1>2. ASSUME NEW p \in Processes, CreateTable(p) PROVE PassedArePresent' /\ OpenWithoutNulls'
  <2>1. columns \subseteq columns' /\ nulls' = nulls
    BY <1>2 DEF CreateTable
  <2>2. CASE Go(p, "index")
    <3>1. col[p] = 1
      BY <1>2 DEF CreateTable, UsableInv, PassedArePresent
    <3>2. QED
      BY <2>1, <2>2, <3>1, GoMoves, OneMoves
  <2>3. CASE UNCHANGED <<at, col>>
    BY <2>1, <2>3 DEF UsableInv, PassedArePresent, OpenWithoutNulls
  <2>4. QED
    BY <1>2, <2>2, <2>3 DEF CreateTable
<1>3. ASSUME NEW p \in Processes, CreateIndexes(p)
      PROVE  PassedArePresent' /\ OpenWithoutNulls'
  <2>1. columns' = columns /\ nulls' = nulls
    BY <1>3 DEF CreateIndexes
  <2>2. CASE Go(p, "closed")
    BY <2>1, <2>2, GoMoves, OneMoves
  <2>3. CASE Go(p, "look")
    <3>1. col[p] = 1
      BY <1>3 DEF CreateIndexes, UsableInv, PassedArePresent
    <3>2. Others(p) /\ at'[p] = "look" /\ col'[p] = 1
      BY <2>3, <3>1, GoMoves
    <3>3. \A i \in 1..(col'[p] - 1) : Columns[i] \in columns'
      BY <3>2
    <3>4. QED
      BY <2>1, <3>2, <3>3, OneMoves
  <2>4. QED
    BY <1>3, <2>2, <2>3 DEF CreateIndexes
<1>4. ASSUME NEW p \in Processes, HasColumn(p) PROVE PassedArePresent' /\ OpenWithoutNulls'
  <2>1. /\ columns' = columns /\ nulls' = nulls
        /\ \A i \in 1..(col[p] - 1) : Columns[i] \in columns
    BY <1>4 DEF HasColumn, UsableInv, PassedArePresent
  <2>2. CASE col[p] > Len(Columns)
    <3>1. Go(p, "list")
      BY <1>0, <1>4, <2>2, ColIsNat DEF HasColumn
    <3>2. \A i \in 1..Len(Columns) : i \in 1..(col[p] - 1)
      BY <1>0, <2>2, ColIsNat
    <3>3. Range(Columns) \subseteq columns
      BY <2>1, <3>2, ColumnsFacts
    <3>4. QED
      BY <2>1, <3>1, <3>3, GoMoves, OneMoves
  <2>3. CASE col[p] <= Len(Columns) /\ Columns[col[p]] \in columns
    <3>1. NextColumn(p)
      BY <1>0, <1>4, <2>3, ColIsNat DEF HasColumn
    <3>2. Others(p) /\ at'[p] = "look" /\ col'[p] = col[p] + 1
      BY <3>1, NextColumnMoves
    <3>3. \A i \in 1..(col'[p] - 1) : i = col[p] \/ i \in 1..(col[p] - 1)
      BY <1>0, <3>2, ColIsNat
    <3>4. \A i \in 1..(col'[p] - 1) : Columns[i] \in columns'
      BY <2>1, <2>3, <3>3
    <3>5. QED
      BY <2>1, <3>2, <3>4, OneMoves
  <2>4. CASE col[p] <= Len(Columns) /\ Columns[col[p]] \notin columns
    <3>1. Go(p, "add")
      BY <1>0, <1>4, <2>4, ColIsNat DEF HasColumn
    <3>2. QED
      BY <2>1, <2>4, <3>1, GoMoves, OneMoves
  <2>5. QED
    BY <1>0, <2>2, <2>3, <2>4, ColIsNat
<1>5. ASSUME NEW p \in Processes, AddColumn(p) PROVE PassedArePresent' /\ OpenWithoutNulls'
  <2>1. /\ at[p] = "add" /\ col[p] <= Len(Columns)
        /\ \A i \in 1..(col[p] - 1) : Columns[i] \in columns
    BY <1>5 DEF AddColumn, UsableInv, PassedArePresent
  <2>2. CASE Columns[col[p]] \in columns
    <3>1. Go(p, "closed") /\ UNCHANGED <<columns, nulls>>
      BY <1>5, <2>2 DEF AddColumn
    <3>2. QED
      BY <3>1, GoMoves, OneMoves
  <2>3. CASE Columns[col[p]] \notin columns
    <3> DEFINE c == Columns[col[p]]
    <3>1. /\ columns' = columns \cup {c}
          /\ nulls' = (nulls \/ (c = Heartbeat /\ rows))
          /\ IF c = Heartbeat THEN Go(p, "backfill") ELSE NextColumn(p)
      BY <1>5, <2>3 DEF AddColumn
    <3>2. c \in Range(Columns)
      BY <1>0, <2>1, ColIsNat, ColumnsFacts
    <3> HIDE DEF c
    <3>3. \A q \in Processes : at[q] # "open"
      <4> SUFFICES ASSUME NEW q \in Processes, at[q] = "open" PROVE FALSE
        OBVIOUS
      <4>1. Range(Columns) \subseteq columns
        BY DEF UsableInv, PassedArePresent
      <4>2. QED
        BY <2>3, <3>2, <4>1 DEF c
    <3>4. ASSUME col'[p] = col[p] + 1
          PROVE  \A i \in 1..(col'[p] - 1) : Columns[i] \in columns'
      <4>1. \A i \in 1..(col'[p] - 1) : i = col[p] \/ i \in 1..(col[p] - 1)
        BY <1>0, <3>4, ColIsNat
      <4>2. QED
        BY <2>1, <3>1, <4>1 DEF c
    <3>5. \A i \in 1..(col[p] - 1) : Columns[i] \in columns'
      BY <2>1, <3>1
    <3>6. /\ Others(p)
          /\ \/ at'[p] = "backfill" /\ col'[p] = col[p]
             \/ at'[p] = "look" /\ col'[p] = col[p] + 1
      BY <3>1, GoMoves, NextColumnMoves
    <3>7. Columns[col[p]] \in columns'
      BY <3>1 DEF c
    <3>8. PassedArePresent'
      <4> SUFFICES ASSUME NEW q \in Processes
                   PROVE  /\ at'[q] \in {"create", "index"} => col'[q] = 1
                          /\ at'[q] \in {"look", "add", "backfill"} =>
                               \A i \in 1..(col'[q] - 1) : Columns[i] \in columns'
                          /\ at'[q] \in {"add", "backfill"} => col'[q] <= Len(Columns)
                          /\ at'[q] = "backfill" => Columns[col'[q]] \in columns'
                          /\ at'[q] \in {"list", "open"} => Range(Columns) \subseteq columns'
        BY DEF PassedArePresent
      <4>1. CASE q = p
        <5>1. CASE at'[p] = "backfill" /\ col'[p] = col[p]
          BY <2>1, <3>5, <3>7, <4>1, <5>1
        <5>2. CASE at'[p] = "look" /\ col'[p] = col[p] + 1
          <6>1. \A i \in 1..(col'[q] - 1) : Columns[i] \in columns'
            BY <3>4, <4>1, <5>2
          <6>2. at'[q] = "look"
            BY <4>1, <5>2
          <6>3. QED
            BY <6>1, <6>2
        <5>3. QED
          BY <3>6, <5>1, <5>2
      <4>2. CASE q # p
        BY <3>1, <3>6, <4>2 DEF Others, UsableInv, PassedArePresent
      <4>3. QED
        BY <4>1, <4>2
    <3>9. OpenWithoutNulls'
      BY <3>3, <3>6 DEF Others, OpenWithoutNulls
    <3>10. QED
      BY <3>8, <3>9
  <2>4. QED
    BY <2>2, <2>3
<1>6. ASSUME NEW p \in Processes, Backfill(p) PROVE PassedArePresent' /\ OpenWithoutNulls'
  <2>1. /\ NextColumn(p) /\ columns' = columns /\ nulls' = FALSE
        /\ \A i \in 1..(col[p] - 1) : Columns[i] \in columns
        /\ Columns[col[p]] \in columns
    BY <1>6 DEF Backfill, UsableInv, PassedArePresent
  <2>2. Others(p) /\ at'[p] = "look" /\ col'[p] = col[p] + 1
    BY <2>1, NextColumnMoves
  <2>3. \A i \in 1..(col'[p] - 1) : i = col[p] \/ i \in 1..(col[p] - 1)
    BY <1>0, <2>2, ColIsNat
  <2>4. \A i \in 1..(col'[p] - 1) : Columns[i] \in columns'
    BY <2>1, <2>3
  <2>5. QED
    BY <2>1, <2>2, <2>4, OneMoves
<1>7. ASSUME NEW p \in Processes, ListSessions(p)
      PROVE  PassedArePresent' /\ OpenWithoutNulls'
  <2>1. /\ columns' = columns /\ nulls' = nulls /\ Range(Columns) \subseteq columns
        /\ nulls \in BOOLEAN
    BY <1>7 DEF ListSessions, UsableInv, PassedArePresent, TypeOK
  <2>2. CASE nulls
    BY <1>7, <2>1, <2>2, GoMoves, OneMoves DEF ListSessions
  <2>3. CASE ~nulls
    BY <1>7, <2>1, <2>3, GoMoves, OneMoves DEF ListSessions
  <2>4. QED
    BY <2>2, <2>3
<1>8. ASSUME NEW p \in Processes, Work(p) PROVE PassedArePresent' /\ OpenWithoutNulls'
  <2>1. columns' = columns /\ nulls' = nulls
    BY <1>8 DEF Work
  <2>2. CASE Go(p, "closed")
    BY <2>1, <2>2, GoMoves, OneMoves
  <2>3. CASE UNCHANGED <<at, col>>
    BY <2>1, <2>3 DEF UsableInv, PassedArePresent, OpenWithoutNulls
  <2>4. QED
    BY <1>8, <2>2, <2>3 DEF Work
<1>9. ASSUME NEW p \in Processes, Break(p) PROVE PassedArePresent' /\ OpenWithoutNulls'
  <2>1. Go(p, "closed") /\ columns' = columns /\ nulls' = nulls
    BY <1>9 DEF Break
  <2>2. QED
    BY <2>1, GoMoves, OneMoves
<1>10. CASE UNCHANGED vars
  BY <1>10 DEF vars, UsableInv, PassedArePresent, OpenWithoutNulls
<1>11. QED
  BY <1>1, <1>2, <1>3, <1>4, <1>5, <1>6, <1>7, <1>8, <1>9, <1>10 DEF Next, Step

\* The variables of the migration keep their types.
THEOREM SchemaTypesKept == Spec => []TypeOK
<1>1. UsableInv => TypeOK
  BY DEF UsableInv
<1>2. QED
  BY UsableInit, UsableStep, <1>1, PTL DEF Spec

\* Whoever gets the database open finds every column there and every session
\* readable, whatever other processes were doing to it and wherever they broke off.
THEOREM OpenedIsUsable == Spec => []OpenedMeansUsable
<1>1. UsableInv => OpenedMeansUsable
  BY DEF UsableInv, PassedArePresent, OpenWithoutNulls, OpenedMeansUsable
<1>2. QED
  BY UsableInit, UsableStep, <1>1, PTL DEF Spec

-----------------------------------------------------------------------------
\* A step of a process that is not about to fill in heartbeats leaves it to the one
\* that is.
LEMMA FillingGoesOn ==
  ASSUME HeartbeatsAreFilled, NEW p \in Processes, at[p] # "backfill",
         \A q \in Processes : q # p => at'[q] = at[q],
         nulls' = nulls, cut' = cut
  PROVE  HeartbeatsAreFilled'
BY DEF HeartbeatsAreFilled

LEMMA FilledStep == TypeOK /\ HeartbeatsAreFilled /\ [Next]_vars => HeartbeatsAreFilled'
<1> SUFFICES ASSUME TypeOK, HeartbeatsAreFilled, [Next]_vars PROVE HeartbeatsAreFilled'
  OBVIOUS
<1>go. ASSUME NEW p \in Processes, NEW l, Go(p, l)
       PROVE  at'[p] = l /\ \A q \in Processes : q # p => at'[q] = at[q]
  BY <1>go DEF Go, TypeOK
<1>next. ASSUME NEW p \in Processes, NextColumn(p)
         PROVE  \A q \in Processes : q # p => at'[q] = at[q]
  BY <1>next DEF NextColumn, TypeOK
<1>1. ASSUME NEW p \in Processes, Open(p) PROVE HeartbeatsAreFilled'
  <2>1. \A q \in Processes : q # p => at'[q] = at[q]
    BY <1>1 DEF Open, TypeOK
  <2>2. QED
    BY <1>1, <2>1, FillingGoesOn DEF Open
<1>2. ASSUME NEW p \in Processes, CreateTable(p) PROVE HeartbeatsAreFilled'
  <2>1. \A q \in Processes : q # p => at'[q] = at[q]
    BY <1>2, <1>go DEF CreateTable
  <2>2. QED
    BY <1>2, <2>1, FillingGoesOn DEF CreateTable
<1>3. ASSUME NEW p \in Processes, CreateIndexes(p) PROVE HeartbeatsAreFilled'
  BY <1>3, <1>go, FillingGoesOn DEF CreateIndexes
<1>4. ASSUME NEW p \in Processes, HasColumn(p) PROVE HeartbeatsAreFilled'
  <2>1. \E l : Go(p, l) \/ NextColumn(p)
    BY <1>4 DEF HasColumn
  <2>2. QED
    BY <1>4, <1>go, <1>next, <2>1, FillingGoesOn DEF HasColumn
<1>5. ASSUME NEW p \in Processes, AddColumn(p) PROVE HeartbeatsAreFilled'
  <2> DEFINE c == Columns[col[p]]
  <2>1. CASE c \in columns
    BY <1>5, <1>go, <2>1, FillingGoesOn DEF AddColumn
  <2>2. CASE c \notin columns /\ c = Heartbeat
    \* Whoever adds the column is the one who is to fill it in.
    <3>1. Go(p, "backfill")
      BY <1>5, <2>2 DEF AddColumn
    <3>2. QED
      BY <1>go, <3>1 DEF HeartbeatsAreFilled
  <2>3. CASE c \notin columns /\ c # Heartbeat
    <3>1. nulls' = nulls /\ cut' = cut /\ NextColumn(p) /\ at[p] = "add"
      BY <1>5, <2>3 DEF AddColumn, TypeOK
    <3>2. QED
      BY <1>next, <3>1, FillingGoesOn
  <2>4. QED
    BY <2>1, <2>2, <2>3
<1>6. ASSUME NEW p \in Processes, Backfill(p) PROVE HeartbeatsAreFilled'
  BY <1>6 DEF Backfill, HeartbeatsAreFilled
<1>7. ASSUME NEW p \in Processes, ListSessions(p) PROVE HeartbeatsAreFilled'
  BY <1>7, <1>go, FillingGoesOn DEF ListSessions
<1>8. ASSUME NEW p \in Processes, Work(p) PROVE HeartbeatsAreFilled'
  <2>1. \A q \in Processes : q # p => at'[q] = at[q]
    BY <1>8, <1>go DEF Work
  <2>2. QED
    BY <1>8, <2>1, FillingGoesOn DEF Work
<1>9. ASSUME NEW p \in Processes, Break(p) PROVE HeartbeatsAreFilled'
  <2>1. CASE at[p] = "backfill"
    BY <1>9, <2>1 DEF Break, HeartbeatsAreFilled
  <2>2. CASE at[p] # "backfill"
    <3>1. nulls' = nulls /\ (cut = "backfill" => cut' = "backfill")
      BY <1>9, <2>2 DEF Break
    <3>2. \A q \in Processes : q # p => at'[q] = at[q]
      BY <1>9, <1>go DEF Break
    <3>3. QED
      BY <2>2, <3>1, <3>2 DEF HeartbeatsAreFilled
  <2>3. QED
    BY <2>1, <2>2
<1>10. CASE UNCHANGED vars
  BY <1>10 DEF vars, HeartbeatsAreFilled
<1>11. QED
  BY <1>1, <1>2, <1>3, <1>4, <1>5, <1>6, <1>7, <1>8, <1>9, <1>10 DEF Next, Step

\* A session is without a heartbeat only while the process that added the column is
\* about to fill it in, or when that process was cut short just then.
THEOREM HeartbeatsFilled == Spec => []HeartbeatsAreFilled
<1>1. Init => HeartbeatsAreFilled
  BY DEF Init, HeartbeatsAreFilled
<1>2. QED
  BY <1>1, SchemaTypesKept, FilledStep, PTL DEF Spec

(***************************************************************************)
(* ContextMemory.                                                          *)
(***************************************************************************)
MemoryOp ==
  [at : {"idle", "insert", "dedupe", "overflow", "read", "failed"},
   new : Memory!Observation \cup {None}, over : SUBSET Entities,
   keep : Limits \cup {0, Retention}]

\* What is about to be inserted is compacted for its own entity.
InsertsItsOwn ==
  \A p \in Processes :
    adding[p].at = "insert" => /\ adding[p].new \in Memory!Observation
                               /\ adding[p].over = {adding[p].new.entity}
                               /\ adding[p].keep = Retention

\* The ids tell observations apart.
IdsAreUnique ==
  /\ \A o \in obs : o.id < ids
  /\ \A o, r \in obs : o.id = r.id => o = r

\* An observation is inserted for each that was begun, or is about to be.
Inserting == {p \in Processes : adding[p].at = "insert"}
InsertsAreCounted == IsFiniteSet(Inserting) /\ ids + Cardinality(Inserting) <= adds

\* A history that is too long is about to be cut to the retention or less.
Cuts(p, e) ==
  /\ adding[p].at \in {"dedupe", "overflow"}
  /\ e \in adding[p].over /\ adding[p].keep <= Retention

LongIsCut ==
  \A e \in Entities :
    \/ Cardinality(Memory!Unpinned(e)) <= Retention
    \/ e \in loose
    \/ \E p \in Processes : Cuts(p, e)

MemoryInv ==
  /\ Memory!TypeOK /\ InsertsItsOwn /\ InsertsAreCounted
  /\ IsFiniteSet(obs) /\ IdsAreUnique
  /\ Memory!NoRepeats /\ LongIsCut

\* The modules count as this one does.
LEMMA MemoryCounts == \A S : Memory!Cardinality(S) = Cardinality(S)
BY DEF Memory!Cardinality, Cardinality

LEMMA MemoryConstants ==
  Retention \in Nat /\ MaxAdds \in Nat /\ \A k \in Limits : k \in Nat
<1>1. Limits \subseteq Nat
  BY StoreAssumption
<1>2. \A k \in Limits : k \in Nat
  BY <1>1, Zenon
<1>3. QED
  BY <1>2, StoreAssumption

LEMMA ObservationFields ==
  ASSUME NEW o \in Memory!Observation
  PROVE  /\ o.entity \in Entities /\ o.text \in Texts /\ o.pinned \in BOOLEAN
         /\ o.at \in 0..MaxAdds /\ o.id \in 0..MaxAdds
BY DEF Memory!Observation

LEMMA MemoryTyped ==
  ASSUME Memory!TypeOK
  PROVE  /\ obs \subseteq Memory!Observation
         /\ adds \in 0..MaxAdds /\ ids \in 0..adds
         /\ adding \in [Processes -> MemoryOp]
         /\ torn \subseteq Entities /\ loose \subseteq Entities
BY DEF Memory!TypeOK, MemoryOp

LEMMA MemoryTypes ==
  ASSUME obs \subseteq Memory!Observation,
         adds \in 0..MaxAdds, ids \in 0..adds,
         adding \in [Processes -> MemoryOp],
         torn \subseteq Entities, loose \subseteq Entities
  PROVE  Memory!TypeOK
BY DEF Memory!TypeOK, MemoryOp

LEMMA MemoryStart == Memory!Init => MemoryInv
<1> SUFFICES ASSUME Memory!Init PROVE MemoryInv
  OBVIOUS
<1>1. /\ obs = {} /\ adds = 0 /\ ids = 0 /\ torn = {} /\ loose = {}
      /\ adding = [p \in Processes |-> Memory!Idle]
  BY DEF Memory!Init
<1>2. Memory!Idle \in MemoryOp /\ Memory!Idle.at = "idle"
  BY DEF Memory!Idle, MemoryOp
<1>3. Memory!TypeOK
  <2>1. adding \in [Processes -> MemoryOp]
    BY <1>1, <1>2
  <2>2. QED
    BY <1>1, <2>1, MemoryConstants, MemoryTypes
<1>4. Inserting = {}
  BY <1>1, <1>2 DEF Inserting
<1>5. InsertsItsOwn /\ InsertsAreCounted
  BY <1>1, <1>2, <1>4, FS_EmptySet DEF InsertsItsOwn, InsertsAreCounted
<1>6. IsFiniteSet(obs) /\ IdsAreUnique /\ Memory!NoRepeats
  BY <1>1, FS_EmptySet DEF IdsAreUnique, Memory!NoRepeats
<1>7. LongIsCut
  <2>1. \A e : Memory!Unpinned(e) = {}
    BY <1>1 DEF Memory!Unpinned
  <2>2. QED
    BY <2>1, FS_EmptySet, MemoryConstants DEF LongIsCut
<1>8. QED
  BY <1>3, <1>5, <1>6, <1>7 DEF MemoryInv

(***************************************************************************)
(* The order in which compaction keeps observations.                       *)
(***************************************************************************)
LEMMA NewerIsAnOrder ==
  ASSUME NEW o \in Memory!Observation, NEW r \in Memory!Observation
  PROVE  /\ ~Memory!Newer(o, o)
         /\ Memory!Newer(o, r) => ~Memory!Newer(r, o)
         /\ o.id # r.id => Memory!Newer(o, r) \/ Memory!Newer(r, o)
         /\ \A x \in Memory!Observation :
              Memory!Newer(o, r) /\ Memory!Newer(r, x) => Memory!Newer(o, x)
<1>1. \A x \in Memory!Observation : x.at \in Nat /\ x.id \in Nat
  BY MemoryConstants, ObservationFields
<1>2. QED
  BY <1>1 DEF Memory!Newer

LEMMA OutranksIsAnOrder ==
  ASSUME NEW o \in Memory!Observation, NEW r \in Memory!Observation
  PROVE  /\ ~Memory!Outranks(o, o)
         /\ \A x \in Memory!Observation :
              Memory!Outranks(o, r) /\ Memory!Outranks(r, x) => Memory!Outranks(o, x)
         /\ Memory!SameMemory(o, r) /\ o.id # r.id =>
              Memory!Outranks(o, r) \/ Memory!Outranks(r, o)
         /\ Memory!Outranks(o, r) => Memory!SameMemory(r, o) /\ (r.pinned => o.pinned)
<1>1. \A x \in Memory!Observation : x.pinned \in BOOLEAN
  BY ObservationFields
<1>2. o.pinned \in BOOLEAN /\ r.pinned \in BOOLEAN
  BY <1>1
<1>3. ~Memory!Outranks(o, o)
  BY NewerIsAnOrder, <1>2 DEF Memory!Outranks
<1>4. ASSUME NEW x \in Memory!Observation, Memory!Outranks(o, r), Memory!Outranks(r, x)
      PROVE  Memory!Outranks(o, x)
  <2>1. Memory!SameMemory(o, x)
    BY <1>4 DEF Memory!Outranks, Memory!SameMemory
  <2>2. Memory!Newer(o, r) /\ Memory!Newer(r, x) => Memory!Newer(o, x)
    BY <1>4, NewerIsAnOrder
  <2>3. QED
    BY <1>4, <2>1, <2>2, <1>1, <1>2 DEF Memory!Outranks
<1>5. ASSUME Memory!SameMemory(o, r), o.id # r.id
      PROVE  Memory!Outranks(o, r) \/ Memory!Outranks(r, o)
  <2>1. Memory!SameMemory(r, o)
    BY <1>5 DEF Memory!SameMemory
  <2>2. Memory!Newer(o, r) \/ Memory!Newer(r, o)
    BY <1>5, NewerIsAnOrder
  <2>3. QED
    BY <1>5, <2>1, <2>2, <1>2 DEF Memory!Outranks
<1>6. ASSUME Memory!Outranks(o, r)
      PROVE  Memory!SameMemory(r, o) /\ (r.pinned => o.pinned)
  BY <1>6, <1>2 DEF Memory!Outranks, Memory!SameMemory
<1>7. QED
  BY <1>3, <1>4, <1>5, <1>6

\* Of every memory one observation stays that nothing outranks.
LEMMA Survivor ==
  ASSUME NEW S, S \subseteq Memory!Observation, IsFiniteSet(S), NEW o \in S
  PROVE  \E r \in S : /\ r = o \/ Memory!Outranks(r, o)
                      /\ \A x \in S : ~Memory!Outranks(x, r)
<1> DEFINE Above(r) == {x \in S : Memory!Outranks(x, r)}
           C == {o} \cup Above(o)
           T == {Above(r) : r \in C}
           R == StrictSubsetOrdering(S)
<1>1. T \subseteq FiniteSubsetsOf(S)
  <2>1. \A r : Above(r) \in SUBSET S
    OBVIOUS
  <2>2. \A r : IsFiniteSet(Above(r))
    BY <2>1, FS_Subset
  <2>3. QED
    BY <2>1, <2>2 DEF FiniteSubsetsOf
<1>2. T # {}
  OBVIOUS
<1>3. PICK A \in T : \A B \in T : <<B, A>> \notin R
  <2> HIDE DEF T, R
  <2>1. IsWellFoundedOn(StrictSubsetOrdering(S), FiniteSubsetsOf(S))
    BY FS_StrictSubsetOrderingWellFounded
  <2>2. QED
    BY <1>1, <1>2, <2>1, WFMin DEF R
<1>4. PICK r \in C : A = Above(r)
  BY <1>3
<1>5. r \in S /\ (r = o \/ Memory!Outranks(r, o))
  BY <1>4
<1>6. ASSUME NEW x \in S, Memory!Outranks(x, r)
      PROVE  FALSE
  <2>1. x \in C
    <3>1. r = o => x \in Above(o)
      BY <1>6
    <3>2. Memory!Outranks(r, o) => Memory!Outranks(x, o)
      BY <1>5, <1>6, OutranksIsAnOrder
    <3>3. QED
      BY <1>5, <1>6, <3>1, <3>2
  <2>2. Above(x) \subseteq Above(r)
    <3>1. ASSUME NEW y \in S, Memory!Outranks(y, x)
          PROVE  Memory!Outranks(y, r)
      BY <1>5, <1>6, <3>1, OutranksIsAnOrder
    <3>2. QED
      BY <3>1
  <2>3. x \in Above(r) /\ x \notin Above(x)
    BY <1>6, OutranksIsAnOrder
  <2>4. <<Above(x), Above(r)>> \in R
    BY <2>2, <2>3 DEF StrictSubsetOrdering
  <2>5. Above(x) \in T
    BY <2>1
  <2>6. QED
    BY <1>3, <1>4, <2>4, <2>5
<1>7. QED
  BY <1>5, <1>6

\* Who is newer than one that is newer is newer: so ranks differ.
LEMMA RanksDiffer ==
  ASSUME NEW S, S \subseteq Memory!Observation, IsFiniteSet(S),
         NEW o \in S, NEW r \in S, Memory!Newer(o, r)
  PROVE  /\ Cardinality({x \in S : Memory!Newer(x, o)}) \in Nat
         /\ Cardinality({x \in S : Memory!Newer(x, r)}) \in Nat
         /\ Cardinality({x \in S : Memory!Newer(x, o)})
              < Cardinality({x \in S : Memory!Newer(x, r)})
<1> DEFINE A == {x \in S : Memory!Newer(x, o)}
           B == {x \in S : Memory!Newer(x, r)}
<1>1. A \subseteq B /\ B \in SUBSET S
  BY NewerIsAnOrder
<1>2. o \in B /\ o \notin A
  BY NewerIsAnOrder
<1>3. IsFiniteSet(A) /\ IsFiniteSet(B)
  BY FS_Subset
<1>4. Cardinality(A) \in Nat /\ Cardinality(B) \in Nat
  BY <1>3, FS_CardinalityType
<1>5. Cardinality(A) <= Cardinality(B) /\ (Cardinality(B) = Cardinality(A) => B = A)
  <2> HIDE DEF A, B
  <2>1. QED
    BY <1>1, <1>3, FS_Subset
<1>6. QED
  BY <1>2, <1>4, <1>5

\* No more than are to be kept have a rank below that.
LEMMA RankedAreFew ==
  ASSUME NEW S, S \subseteq Memory!Observation, IsFiniteSet(S),
         \A o, r \in S : o.id = r.id => o = r, NEW k \in Nat
  PROVE  Cardinality({r \in S : Cardinality({x \in S : Memory!Newer(x, r)}) < k}) <= k
<1> DEFINE Place(r) == Cardinality({x \in S : Memory!Newer(x, r)})
           K == {r \in S : Place(r) < k}
           f == [r \in K |-> Place(r)]
<1>1. \A r \in S : Place(r) \in Nat
  <2> TAKE r \in S
  <2>1. {x \in S : Memory!Newer(x, r)} \in SUBSET S
    OBVIOUS
  <2>2. IsFiniteSet({x \in S : Memory!Newer(x, r)})
    BY <2>1, FS_Subset
  <2>3. QED
    BY <2>2, FS_CardinalityType
<1>2. ASSUME NEW o \in S, NEW r \in S, o # r
      PROVE  Place(o) # Place(r)
  <2>1. o.id # r.id
    BY <1>2
  <2>2. Memory!Newer(o, r) \/ Memory!Newer(r, o)
    BY <2>1, NewerIsAnOrder
  <2>3. CASE Memory!Newer(o, r)
    <3>1. Place(o) < Place(r)
      BY <2>3, RanksDiffer
    <3>2. QED
      BY <3>1, <1>1
  <2>4. CASE Memory!Newer(r, o)
    <3>1. Place(r) < Place(o)
      BY <2>4, RanksDiffer
    <3>2. QED
      BY <3>1, <1>1
  <2>5. QED
    BY <2>2, <2>3, <2>4
<1> HIDE DEF Place
<1>3. f \in Injection(K, 0..(k - 1))
  <2>1. f \in [K -> 0..(k - 1)]
    BY <1>1
  <2>2. \A o, r \in K : f[o] = f[r] => o = r
    BY <1>2
  <2>3. QED
    BY <2>1, <2>2 DEF Injection, IsInjective
<1>4. IsFiniteSet(0..(k - 1)) /\ Cardinality(0..(k - 1)) = k
  BY FS_Interval
<1>5. Cardinality(K) <= Cardinality(0..(k - 1))
  <2> HIDE DEF K, f
  <2>1. QED
    BY <1>3, <1>4, FS_Injection
<1>6. QED
  BY <1>4, <1>5 DEF Place

(***************************************************************************)
(* Steps of one process.                                                   *)
(***************************************************************************)
LEMMA MemoryMove ==
  ASSUME MemoryInv, NEW p \in Processes, NEW o \in MemoryOp,
         adding' = [adding EXCEPT ![p] = o]
  PROVE  /\ adding' \in [Processes -> MemoryOp]
         /\ adding'[p] = o
         /\ \A q \in Processes : q # p => adding'[q] = adding[q]
         /\ o.at # "insert" => InsertsItsOwn' /\ Inserting' = Inserting \ {p}
<1>1. adding \in [Processes -> MemoryOp] /\ InsertsItsOwn
  BY MemoryTyped DEF MemoryInv
<1>2. adding' \in [Processes -> MemoryOp]
  BY <1>1
<1>3. adding'[p] = o /\ \A q \in Processes : q # p => adding'[q] = adding[q]
  BY <1>1
<1>4. ASSUME o.at # "insert"
      PROVE  InsertsItsOwn' /\ Inserting' = Inserting \ {p}
  <2>1. InsertsItsOwn'
    BY <1>1, <1>3, <1>4 DEF InsertsItsOwn, Memory!Observation
  <2>2. Inserting' = Inserting \ {p}
    BY <1>3, <1>4 DEF Inserting
  <2>3. QED
    BY <2>1, <2>2
<1>5. QED
  BY <1>2, <1>3, <1>4

\* Who inserts nothing leaves the count as it is.
LEMMA CountStays ==
  ASSUME MemoryInv, NEW p \in Processes, Inserting' = Inserting \ {p},
         ids' = ids, adds' = adds
  PROVE  InsertsAreCounted'
<1>1. /\ IsFiniteSet(Inserting) /\ ids + Cardinality(Inserting) <= adds
      /\ ids \in Nat /\ adds \in Nat
  BY MemoryTyped, MemoryConstants DEF MemoryInv, InsertsAreCounted
<1>2. /\ IsFiniteSet(Inserting \ {p})
      /\ Cardinality(Inserting \ {p}) <= Cardinality(Inserting)
      /\ Cardinality(Inserting) \in Nat /\ Cardinality(Inserting \ {p}) \in Nat
  BY <1>1, FS_Subset, FS_CardinalityType
<1>3. QED
  BY <1>1, <1>2 DEF InsertsAreCounted

\* What happens when nothing comes in.
LEMMA NothingComesIn ==
  ASSUME MemoryInv, obs' \subseteq obs, ids' = ids
  PROVE  IsFiniteSet(obs)' /\ IdsAreUnique'
<1>1. IsFiniteSet(obs) /\ IdsAreUnique
  BY DEF MemoryInv
<1>2. QED
  BY <1>1, FS_Subset DEF IdsAreUnique

\* A repeat among the observations is excused still.
LEMMA RepeatsStayExcused ==
  ASSUME MemoryInv, NEW p \in Processes, obs' \subseteq obs,
         \A q \in Processes : q # p => adding'[q] = adding[q],
         torn \subseteq torn',
         adding[p].at = "dedupe" =>
           adding[p].over \subseteq torn'
             \/ (adding'[p].at = "dedupe" /\ adding'[p].over = adding[p].over)
  PROVE  Memory!NoRepeats'
<1> SUFFICES ASSUME NEW o \in obs, NEW r \in obs, Memory!SameMemory(o, r), o # r
             PROVE  o.entity \in torn' \/ Memory!Compacting(o.entity, {"dedupe"})'
  BY DEF Memory!NoRepeats, Memory!SameMemory
<1>1. o.entity \in torn \/ Memory!Compacting(o.entity, {"dedupe"})
  BY DEF MemoryInv, Memory!NoRepeats
<1>2. ASSUME NEW q \in Processes, adding[q].at = "dedupe", o.entity \in adding[q].over
      PROVE  o.entity \in torn' \/ Memory!Compacting(o.entity, {"dedupe"})'
  BY <1>2 DEF Memory!Compacting
<1>3. QED
  BY <1>1, <1>2 DEF Memory!Compacting

\* Long histories stay in somebody's hands, or excused.
LEMMA LongStaysCut ==
  ASSUME MemoryInv, NEW p \in Processes,
         \A q \in Processes : q # p => adding'[q] = adding[q],
         \A e \in Entities :
           \/ /\ Memory!Unpinned(e)' \subseteq Memory!Unpinned(e)
              /\ e \in loose => e \in loose'
              /\ Cuts(p, e) => Cuts(p, e)' \/ e \in loose'
           \/ Cuts(p, e)' \/ e \in loose'
           \/ Cardinality(Memory!Unpinned(e)') <= Retention
  PROVE  LongIsCut'
<1> SUFFICES ASSUME NEW e \in Entities
             PROVE  \/ Cardinality(Memory!Unpinned(e)') <= Retention
                    \/ e \in loose'
                    \/ \E q \in Processes : Cuts(q, e)'
  BY DEF LongIsCut
<1>1. \/ Cardinality(Memory!Unpinned(e)) <= Retention
      \/ e \in loose
      \/ \E q \in Processes : Cuts(q, e)
  BY DEF MemoryInv, LongIsCut
<1>2. \A q \in Processes : q # p => (Cuts(q, e)' <=> Cuts(q, e))
  BY DEF Cuts
<1>3. CASE /\ Memory!Unpinned(e)' \subseteq Memory!Unpinned(e)
           /\ e \in loose => e \in loose'
           /\ Cuts(p, e) => Cuts(p, e)' \/ e \in loose'
  <2>1. Memory!Unpinned(e) \in SUBSET obs /\ IsFiniteSet(obs)
    BY DEF Memory!Unpinned, MemoryInv
  <2>2. IsFiniteSet(Memory!Unpinned(e))
    BY <2>1, FS_Subset
  <2>3. /\ IsFiniteSet(Memory!Unpinned(e)')
        /\ Cardinality(Memory!Unpinned(e)') <= Cardinality(Memory!Unpinned(e))
    BY <1>3, <2>2, FS_Subset
  <2>4. Cardinality(Memory!Unpinned(e)) \in Nat /\ Cardinality(Memory!Unpinned(e)') \in Nat
    BY <2>2, <2>3, FS_CardinalityType
  <2>5. Cardinality(Memory!Unpinned(e)) <= Retention
          => Cardinality(Memory!Unpinned(e)') <= Retention
    BY <2>3, <2>4, MemoryConstants
  <2>6. QED
    BY <1>1, <1>2, <1>3, <2>5
<1>4. QED
  BY <1>3

LEMMA MemoryAdd ==
  ASSUME MemoryInv, NEW p \in Processes, NEW e \in Entities, NEW t \in Texts,
         NEW pin \in BOOLEAN, Memory!Add(p, e, t, pin)
  PROVE  MemoryInv'
<1> DEFINE new == [entity |-> e, text |-> t, pinned |-> pin, at |-> adds, id |-> 0]
           o == [at |-> "insert", over |-> {e}, keep |-> Retention, new |-> new]
<1>1. /\ adding[p].at = "idle" /\ adds < MaxAdds /\ adds' = adds + 1
      /\ adding' = [adding EXCEPT ![p] = o]
      /\ obs' = obs /\ ids' = ids /\ torn' = torn /\ loose' = loose
  BY DEF Memory!Add, Memory!At, Memory!Go
<1>2. /\ obs \subseteq Memory!Observation /\ adds \in 0..MaxAdds /\ ids \in 0..adds
      /\ torn \subseteq Entities /\ loose \subseteq Entities
      /\ MaxAdds \in Nat /\ Retention \in Nat
  BY MemoryTyped, MemoryConstants DEF MemoryInv
<1>3. new \in Memory!Observation
  BY <1>1, <1>2 DEF Memory!Observation
<1>4. o \in MemoryOp /\ o.at = "insert"
  BY <1>3 DEF MemoryOp
<1> HIDE DEF o
<1>5. /\ adding' \in [Processes -> MemoryOp] /\ adding'[p] = o
      /\ \A q \in Processes : q # p => adding'[q] = adding[q]
  BY <1>1, <1>4, MemoryMove
<1>6. Memory!TypeOK'
  BY <1>1, <1>2, <1>5 DEF Memory!TypeOK, MemoryOp, Memory!Observation
<1>7. InsertsItsOwn'
  <2>1. o.new = new /\ o.over = {o.new.entity} /\ o.keep = Retention
    BY DEF o
  <2>2. InsertsItsOwn
    BY DEF MemoryInv
  <2>3. QED
    BY <1>3, <1>5, <2>1, <2>2 DEF InsertsItsOwn, Memory!Observation
<1>8. InsertsAreCounted'
  <2>1. Inserting' = Inserting \cup {p} /\ p \notin Inserting
    BY <1>1, <1>4, <1>5 DEF Inserting
  <2>2. IsFiniteSet(Inserting) /\ ids + Cardinality(Inserting) <= adds
    BY DEF MemoryInv, InsertsAreCounted
  <2>3. /\ IsFiniteSet(Inserting') /\ Cardinality(Inserting') = Cardinality(Inserting) + 1
        /\ Cardinality(Inserting) \in Nat
    BY <2>1, <2>2, FS_AddElement, FS_CardinalityType
  <2>4. QED
    BY <1>1, <1>2, <2>2, <2>3 DEF InsertsAreCounted
<1>9. IsFiniteSet(obs)' /\ IdsAreUnique'
  BY <1>1, NothingComesIn
<1>10. Memory!NoRepeats'
  BY <1>1, <1>5, RepeatsStayExcused
<1>11. LongIsCut'
  <2>1. \A d : Memory!Unpinned(d)' = Memory!Unpinned(d)
    BY <1>1 DEF Memory!Unpinned
  <2>2. \A d : ~Cuts(p, d)
    BY <1>1 DEF Cuts
  <2>3. QED
    BY <1>1, <1>5, <2>1, <2>2, LongStaysCut
<1>12. QED
  BY <1>6, <1>7, <1>8, <1>9, <1>10, <1>11 DEF MemoryInv

LEMMA MemoryInsert ==
  ASSUME MemoryInv, NEW p \in Processes, Memory!Insert(p)
  PROVE  MemoryInv'
<1> DEFINE new == [adding[p].new EXCEPT !.id = ids]
           o == [adding[p] EXCEPT !.at = "dedupe", !.new = new]
<1>1. /\ adding[p].at = "insert"
      /\ obs' = obs \cup {new} /\ ids' = ids + 1
      /\ adding' = [adding EXCEPT ![p] = o]
      /\ adds' = adds /\ torn' = torn /\ loose' = loose
  BY DEF Memory!Insert, Memory!At, Memory!Go
<1>2. /\ obs \subseteq Memory!Observation /\ adds \in 0..MaxAdds /\ ids \in 0..adds
      /\ torn \subseteq Entities /\ loose \subseteq Entities
      /\ MaxAdds \in Nat /\ Retention \in Nat /\ adding[p] \in MemoryOp
  BY MemoryTyped, MemoryConstants DEF MemoryInv
<1>3. /\ adding[p].new \in Memory!Observation
      /\ adding[p].over = {adding[p].new.entity} /\ adding[p].keep = Retention
  BY <1>1 DEF MemoryInv, InsertsItsOwn
<1>4. /\ new \in Memory!Observation /\ new.id = ids
      /\ new.entity = adding[p].new.entity /\ new.text = adding[p].new.text
  BY <1>2, <1>3 DEF Memory!Observation
<1>5. /\ o \in MemoryOp /\ o.at = "dedupe" /\ o.over = {new.entity} /\ o.keep = Retention
  BY <1>2, <1>3, <1>4 DEF MemoryOp
<1> HIDE DEF o, new
<1>6. InsertsAreCounted' /\ ids + 1 <= adds
  <2>1. p \in Inserting
    BY <1>1 DEF Inserting
  <2>2. Inserting' = Inserting \ {p}
    BY <1>1, <1>5, MemoryMove
  <2>3. IsFiniteSet(Inserting) /\ ids + Cardinality(Inserting) <= adds
    BY DEF MemoryInv, InsertsAreCounted
  <2>4. /\ IsFiniteSet(Inserting') /\ Cardinality(Inserting') = Cardinality(Inserting) - 1
        /\ Cardinality(Inserting) \in Nat /\ Cardinality(Inserting') \in Nat
    BY <2>1, <2>2, <2>3, FS_RemoveElement, FS_CardinalityType
  <2>5. QED
    BY <1>1, <1>2, <2>3, <2>4 DEF InsertsAreCounted
<1>7. /\ adding' \in [Processes -> MemoryOp] /\ adding'[p] = o
      /\ \A q \in Processes : q # p => adding'[q] = adding[q]
      /\ InsertsItsOwn'
  BY <1>1, <1>5, MemoryMove
<1>8. Memory!TypeOK'
  BY <1>1, <1>2, <1>6, <1>4, <1>7 DEF Memory!TypeOK, MemoryOp, Memory!Observation
<1>9. IsFiniteSet(obs)' /\ IdsAreUnique'
  <2>1. IsFiniteSet(obs) /\ IdsAreUnique
    BY DEF MemoryInv
  <2>2. IsFiniteSet(obs')
    BY <1>1, <2>1, FS_AddElement
  <2>3. \A x \in obs : x.id \in Nat /\ x.id < ids
    BY <1>2, <2>1, ObservationFields DEF IdsAreUnique
  <2>4. \A x \in obs' : x.id < ids'
    BY <1>1, <1>2, <1>4, <2>3
  <2>5. \A x, y \in obs' : x.id = y.id => x = y
    BY <1>1, <1>2, <1>4, <2>1, <2>3 DEF IdsAreUnique
  <2>6. QED
    BY <2>2, <2>4, <2>5 DEF IdsAreUnique
<1>10. Memory!NoRepeats'
  <2> SUFFICES ASSUME NEW x \in obs', NEW y \in obs', Memory!SameMemory(x, y), x # y
               PROVE  x.entity \in torn' \/ Memory!Compacting(x.entity, {"dedupe"})'
    BY DEF Memory!NoRepeats, Memory!SameMemory
  <2>1. CASE x.entity = new.entity
    BY <1>5, <1>7, <2>1 DEF Memory!Compacting
  <2>2. CASE x.entity # new.entity
    <3>1. x \in obs /\ y \in obs
      BY <1>1, <2>2 DEF Memory!SameMemory
    <3>2. x.entity \in torn \/ Memory!Compacting(x.entity, {"dedupe"})
      BY <3>1 DEF MemoryInv, Memory!NoRepeats
    <3>3. ASSUME NEW q \in Processes, adding[q].at = "dedupe", x.entity \in adding[q].over
          PROVE  Memory!Compacting(x.entity, {"dedupe"})'
      BY <1>1, <1>7, <3>3 DEF Memory!Compacting
    <3>4. QED
      BY <1>1, <3>2, <3>3 DEF Memory!Compacting
  <2>3. QED
    BY <2>1, <2>2
<1>11. LongIsCut'
  <2> PICK e \in Entities : e = new.entity
    BY <1>4, ObservationFields
  <2>1. Cuts(p, e)'
    BY <1>2, <1>5, <1>7 DEF Cuts
  <2>2. \A d : d # e => Memory!Unpinned(d)' = Memory!Unpinned(d)
    BY <1>1 DEF Memory!Unpinned
  <2>3. \A d : ~Cuts(p, d)
    BY <1>1 DEF Cuts
  <2>4. QED
    BY <1>1, <1>7, <2>1, <2>2, <2>3, LongStaysCut
<1>12. QED
  BY <1>6, <1>7, <1>8, <1>9, <1>10, <1>11 DEF MemoryInv

\* What a step keeps that brings nothing in.
LEMMA MemoryFrame ==
  ASSUME MemoryInv, NEW p \in Processes, NEW o \in MemoryOp, o.at # "insert",
         adding' = [adding EXCEPT ![p] = o],
         obs' \subseteq obs, ids' = ids, adds' = adds,
         torn' \subseteq Entities, loose' \subseteq Entities
  PROVE  /\ Memory!TypeOK' /\ InsertsItsOwn' /\ InsertsAreCounted'
         /\ IsFiniteSet(obs)' /\ IdsAreUnique'
         /\ adding'[p] = o /\ \A q \in Processes : q # p => adding'[q] = adding[q]
<1>1. /\ obs \subseteq Memory!Observation /\ adds \in 0..MaxAdds /\ ids \in 0..adds
  BY MemoryTyped DEF MemoryInv
<1>2. /\ adding' \in [Processes -> MemoryOp] /\ adding'[p] = o
      /\ \A q \in Processes : q # p => adding'[q] = adding[q]
      /\ InsertsItsOwn' /\ Inserting' = Inserting \ {p}
  BY MemoryMove
<1>3. Memory!TypeOK'
  BY <1>1, <1>2 DEF Memory!TypeOK, MemoryOp, Memory!Observation
<1>4. InsertsAreCounted'
  BY <1>2, CountStays
<1>5. IsFiniteSet(obs)' /\ IdsAreUnique'
  BY NothingComesIn
<1>6. QED
  BY <1>2, <1>3, <1>4, <1>5

LEMMA MemoryDedupe ==
  ASSUME MemoryInv, NEW p \in Processes, Memory!Dedupe(p)
  PROVE  MemoryInv'
<1> DEFINE o == [adding[p] EXCEPT !.at = "overflow"]
<1>1. /\ adding[p].at = "dedupe"
      /\ obs' = {r \in obs : r.entity \in adding[p].over =>
                               \A x \in obs : ~Memory!Outranks(x, r)}
      /\ torn' = torn \ adding[p].over
      /\ adding' = [adding EXCEPT ![p] = o]
      /\ adds' = adds /\ ids' = ids /\ loose' = loose
  BY DEF Memory!Dedupe, Memory!At, Memory!Go
<1>2. /\ obs \subseteq Memory!Observation /\ adding[p] \in MemoryOp
      /\ torn \subseteq Entities /\ loose \subseteq Entities /\ IdsAreUnique
  BY MemoryTyped DEF MemoryInv
<1>3. /\ o \in MemoryOp /\ o.at = "overflow"
      /\ o.over = adding[p].over /\ o.keep = adding[p].keep
  BY <1>2 DEF MemoryOp
<1> HIDE DEF o
<1>4. /\ Memory!TypeOK' /\ InsertsItsOwn' /\ InsertsAreCounted'
      /\ IsFiniteSet(obs)' /\ IdsAreUnique'
      /\ adding'[p] = o /\ \A q \in Processes : q # p => adding'[q] = adding[q]
  BY <1>1, <1>2, <1>3, MemoryFrame
<1>5. Memory!NoRepeats'
  <2> SUFFICES ASSUME NEW x \in obs', NEW y \in obs', Memory!SameMemory(x, y), x # y
               PROVE  x.entity \in torn' \/ Memory!Compacting(x.entity, {"dedupe"})'
    BY DEF Memory!NoRepeats, Memory!SameMemory
  <2>1. x \in obs /\ y \in obs /\ x.id # y.id
    BY <1>1, <1>2 DEF IdsAreUnique
  <2>2. x.entity \notin adding[p].over
    <3>1. Memory!Outranks(x, y) \/ Memory!Outranks(y, x)
      BY <1>2, <2>1, OutranksIsAnOrder
    <3>2. x.entity = y.entity
      BY DEF Memory!SameMemory
    <3>3. QED
      BY <1>1, <2>1, <3>1, <3>2
  <2>3. x.entity \in torn \/ Memory!Compacting(x.entity, {"dedupe"})
    BY <2>1 DEF MemoryInv, Memory!NoRepeats
  <2>4. ASSUME NEW q \in Processes, adding[q].at = "dedupe", x.entity \in adding[q].over
        PROVE  Memory!Compacting(x.entity, {"dedupe"})'
    BY <1>4, <2>2, <2>4 DEF Memory!Compacting
  <2>5. QED
    BY <1>1, <2>2, <2>3, <2>4 DEF Memory!Compacting
<1>6. LongIsCut'
  <2>1. \A e : Memory!Unpinned(e)' \subseteq Memory!Unpinned(e)
    BY <1>1 DEF Memory!Unpinned
  <2>2. \A e \in Entities : Cuts(p, e) => Cuts(p, e)'
    BY <1>3, <1>4 DEF Cuts
  <2>3. QED
    BY <1>1, <1>4, <2>1, <2>2, LongStaysCut
<1>7. QED
  BY <1>4, <1>5, <1>6 DEF MemoryInv

LEMMA MemoryOverflow ==
  ASSUME MemoryInv, NEW p \in Processes, Memory!Overflow(p)
  PROVE  MemoryInv'
<1> DEFINE o == IF adding[p].new = None THEN Memory!Idle
                                        ELSE [adding[p] EXCEPT !.at = "read"]
<1>1. /\ adding[p].at = "overflow"
      /\ obs' = {r \in obs : (r.entity \in adding[p].over /\ ~r.pinned)
                               => Memory!Rank(r) < adding[p].keep}
      /\ loose' = IF adding[p].keep <= Retention THEN loose \ adding[p].over ELSE loose
      /\ adding' = [adding EXCEPT ![p] = o]
      /\ adds' = adds /\ ids' = ids /\ torn' = torn
  BY DEF Memory!Overflow, Memory!At, Memory!Go
<1>2. /\ obs \subseteq Memory!Observation /\ adding[p] \in MemoryOp
      /\ torn \subseteq Entities /\ loose \subseteq Entities /\ IdsAreUnique
      /\ IsFiniteSet(obs)
  BY MemoryTyped DEF MemoryInv
<1>3. o \in MemoryOp /\ o.at \in {"idle", "read"}
  BY <1>2 DEF MemoryOp, Memory!Idle
<1> HIDE DEF o
<1>4. /\ Memory!TypeOK' /\ InsertsItsOwn' /\ InsertsAreCounted'
      /\ IsFiniteSet(obs)' /\ IdsAreUnique'
      /\ adding'[p] = o /\ \A q \in Processes : q # p => adding'[q] = adding[q]
  BY <1>1, <1>2, <1>3, MemoryFrame
<1>5. Memory!NoRepeats'
  BY <1>1, <1>4, RepeatsStayExcused
<1>6. LongIsCut'
  <2> SUFFICES ASSUME NEW e \in Entities
               PROVE  \/ /\ Memory!Unpinned(e)' \subseteq Memory!Unpinned(e)
                         /\ e \in loose => e \in loose'
                         /\ Cuts(p, e) => Cuts(p, e)' \/ e \in loose'
                      \/ Cardinality(Memory!Unpinned(e)') <= Retention
    BY <1>4, LongStaysCut
  <2>1. Memory!Unpinned(e)' \subseteq Memory!Unpinned(e)
    BY <1>1 DEF Memory!Unpinned
  <2>2. CASE ~(e \in adding[p].over /\ adding[p].keep <= Retention)
    BY <1>1, <2>1, <2>2 DEF Cuts
  <2>3. CASE e \in adding[p].over /\ adding[p].keep <= Retention
    <3> DEFINE U == Memory!Unpinned(e)
               k == adding[p].keep
               K == {r \in U : Cardinality({x \in U : Memory!Newer(x, r)}) < k}
    <3>1. U \subseteq obs /\ U \in SUBSET obs
      BY DEF Memory!Unpinned
    <3>2. IsFiniteSet(U) /\ U \subseteq Memory!Observation
      <4> HIDE DEF U
      <4>1. IsFiniteSet(U)
        BY <1>2, <3>1, FS_Subset
      <4>2. QED
        BY <1>2, <3>1, <4>1
    <3>3. k \in Nat
      <4>1. adding[p].keep \in Limits \cup {0, Retention}
        BY <1>2 DEF MemoryOp
      <4>2. QED
        BY <4>1, MemoryConstants
    <3>4. Memory!Unpinned(e)' = K
      <4>1. \A r \in U : r.entity = e /\ ~r.pinned
        BY DEF Memory!Unpinned
      <4>2. \A r \in U : Memory!Rank(r) = Cardinality({x \in U : Memory!Newer(x, r)})
        <5> TAKE r \in U
        <5>1. Memory!Unpinned(r.entity) = U
          BY <4>1
        <5>2. Memory!Rank(r)
                = Cardinality({x \in Memory!Unpinned(r.entity) : Memory!Newer(x, r)})
          BY MemoryCounts DEF Memory!Rank
        <5> HIDE DEF U
        <5>3. {x \in Memory!Unpinned(r.entity) : Memory!Newer(x, r)}
                = {x \in U : Memory!Newer(x, r)}
          BY <5>1
        <5>4. QED
          BY <5>2, <5>3
      <4>3. Memory!Unpinned(e)' = {r \in U : Memory!Rank(r) < k}
        BY <1>1, <2>3, <4>1 DEF Memory!Unpinned
      <4>4. QED
        BY <4>2, <4>3
    <3>5. Cardinality(K) <= k
      <4> HIDE DEF U, k
      <4>1. \A x, y \in U : x.id = y.id => x = y
        BY <1>2, <3>1 DEF IdsAreUnique
      <4>2. QED
        BY <3>2, <3>3, <4>1, RankedAreFew
    <3>6. IsFiniteSet(K) /\ Cardinality(K) \in Nat
      <4>1. K \in SUBSET U
        OBVIOUS
      <4>2. IsFiniteSet(K)
        BY <3>2, <4>1, FS_Subset
      <4>3. QED
        BY <4>2, FS_CardinalityType
    <3> HIDE DEF K
    <3>7. QED
      BY <2>3, <3>3, <3>4, <3>5, <3>6, MemoryConstants
  <2>4. QED
    BY <2>2, <2>3
<1>7. QED
  BY <1>4, <1>5, <1>6 DEF MemoryInv

LEMMA MemoryRest ==
  ASSUME MemoryInv, NEW p \in Processes,
         Memory!ReadBack(p) \/ Memory!GiveUp(p) \/ Memory!Break(p)
           \/ \E E \in SUBSET Entities, k \in Limits : Memory!Compact(p, E, k)
  PROVE  MemoryInv'
<1>1. /\ adding[p] \in MemoryOp /\ torn \subseteq Entities /\ loose \subseteq Entities
  BY MemoryTyped DEF MemoryInv
<1>2. PICK o \in MemoryOp :
        /\ o.at # "insert" /\ adding' = [adding EXCEPT ![p] = o]
        /\ obs' = obs /\ ids' = ids /\ adds' = adds
        /\ torn \subseteq torn' /\ torn' \subseteq Entities
        /\ loose \subseteq loose' /\ loose' \subseteq Entities
        /\ adding[p].at = "dedupe" => adding[p].over \subseteq torn'
        /\ adding[p].at \in {"dedupe", "overflow"} => adding[p].over \subseteq loose'
  <2>1. CASE Memory!ReadBack(p)
    <3> DEFINE o == IF \E x \in obs : x.id = adding[p].new.id
                    THEN Memory!Idle ELSE [adding[p] EXCEPT !.at = "failed"]
    <3>1. o \in MemoryOp /\ o.at # "insert"
      BY <1>1 DEF MemoryOp, Memory!Idle
    <3>2. /\ adding[p].at = "read" /\ adding' = [adding EXCEPT ![p] = o]
          /\ obs' = obs /\ ids' = ids /\ adds' = adds /\ torn' = torn /\ loose' = loose
      BY <2>1 DEF Memory!ReadBack, Memory!At, Memory!Go
    <3> HIDE DEF o
    <3>3. QED
      BY <1>1, <3>1, <3>2
  <2>2. CASE Memory!GiveUp(p)
    <3>1. Memory!Idle \in MemoryOp /\ Memory!Idle.at # "insert"
      BY DEF MemoryOp, Memory!Idle
    <3>2. /\ adding[p].at = "failed" /\ adding' = [adding EXCEPT ![p] = Memory!Idle]
          /\ obs' = obs /\ ids' = ids /\ adds' = adds /\ torn' = torn /\ loose' = loose
      BY <2>2 DEF Memory!GiveUp, Memory!At, Memory!Go
    <3>3. QED
      BY <1>1, <3>1, <3>2
  <2>3. CASE Memory!Break(p)
    <3>1. Memory!Idle \in MemoryOp /\ Memory!Idle.at # "insert"
      BY DEF MemoryOp, Memory!Idle
    <3>2. /\ adding[p].at \in {"dedupe", "overflow"}
          /\ adding' = [adding EXCEPT ![p] = Memory!Idle]
          /\ obs' = obs /\ ids' = ids /\ adds' = adds
          /\ torn' = IF adding[p].at = "dedupe" THEN torn \cup adding[p].over ELSE torn
          /\ loose' = loose \cup adding[p].over
      BY <2>3 DEF Memory!Break, Memory!At, Memory!Go
    <3>3. adding[p].over \subseteq Entities
      BY <1>1 DEF MemoryOp
    <3>4. QED
      BY <1>1, <3>1, <3>2, <3>3
  <2>4. CASE \E E \in SUBSET Entities, k \in Limits : Memory!Compact(p, E, k)
    <3>1. PICK E \in SUBSET Entities, k \in Limits : Memory!Compact(p, E, k)
      BY <2>4
    <3> DEFINE o == [Memory!Idle EXCEPT !.at = "dedupe", !.over = E, !.keep = k]
    <3>2. o \in MemoryOp /\ o.at # "insert"
      BY DEF MemoryOp, Memory!Idle
    <3>3. /\ adding[p].at = "idle" /\ adding' = [adding EXCEPT ![p] = o]
          /\ obs' = obs /\ ids' = ids /\ adds' = adds /\ torn' = torn /\ loose' = loose
      BY <3>1 DEF Memory!Compact, Memory!At, Memory!Go
    <3> HIDE DEF o
    <3>4. QED
      BY <1>1, <3>2, <3>3
  <2>5. QED
    BY <2>1, <2>2, <2>3, <2>4
<1>3. /\ Memory!TypeOK' /\ InsertsItsOwn' /\ InsertsAreCounted'
      /\ IsFiniteSet(obs)' /\ IdsAreUnique'
      /\ adding'[p] = o /\ \A q \in Processes : q # p => adding'[q] = adding[q]
  BY <1>2, MemoryFrame
<1>4. Memory!NoRepeats'
  BY <1>2, <1>3, RepeatsStayExcused
<1>5. LongIsCut'
  <2>1. \A e : Memory!Unpinned(e)' = Memory!Unpinned(e)
    BY <1>2 DEF Memory!Unpinned
  <2>2. \A e \in Entities : Cuts(p, e) => e \in loose'
    BY <1>2 DEF Cuts
  <2>3. QED
    BY <1>2, <1>3, <2>1, <2>2, LongStaysCut
<1>6. QED
  BY <1>3, <1>4, <1>5 DEF MemoryInv

LEMMA MemoryPin ==
  ASSUME MemoryInv, NEW o \in obs, NEW pin \in BOOLEAN, Memory!SetPinned(o, pin)
  PROVE  MemoryInv'
<1> DEFINE new == [o EXCEPT !.pinned = pin]
<1>1. /\ obs' = (obs \ {o}) \cup {new}
      /\ loose' = IF pin THEN loose ELSE loose \cup {o.entity}
      /\ adds' = adds /\ ids' = ids /\ adding' = adding /\ torn' = torn
  BY DEF Memory!SetPinned
<1>2. /\ obs \subseteq Memory!Observation /\ adds \in 0..MaxAdds /\ ids \in 0..adds
      /\ adding \in [Processes -> MemoryOp]
      /\ torn \subseteq Entities /\ loose \subseteq Entities /\ IdsAreUnique
      /\ IsFiniteSet(obs)
  BY MemoryTyped DEF MemoryInv
<1>3. /\ new \in Memory!Observation /\ new.id = o.id /\ new.pinned = pin
      /\ new.entity = o.entity /\ new.text = o.text /\ o.entity \in Entities
  BY <1>2 DEF Memory!Observation
<1> HIDE DEF new
<1>4. Memory!TypeOK'
  BY <1>1, <1>2, <1>3 DEF Memory!TypeOK, MemoryOp, Memory!Observation
<1>5. InsertsItsOwn' /\ InsertsAreCounted'
  <2>1. InsertsItsOwn /\ InsertsAreCounted
    BY DEF MemoryInv
  <2>2. InsertsItsOwn'
    BY <1>1, <2>1 DEF InsertsItsOwn, Memory!Observation
  <2>3. Inserting' = Inserting
    BY <1>1 DEF Inserting
  <2>4. QED
    BY <1>1, <2>1, <2>2, <2>3 DEF InsertsAreCounted
<1>6. IsFiniteSet(obs)'
  <2>1. IsFiniteSet(obs \ {o})
    BY <1>2, FS_RemoveElement
  <2>2. QED
    BY <1>1, <2>1, FS_AddElement
<1>7. IdsAreUnique'
  BY <1>1, <1>2, <1>3 DEF IdsAreUnique
<1>8. Memory!NoRepeats'
  <2> SUFFICES ASSUME NEW x \in obs', NEW y \in obs', Memory!SameMemory(x, y), x # y
               PROVE  x.entity \in torn' \/ Memory!Compacting(x.entity, {"dedupe"})'
    BY DEF Memory!NoRepeats, Memory!SameMemory
  <2>1. PICK a \in obs : a.id = x.id /\ a.entity = x.entity /\ a.text = x.text
    BY <1>1, <1>3
  <2>2. PICK b \in obs : b.id = y.id /\ b.entity = y.entity /\ b.text = y.text
    BY <1>1, <1>3
  <2>3. a # b
    BY <1>7, <2>1, <2>2 DEF IdsAreUnique
  <2>4. Memory!SameMemory(a, b)
    BY <2>1, <2>2 DEF Memory!SameMemory
  <2>5. a.entity \in torn \/ Memory!Compacting(a.entity, {"dedupe"})
    BY <2>3, <2>4 DEF MemoryInv, Memory!NoRepeats
  <2>6. QED
    BY <1>1, <2>1, <2>5 DEF Memory!Compacting
<1>9. LongIsCut'
  <2> SUFFICES ASSUME NEW e \in Entities
               PROVE  \/ Cardinality(Memory!Unpinned(e)') <= Retention
                      \/ e \in loose'
                      \/ \E q \in Processes : Cuts(q, e)'
    BY DEF LongIsCut
  <2>1. \/ Cardinality(Memory!Unpinned(e)) <= Retention
        \/ e \in loose
        \/ \E q \in Processes : Cuts(q, e)
    BY DEF MemoryInv, LongIsCut
  <2>2. loose \subseteq loose' /\ \A q \in Processes : Cuts(q, e)' <=> Cuts(q, e)
    BY <1>1 DEF Cuts
  <2>3. CASE e \in loose'
    BY <2>3
  <2>4. CASE e \notin loose'
    <3>1. Memory!Unpinned(e)' \in SUBSET Memory!Unpinned(e)
      BY <1>1, <1>3, <2>4 DEF Memory!Unpinned
    <3>2. Memory!Unpinned(e) \in SUBSET obs
      BY DEF Memory!Unpinned
    <3>3. IsFiniteSet(Memory!Unpinned(e))
      BY <1>2, <3>2, FS_Subset
    <3>4. /\ IsFiniteSet(Memory!Unpinned(e)')
          /\ Cardinality(Memory!Unpinned(e)') <= Cardinality(Memory!Unpinned(e))
      BY <3>1, <3>3, FS_Subset
    <3>5. Cardinality(Memory!Unpinned(e)) \in Nat /\ Cardinality(Memory!Unpinned(e)') \in Nat
      BY <3>3, <3>4, FS_CardinalityType
    <3>6. QED
      BY <2>1, <2>2, <3>4, <3>5, MemoryConstants
  <2>5. QED
    BY <2>3, <2>4
<1>10. QED
  BY <1>4, <1>5, <1>6, <1>7, <1>8, <1>9 DEF MemoryInv

LEMMA MemoryStep ==
  ASSUME MemoryInv, Memory!Next
  PROVE  MemoryInv'
<1>1. CASE \E p \in Processes, e \in Entities, t \in Texts, pin \in BOOLEAN :
             Memory!Add(p, e, t, pin)
  BY <1>1, MemoryAdd
<1>2. CASE \E p \in Processes : Memory!Insert(p)
  BY <1>2, MemoryInsert
<1>3. CASE \E p \in Processes : Memory!Dedupe(p)
  BY <1>3, MemoryDedupe
<1>4. CASE \E p \in Processes : Memory!Overflow(p)
  BY <1>4, MemoryOverflow
<1>5. CASE \E p \in Processes :
             \/ Memory!ReadBack(p) \/ Memory!GiveUp(p) \/ Memory!Break(p)
             \/ \E E \in SUBSET Entities, k \in Limits : Memory!Compact(p, E, k)
  BY <1>5, MemoryRest
<1>6. CASE \E o \in obs, pin \in BOOLEAN : Memory!SetPinned(o, pin)
  BY <1>6, MemoryPin
<1>7. QED
  BY <1>1, <1>2, <1>3, <1>4, <1>5, <1>6 DEF Memory!Next, Memory!Step

LEMMA MemoryStutters ==
  ASSUME MemoryInv, UNCHANGED memoryVars
  PROVE  MemoryInv'
<1>1. \A e : Memory!Unpinned(e)' = Memory!Unpinned(e)
  BY DEF memoryVars, Memory!Unpinned
<1>2. Inserting' = Inserting /\ \A p, e : Cuts(p, e)' <=> Cuts(p, e)
  BY DEF memoryVars, Inserting, Cuts
<1>3. Memory!TypeOK' /\ InsertsItsOwn'
  BY DEF memoryVars, MemoryInv, Memory!TypeOK, InsertsItsOwn, Memory!Observation
<1>4. InsertsAreCounted' /\ IsFiniteSet(obs)' /\ IdsAreUnique'
  BY <1>2 DEF memoryVars, MemoryInv, InsertsAreCounted, IdsAreUnique
<1>5. Memory!NoRepeats' /\ LongIsCut'
  BY <1>1, <1>2 DEF memoryVars, MemoryInv, Memory!NoRepeats, LongIsCut,
                    Memory!Compacting, Memory!SameMemory
<1>6. QED
  BY <1>3, <1>4, <1>5 DEF MemoryInv

LEMMA MemoryKept == MemoryInv => MemoryIsCompact
<1> SUFFICES ASSUME MemoryInv PROVE MemoryIsCompact
  OBVIOUS
<1>1. Memory!HistoryIsBounded
  <2> SUFFICES ASSUME NEW e \in Entities
               PROVE  \/ Memory!Cardinality(Memory!Unpinned(e)) <= Retention
                      \/ e \in loose
                      \/ Memory!Compacting(e, {"dedupe", "overflow"})
    BY DEF Memory!HistoryIsBounded
  <2>1. \/ Cardinality(Memory!Unpinned(e)) <= Retention
        \/ e \in loose
        \/ \E p \in Processes : Cuts(p, e)
    BY DEF MemoryInv, LongIsCut
  <2>2. QED
    BY <2>1, MemoryCounts DEF Cuts, Memory!Compacting
<1>2. QED
  BY <1>1 DEF MemoryInv, MemoryIsCompact

\* What is in place before and after a step stays.
LEMMA StaysInPlace ==
  ASSUME obs \subseteq obs'
  PROVE  Memory!PinnedStays /\ Memory!LatestStays
<1>1. \A o : Memory!SameMemory(o, o)
  BY DEF Memory!SameMemory
<1>2. Memory!PinnedStays
  BY <1>1 DEF Memory!PinnedStays
<1>3. Memory!LatestStays
  BY <1>1 DEF Memory!LatestStays
<1>4. QED
  BY <1>2, <1>3

LEMMA DedupeKeeps ==
  ASSUME MemoryInv, NEW p \in Processes, Memory!Dedupe(p)
  PROVE  Memory!PinnedStays /\ Memory!LatestStays
<1>1. obs' = {r \in obs : r.entity \in adding[p].over =>
                            \A x \in obs : ~Memory!Outranks(x, r)}
  BY DEF Memory!Dedupe
<1>2. obs \subseteq Memory!Observation /\ IsFiniteSet(obs)
  BY MemoryTyped DEF MemoryInv
<1>3. ASSUME NEW o \in obs
      PROVE  \E r \in obs' : Memory!SameMemory(o, r) /\ (o.pinned => r.pinned)
  <2>1. PICK r \in obs : /\ r = o \/ Memory!Outranks(r, o)
                         /\ \A x \in obs : ~Memory!Outranks(x, r)
    BY <1>2, Survivor
  <2>2. r \in obs'
    BY <1>1, <2>1
  <2>3. Memory!SameMemory(o, r) /\ (o.pinned => r.pinned)
    <3>1. CASE r = o
      BY <3>1 DEF Memory!SameMemory
    <3>2. CASE Memory!Outranks(r, o)
      BY <1>2, <3>2, OutranksIsAnOrder
    <3>3. QED
      BY <2>1, <3>1, <3>2
  <2>4. QED
    BY <2>2, <2>3
<1>4. QED
  BY <1>3 DEF Memory!PinnedStays, Memory!LatestStays

LEMMA OverflowKeeps ==
  ASSUME MemoryInv, NEW p \in Processes, Memory!Overflow(p)
  PROVE  Memory!PinnedStays /\ Memory!LatestStays
<1>1. /\ adding[p].at = "overflow"
      /\ obs' = {r \in obs : (r.entity \in adding[p].over /\ ~r.pinned)
                               => Memory!Rank(r) < adding[p].keep}
  BY DEF Memory!Overflow, Memory!At
<1>2. \A o : Memory!SameMemory(o, o)
  BY DEF Memory!SameMemory
<1>3. Memory!PinnedStays
  BY <1>1, <1>2 DEF Memory!PinnedStays
<1>4. ASSUME NEW o \in obs, \A r \in Memory!Unpinned(o.entity) : ~Memory!Newer(r, o),
             adding[p].keep # 0
      PROVE  o \in obs'
  <2>1. Memory!Rank(o) = 0
    <3>1. {r \in Memory!Unpinned(o.entity) : Memory!Newer(r, o)} = {}
      BY <1>4
    <3>2. Memory!Rank(o) = Memory!Cardinality({})
      BY <3>1 DEF Memory!Rank
    <3>3. QED
      BY <3>2, MemoryCounts, FS_EmptySet
  <2>2. adding[p].keep \in Nat
    <3>1. adding[p] \in MemoryOp
      BY MemoryTyped DEF MemoryInv
    <3>2. adding[p].keep \in Limits \cup {0, Retention}
      BY <3>1 DEF MemoryOp
    <3>3. QED
      BY <3>2, MemoryConstants
  <2>3. Memory!Rank(o) < adding[p].keep
    BY <1>4, <2>1, <2>2
  <2>4. QED
    BY <1>1, <2>3
<1>5. Memory!LatestStays
  BY <1>1, <1>2, <1>4 DEF Memory!LatestStays, Memory!At
<1>6. QED
  BY <1>3, <1>5

LEMMA PinKeeps ==
  ASSUME MemoryInv, NEW o \in obs, NEW pin \in BOOLEAN, Memory!SetPinned(o, pin)
  PROVE  Memory!PinnedStays /\ Memory!LatestStays
<1> DEFINE new == [o EXCEPT !.pinned = pin]
<1>1. obs' = (obs \ {o}) \cup {new}
  BY DEF Memory!SetPinned
<1>2. new.entity = o.entity /\ new.text = o.text /\ new.id = o.id
  <2>1. o \in Memory!Observation
    BY MemoryTyped DEF MemoryInv
  <2>2. QED
    BY <2>1 DEF Memory!Observation
<1> HIDE DEF new
<1>3. \A x \in obs : \E r \in obs' : /\ Memory!SameMemory(x, r)
                                     /\ (x.pinned => r.pinned \/ r.id = x.id)
  BY <1>1, <1>2 DEF Memory!SameMemory
<1>4. QED
  BY <1>3 DEF Memory!PinnedStays, Memory!LatestStays

LEMMA StepKeeps ==
  ASSUME MemoryInv, Memory!Next
  PROVE  Memory!PinnedStays /\ Memory!LatestStays
<1>1. CASE \E p \in Processes : Memory!Dedupe(p)
  BY <1>1, DedupeKeeps
<1>2. CASE \E p \in Processes : Memory!Overflow(p)
  BY <1>2, OverflowKeeps
<1>3. CASE \E o \in obs, pin \in BOOLEAN : Memory!SetPinned(o, pin)
  BY <1>3, PinKeeps
<1>4. CASE \E p \in Processes :
             \/ \E e \in Entities, t \in Texts, pin \in BOOLEAN : Memory!Add(p, e, t, pin)
             \/ \E E \in (SUBSET Entities) \ {{}}, k \in Limits : Memory!Compact(p, E, k)
             \/ Memory!Insert(p) \/ Memory!ReadBack(p) \/ Memory!GiveUp(p) \/ Memory!Break(p)
  <2>1. obs \subseteq obs'
    BY <1>4 DEF Memory!Add, Memory!Compact, Memory!Insert, Memory!ReadBack, Memory!GiveUp,
                Memory!Break
  <2>2. QED
    BY <2>1, StaysInPlace
<1>5. QED
  BY <1>1, <1>2, <1>3, <1>4 DEF Memory!Next, Memory!Step

(***************************************************************************)
(* MetricsImport.                                                          *)
(***************************************************************************)
ImportOp ==
  [at : {"idle", "costs", "tokens", "look", "insert", "update", "delete"},
   costs : [Sessions -> 0..MaxCosts], next : 1..(MaxCalls + 1),
   counted : SUBSET Events, spent : [Sessions -> Nat], todo : SUBSET Sessions]

Metric == [tokens : Nat, calls : Nat]

\* What an import has in hand was in the logs.
FromTheLogs(o) ==
  /\ \A s \in Sessions : /\ o.costs[s] <= Import!CostOf(s)
                         /\ o.spent[s] <= Import!CostOf(s)
  /\ o.counted \subseteq Import!Logged

AllFromTheLogs == \A p \in Import!Participants : FromTheLogs(importing[p])

ImportInv ==
  /\ Import!TypeOK /\ AllFromTheLogs
  /\ Import!CountedOnce /\ Import!EventsHaveSessions

LEMMA ImportCounts == \A S : Import!Cardinality(S) = Cardinality(S)
BY DEF Import!Cardinality, Cardinality

LEMMA ImportConstants ==
  /\ MaxCosts \in Nat /\ MaxCalls \in Nat /\ Owner \in [Events -> Sessions]
  /\ Unborn \notin Metric /\ Gone \notin Metric
BY StoreAssumption DEF Metric

LEMMA ImportTyped ==
  ASSUME Import!TypeOK
  PROVE  /\ costs \in Seq(Sessions) /\ Len(costs) <= MaxCosts
         /\ calls \in Seq(Events) /\ Len(calls) <= MaxCalls
         /\ metrics \in [Sessions -> {Unborn, Gone} \cup Metric]
         /\ tools \subseteq Events
         /\ seen \in [Dashboards -> [costs : 0..MaxCosts, calls : 0..MaxCalls]]
         /\ importing \in [Import!Participants -> ImportOp]
BY DEF Import!TypeOK, ImportOp, Metric

LEMMA LiveAreMetrics ==
  ASSUME Import!TypeOK, NEW s \in Sessions
  PROVE  Import!Live(s) <=> metrics[s] \in Metric
BY ImportTyped, ImportConstants DEF Import!Live

LEMMA CostsAreCounted ==
  ASSUME NEW q \in Seq(Sessions), NEW s
  PROVE  /\ Cardinality({i \in DOMAIN q : q[i] = s}) \in Nat
         /\ Cardinality({i \in DOMAIN q : q[i] = s}) <= Len(q)
         /\ IsFiniteSet({i \in DOMAIN q : q[i] = s})
<1>1. DOMAIN q = 1..Len(q) /\ Len(q) \in Nat
  OBVIOUS
<1>2. IsFiniteSet(1..Len(q)) /\ Cardinality(1..Len(q)) = Len(q)
  BY <1>1, FS_Interval
<1> DEFINE D == {i \in DOMAIN q : q[i] = s}
<1>3. D \in SUBSET (1..Len(q))
  BY <1>1
<1> HIDE DEF D
<1>4. IsFiniteSet(D) /\ Cardinality(D) <= Len(q)
  BY <1>2, <1>3, FS_Subset
<1>5. Cardinality(D) \in Nat
  BY <1>4, FS_CardinalityType
<1>6. QED
  BY <1>4, <1>5 DEF D

LEMMA CostOfIsNat ==
  ASSUME Import!TypeOK, NEW s \in Sessions
  PROVE  Import!CostOf(s) \in Nat /\ Import!CostOf(s) <= MaxCosts
<1>1. costs \in Seq(Sessions) /\ Len(costs) <= MaxCosts /\ Len(costs) \in Nat
  BY ImportTyped
<1>2. Import!CostOf(s) = Cardinality({i \in DOMAIN costs : costs[i] = s})
  BY ImportCounts DEF Import!CostOf
<1>3. Import!CostOf(s) \in Nat /\ Import!CostOf(s) <= Len(costs)
  BY <1>1, <1>2, CostsAreCounted
<1>4. QED
  BY <1>1, <1>3, ImportConstants

LEMMA LoggedIsFinite ==
  ASSUME NEW q \in Seq(Events)
  PROVE  IsFiniteSet({q[i] : i \in DOMAIN q})
<1> DEFINE L == {q[i] : i \in DOMAIN q}
<1>1. DOMAIN q = 1..Len(q) /\ Len(q) \in Nat
  OBVIOUS
<1>2. q \in [1..Len(q) -> L] /\ \A x \in L : \E i \in 1..Len(q) : q[i] = x
  BY <1>1
<1>3. IsFiniteSet(1..Len(q))
  BY <1>1, FS_Interval
<1> HIDE DEF L
<1>4. q \in Surjection(1..Len(q), L)
  BY <1>2 DEF Surjection
<1>5. QED
  BY <1>3, <1>4, FS_Surjection DEF L

\* More events, more calls.
LEMMA CallsGrow ==
  ASSUME NEW E, NEW F, E \subseteq F, IsFiniteSet(F), NEW s
  PROVE  /\ Import!Cardinality(Import!EventsOf(s, E)) \in Nat
         /\ Import!Cardinality(Import!EventsOf(s, F)) \in Nat
         /\ Import!Cardinality(Import!EventsOf(s, E))
              <= Import!Cardinality(Import!EventsOf(s, F))
<1>1. /\ Import!EventsOf(s, F) \in SUBSET F
      /\ Import!EventsOf(s, E) \in SUBSET Import!EventsOf(s, F)
  BY DEF Import!EventsOf
<1>2. IsFiniteSet(Import!EventsOf(s, F))
  BY <1>1, FS_Subset
<1>3. IsFiniteSet(Import!EventsOf(s, E))
  BY <1>1, <1>2, FS_Subset
<1>4. Cardinality(Import!EventsOf(s, E)) <= Cardinality(Import!EventsOf(s, F))
  BY <1>1, <1>2, FS_Subset
<1>5. QED
  BY <1>2, <1>3, <1>4, FS_CardinalityType, ImportCounts

LEMMA ImportStart == Import!Init => ImportInv
<1> SUFFICES ASSUME Import!Init PROVE ImportInv
  OBVIOUS
<1>1. /\ costs = <<>> /\ calls = <<>> /\ tools = {}
      /\ metrics = [s \in Sessions |-> Unborn]
      /\ seen = [d \in Dashboards |-> [costs |-> 0, calls |-> 0]]
      /\ importing = [p \in Import!Participants |-> Import!Idle]
  BY DEF Import!Init
<1>2. Import!Idle \in ImportOp
  BY ImportConstants DEF Import!Idle, ImportOp
<1>3. Import!TypeOK
  <2>1. importing \in [Import!Participants -> ImportOp]
    BY <1>1, <1>2
  <2>2. costs \in Seq(Sessions) /\ calls \in Seq(Events) /\ Len(costs) = 0 /\ Len(calls) = 0
    BY <1>1
  <2>3. /\ metrics \in [Sessions -> {Unborn, Gone} \cup [tokens : Nat, calls : Nat]]
        /\ seen \in [Dashboards -> [costs : 0..MaxCosts, calls : 0..MaxCalls]]
    BY <1>1, ImportConstants
  <2>4. QED
    BY <1>1, <2>1, <2>2, <2>3, ImportConstants DEF Import!TypeOK, ImportOp
<1>4. AllFromTheLogs
  <2> SUFFICES ASSUME NEW p \in Import!Participants PROVE FromTheLogs(importing[p])
    BY DEF AllFromTheLogs
  <2>1. importing[p] = Import!Idle
    BY <1>1
  <2>2. \A s \in Sessions : Import!CostOf(s) \in Nat
    BY <1>3, CostOfIsNat
  <2>3. QED
    BY <2>1, <2>2 DEF FromTheLogs, Import!Idle
<1>5. Import!CountedOnce
  BY <1>1 DEF Import!CountedOnce, Import!LiveSessions, Import!Live
<1>6. Import!EventsHaveSessions
  BY <1>1 DEF Import!EventsHaveSessions
<1>7. QED
  BY <1>3, <1>4, <1>5, <1>6 DEF ImportInv

(***************************************************************************)
(* Steps of one process, while the logs stay as they are.                  *)
(***************************************************************************)
LEMMA ImportMove ==
  ASSUME ImportInv, NEW p \in Import!Participants, NEW o \in ImportOp, FromTheLogs(o),
         importing' = [importing EXCEPT ![p] = o],
         costs' = costs, calls' = calls, tools' \subseteq Events,
         metrics' \in [Sessions -> {Unborn, Gone} \cup Metric],
         seen' \in [Dashboards -> [costs : 0..MaxCosts, calls : 0..MaxCalls]]
  PROVE  /\ Import!TypeOK' /\ AllFromTheLogs'
         /\ \A s : Import!CostOf(s)' = Import!CostOf(s)
         /\ Import!Logged' = Import!Logged
<1>1. Import!TypeOK /\ AllFromTheLogs
  BY DEF ImportInv
<1>2. importing' \in [Import!Participants -> ImportOp]
  BY <1>1, ImportTyped
<1>3. Import!TypeOK'
  BY <1>1, <1>2, ImportTyped DEF Import!TypeOK, ImportOp, Metric
<1>4. \A s : Import!CostOf(s)' = Import!CostOf(s)
  BY DEF Import!CostOf
<1>5. Import!Logged' = Import!Logged
  BY DEF Import!Logged
<1>6. AllFromTheLogs'
  <2> SUFFICES ASSUME NEW q \in Import!Participants PROVE FromTheLogs(importing[q])'
    BY DEF AllFromTheLogs, Import!Participants
  <2>1. CASE q = p
    <3>1. importing'[q] = o
      BY <1>1, <2>1, ImportTyped
    <3>2. QED
      BY <1>4, <1>5, <3>1 DEF FromTheLogs
  <2>2. CASE q # p
    <3>1. importing'[q] = importing[q] /\ FromTheLogs(importing[q])
      BY <1>1, <2>2, ImportTyped DEF AllFromTheLogs
    <3>2. QED
      BY <1>4, <1>5, <3>1 DEF FromTheLogs
  <2>3. QED
    BY <2>1, <2>2
<1>7. QED
  BY <1>3, <1>4, <1>5, <1>6

\* A step that leaves the tables as they are.
LEMMA ImportLooks ==
  ASSUME ImportInv, NEW p \in Import!Participants, NEW o \in ImportOp, FromTheLogs(o),
         importing' = [importing EXCEPT ![p] = o],
         costs' = costs, calls' = calls, tools' = tools, metrics' = metrics,
         seen' \in [Dashboards -> [costs : 0..MaxCosts, calls : 0..MaxCalls]]
  PROVE  ImportInv'
<1>1. /\ metrics' \in [Sessions -> {Unborn, Gone} \cup Metric] /\ tools' \subseteq Events
  BY ImportTyped DEF ImportInv
<1>2. /\ Import!TypeOK' /\ AllFromTheLogs'
      /\ \A s : Import!CostOf(s)' = Import!CostOf(s)
      /\ Import!Logged' = Import!Logged
  BY <1>1, ImportMove
<1>3. Import!CountedOnce'
  BY <1>2 DEF ImportInv, Import!CountedOnce, Import!LiveSessions, Import!Live, Import!EventsOf
<1>4. Import!EventsHaveSessions'
  BY DEF ImportInv, Import!EventsHaveSessions, Import!Live
<1>5. QED
  BY <1>2, <1>3, <1>4 DEF ImportInv

\* A step that writes the row of a session.
LEMMA ImportWrites ==
  ASSUME ImportInv, NEW p \in Import!Participants, NEW o \in ImportOp, FromTheLogs(o),
         importing' = [importing EXCEPT ![p] = o],
         costs' = costs, calls' = calls, tools' = tools, seen' = seen,
         NEW s \in Sessions, NEW m \in Metric, Import!Live(s),
         m.tokens <= Import!CostOf(s),
         m.calls <= Import!Cardinality(Import!EventsOf(s, Import!Logged)),
         metrics' = [metrics EXCEPT ![s] = m]
  PROVE  ImportInv'
<1>1. /\ metrics \in [Sessions -> {Unborn, Gone} \cup Metric] /\ tools \subseteq Events
      /\ seen \in [Dashboards -> [costs : 0..MaxCosts, calls : 0..MaxCalls]]
  BY ImportTyped DEF ImportInv
<1>2. metrics' \in [Sessions -> {Unborn, Gone} \cup Metric]
  BY <1>1
<1>3. /\ Import!TypeOK' /\ AllFromTheLogs'
      /\ \A r : Import!CostOf(r)' = Import!CostOf(r)
      /\ Import!Logged' = Import!Logged
  BY <1>1, <1>2, ImportMove
<1>4. metrics'[s] = m /\ \A r \in Sessions : r # s => metrics'[r] = metrics[r]
  BY <1>1
<1>5. Import!CountedOnce'
  <2> SUFFICES ASSUME NEW r \in Sessions, Import!Live(r)'
               PROVE  /\ metrics'[r].tokens <= Import!CostOf(r)'
                      /\ metrics'[r].calls
                           <= Import!Cardinality(Import!EventsOf(r, Import!Logged)')
    BY DEF Import!CountedOnce, Import!LiveSessions
  <2>1. Import!EventsOf(r, Import!Logged)' = Import!EventsOf(r, Import!Logged)
    BY <1>3 DEF Import!EventsOf
  <2>2. CASE r = s
    BY <1>3, <1>4, <2>1, <2>2
  <2>3. CASE r # s
    <3>1. Import!Live(r)
      BY <1>4, <2>3 DEF Import!Live
    <3>2. QED
      BY <1>3, <1>4, <2>1, <2>3, <3>1 DEF ImportInv, Import!CountedOnce, Import!LiveSessions
  <2>4. QED
    BY <2>2, <2>3
<1>6. Import!EventsHaveSessions'
  <2>1. m # Unborn /\ m # Gone
    BY ImportConstants
  <2>2. \A r \in Sessions : Import!Live(r) => Import!Live(r)'
    BY <1>4, <2>1 DEF Import!Live
  <2>3. \A e \in tools : Owner[e] \in Sessions
    BY <1>1, ImportConstants
  <2>4. QED
    BY <2>2, <2>3 DEF ImportInv, Import!EventsHaveSessions
<1>7. QED
  BY <1>3, <1>5, <1>6 DEF ImportInv

\* What a process has in hand, and what it may have.
LEMMA InHand ==
  ASSUME ImportInv, NEW p \in Import!Participants
  PROVE  /\ importing[p] \in ImportOp /\ FromTheLogs(importing[p])
         /\ Import!Idle \in ImportOp /\ FromTheLogs(Import!Idle)
         /\ \A l \in {"idle", "costs", "tokens", "look", "insert", "update", "delete"} :
              LET o == [importing[p] EXCEPT !.at = l]
                  i == [Import!Idle EXCEPT !.at = l]
              IN  o \in ImportOp /\ FromTheLogs(o) /\ i \in ImportOp /\ FromTheLogs(i)
<1>1. importing[p] \in ImportOp /\ FromTheLogs(importing[p])
  BY ImportTyped DEF ImportInv, AllFromTheLogs
<1>2. \A s \in Sessions : Import!CostOf(s) \in Nat
  BY CostOfIsNat DEF ImportInv
<1>3. Import!Idle \in ImportOp
  BY ImportConstants DEF Import!Idle, ImportOp
<1>4. FromTheLogs(Import!Idle)
  BY <1>2 DEF FromTheLogs, Import!Idle
<1>5. ASSUME NEW x \in ImportOp, FromTheLogs(x),
             NEW l \in {"idle", "costs", "tokens", "look", "insert", "update", "delete"}
      PROVE  [x EXCEPT !.at = l] \in ImportOp /\ FromTheLogs([x EXCEPT !.at = l])
  <2> DEFINE y == [x EXCEPT !.at = l]
  <2>1. y \in ImportOp
    BY DEF ImportOp
  <2>2. y.costs = x.costs /\ y.spent = x.spent /\ y.counted = x.counted
    BY DEF ImportOp
  <2> HIDE DEF y
  <2>3. FromTheLogs(y)
    BY <1>5, <2>2 DEF FromTheLogs
  <2>4. QED
    BY <2>1, <2>3 DEF y
<1>6. QED
  BY <1>1, <1>3, <1>4, <1>5

\* The lengths of the logs are within their bounds.
LEMMA SeenLengths ==
  ASSUME ImportInv, NEW d, NEW l \in {"costs", "calls"},
         \/ seen' = seen
         \/ /\ l = "costs" /\ d \in Dashboards /\ seen' = [seen EXCEPT ![d][l] = Len(costs)]
         \/ /\ l = "calls" /\ d \in Dashboards /\ seen' = [seen EXCEPT ![d][l] = Len(calls)]
  PROVE  seen' \in [Dashboards -> [costs : 0..MaxCosts, calls : 0..MaxCalls]]
<1>1. /\ seen \in [Dashboards -> [costs : 0..MaxCosts, calls : 0..MaxCalls]]
      /\ costs \in Seq(Sessions) /\ Len(costs) <= MaxCosts
      /\ calls \in Seq(Events) /\ Len(calls) <= MaxCalls
  BY ImportTyped DEF ImportInv
<1>2. Len(costs) \in 0..MaxCosts /\ Len(calls) \in 0..MaxCalls
  BY <1>1, ImportConstants
<1>3. CASE seen' = seen
  BY <1>1, <1>3
<1>4. CASE l = "costs" /\ d \in Dashboards /\ seen' = [seen EXCEPT ![d][l] = Len(costs)]
  <2>1. seen' = [seen EXCEPT ![d] = [seen[d] EXCEPT !.costs = Len(costs)]]
    BY <1>1, <1>4
  <2>2. [seen[d] EXCEPT !.costs = Len(costs)] \in [costs : 0..MaxCosts, calls : 0..MaxCalls]
    BY <1>1, <1>2, <1>4
  <2>3. QED
    BY <1>1, <2>1, <2>2
<1>5. CASE l = "calls" /\ d \in Dashboards /\ seen' = [seen EXCEPT ![d][l] = Len(calls)]
  <2>1. seen' = [seen EXCEPT ![d] = [seen[d] EXCEPT !.calls = Len(calls)]]
    BY <1>1, <1>5
  <2>2. [seen[d] EXCEPT !.calls = Len(calls)] \in [costs : 0..MaxCosts, calls : 0..MaxCalls]
    BY <1>1, <1>2, <1>5
  <2>3. QED
    BY <1>1, <2>1, <2>2
<1>6. QED
  BY <1>3, <1>4, <1>5

LEMMA ImportLookCosts ==
  ASSUME ImportInv, NEW p \in Import!Participants, Import!LookAtCosts(p)
  PROVE  ImportInv'
<1> DEFINE o == [importing[p] EXCEPT
             !.at = IF costs # <<>> /\ Import!Unremembered(p, Len(costs), "costs")
                    THEN "costs" ELSE "look"]
<1>1. /\ importing' = [importing EXCEPT ![p] = o]
      /\ costs' = costs /\ calls' = calls /\ tools' = tools /\ metrics' = metrics
      /\ seen' = IF p \in Dashboards THEN [seen EXCEPT ![p]["costs"] = Len(costs)] ELSE seen
  BY DEF Import!LookAtCosts, Import!To, Import!Go, Import!Remember
<1>2. o \in ImportOp /\ FromTheLogs(o)
  <2>1. CASE costs # <<>> /\ Import!Unremembered(p, Len(costs), "costs")
    <3>1. o = [importing[p] EXCEPT !.at = "costs"]
      BY <2>1
    <3> HIDE DEF o
    <3>2. QED
      BY <3>1, InHand
  <2>2. CASE ~(costs # <<>> /\ Import!Unremembered(p, Len(costs), "costs"))
    <3>1. o = [importing[p] EXCEPT !.at = "look"]
      BY <2>2
    <3> HIDE DEF o
    <3>2. QED
      BY <3>1, InHand
  <2>3. QED
    BY <2>1, <2>2
<1> HIDE DEF o
<1>3. seen' \in [Dashboards -> [costs : 0..MaxCosts, calls : 0..MaxCalls]]
  BY <1>1, SeenLengths
<1>4. QED
  BY <1>1, <1>2, <1>3, ImportLooks

LEMMA ImportLookCalls ==
  ASSUME ImportInv, NEW p \in Import!Participants, Import!LookAtCalls(p)
  PROVE  ImportInv'
<1> DEFINE o == [importing[p] EXCEPT
             !.at = IF calls # <<>> /\ Import!Unremembered(p, Len(calls), "calls")
                    THEN "insert" ELSE "idle"]
<1>1. /\ importing' = [importing EXCEPT ![p] = o]
      /\ costs' = costs /\ calls' = calls /\ tools' = tools /\ metrics' = metrics
      /\ seen' = IF p \in Dashboards THEN [seen EXCEPT ![p]["calls"] = Len(calls)] ELSE seen
  BY DEF Import!LookAtCalls, Import!To, Import!Go, Import!Remember
<1>2. o \in ImportOp /\ FromTheLogs(o)
  <2>1. CASE calls # <<>> /\ Import!Unremembered(p, Len(calls), "calls")
    <3>1. o = [importing[p] EXCEPT !.at = "insert"]
      BY <2>1
    <3> HIDE DEF o
    <3>2. QED
      BY <3>1, InHand
  <2>2. CASE ~(calls # <<>> /\ Import!Unremembered(p, Len(calls), "calls"))
    <3>1. o = [importing[p] EXCEPT !.at = "idle"]
      BY <2>2
    <3> HIDE DEF o
    <3>2. QED
      BY <3>1, InHand
  <2>3. QED
    BY <2>1, <2>2
<1> HIDE DEF o
<1>3. seen' \in [Dashboards -> [costs : 0..MaxCosts, calls : 0..MaxCalls]]
  BY <1>1, SeenLengths
<1>4. QED
  BY <1>1, <1>2, <1>3, ImportLooks

LEMMA ImportReadCosts ==
  ASSUME ImportInv, NEW p \in Import!Participants, Import!ReadCosts(p)
  PROVE  ImportInv'
<1> DEFINE c == [s \in Sessions |-> Import!CostOf(s)]
           t == {s \in Sessions : Import!CostOf(s) > 0}
           o == [importing[p] EXCEPT !.at = "tokens", !.costs = c, !.todo = t]
<1>1. /\ importing' = [importing EXCEPT ![p] = o]
      /\ costs' = costs /\ calls' = calls /\ tools' = tools /\ metrics' = metrics
      /\ seen' = seen
  BY DEF Import!ReadCosts, Import!Go
<1>2. /\ c \in [Sessions -> 0..MaxCosts] /\ t \in SUBSET Sessions
      /\ \A s \in Sessions : c[s] = Import!CostOf(s) /\ Import!CostOf(s) \in Nat
  <2>1. \A s \in Sessions : Import!CostOf(s) \in Nat /\ Import!CostOf(s) <= MaxCosts
    BY CostOfIsNat DEF ImportInv
  <2>2. QED
    BY <2>1, ImportConstants
<1> HIDE DEF c, t
<1>3. importing[p] \in ImportOp /\ FromTheLogs(importing[p])
  BY InHand
<1>4. /\ o \in ImportOp /\ o.costs = c
      /\ o.spent = importing[p].spent /\ o.counted = importing[p].counted
  BY <1>2, <1>3 DEF ImportOp
<1> HIDE DEF o
<1>5. FromTheLogs(o)
  BY <1>2, <1>3, <1>4 DEF FromTheLogs
<1>6. seen' \in [Dashboards -> [costs : 0..MaxCosts, calls : 0..MaxCalls]]
  BY <1>1, ImportTyped DEF ImportInv
<1>7. QED
  BY <1>1, <1>4, <1>5, <1>6, ImportLooks

LEMMA ImportListSessions ==
  ASSUME ImportInv, NEW p \in Import!Participants, Import!ListSessions(p)
  PROVE  ImportInv'
<1> DEFINE c == [s \in Sessions |-> IF Import!Live(s) THEN metrics[s].tokens ELSE 0]
           o == [importing[p] EXCEPT !.at = "update", !.todo = Import!LiveSessions,
                                     !.spent = c]
<1>1. /\ importing' = [importing EXCEPT ![p] = o]
      /\ costs' = costs /\ calls' = calls /\ tools' = tools /\ metrics' = metrics
      /\ seen' = seen
  BY DEF Import!ListSessions, Import!Go
<1>2. /\ c \in [Sessions -> Nat]
      /\ \A s \in Sessions : c[s] <= Import!CostOf(s)
  <2>1. ASSUME NEW s \in Sessions, Import!Live(s)
        PROVE  metrics[s].tokens \in Nat /\ metrics[s].tokens <= Import!CostOf(s)
    <3>1. metrics[s] \in Metric
      BY <2>1, LiveAreMetrics DEF ImportInv
    <3>2. QED
      BY <2>1, <3>1 DEF Metric, ImportInv, Import!CountedOnce, Import!LiveSessions
  <2>2. \A s \in Sessions : Import!CostOf(s) \in Nat
    BY CostOfIsNat DEF ImportInv
  <2>3. QED
    BY <2>1, <2>2
<1> HIDE DEF c
<1>3. importing[p] \in ImportOp /\ FromTheLogs(importing[p])
  BY InHand
<1>4. Import!LiveSessions \in SUBSET Sessions
  BY DEF Import!LiveSessions
<1>5. /\ o \in ImportOp /\ o.spent = c
      /\ o.costs = importing[p].costs /\ o.counted = importing[p].counted
  BY <1>2, <1>3, <1>4 DEF ImportOp
<1> HIDE DEF o
<1>6. FromTheLogs(o)
  BY <1>2, <1>3, <1>5 DEF FromTheLogs
<1>7. seen' \in [Dashboards -> [costs : 0..MaxCosts, calls : 0..MaxCalls]]
  BY <1>1, ImportTyped DEF ImportInv
<1>8. QED
  BY <1>1, <1>5, <1>6, <1>7, ImportLooks

\* Where a process starts over, or goes on to the other log.
LEMMA ImportEnds ==
  ASSUME ImportInv, NEW p \in Import!Participants,
         \/ Import!EndOfCosts(p) \/ Import!Refuse(p) \/ Import!EndOfCalls(p)
         \/ Import!Fail(p) \/ (p \in Dashboards /\ Import!Reopen(p))
  PROVE  ImportInv'
<1> DEFINE Over(o) ==
      /\ importing' = [importing EXCEPT ![p] = o]
      /\ costs' = costs /\ calls' = calls /\ tools' = tools /\ metrics' = metrics
<1>1. seen' \in [Dashboards -> [costs : 0..MaxCosts, calls : 0..MaxCalls]]
  <2>1. seen \in [Dashboards -> [costs : 0..MaxCosts, calls : 0..MaxCalls]]
    BY ImportTyped DEF ImportInv
  <2>2. CASE p \in Dashboards /\ Import!Reopen(p)
    <3>1. [costs |-> 0, calls |-> 0] \in [costs : 0..MaxCosts, calls : 0..MaxCalls]
      BY ImportConstants
    <3>2. QED
      BY <2>1, <2>2, <3>1 DEF Import!Reopen
  <2>3. CASE ~(p \in Dashboards /\ Import!Reopen(p))
    <3>1. seen' = seen
      BY <2>3 DEF Import!EndOfCosts, Import!Refuse, Import!EndOfCalls, Import!Fail
    <3>2. QED
      BY <2>1, <3>1
  <2>4. QED
    BY <2>2, <2>3
<1>2. Over(Import!Idle) \/ Over([Import!Idle EXCEPT !.at = "look"])
  <2>1. CASE Import!Fail(p)
    BY <2>1 DEF Import!Fail, Import!Go
  <2>2. CASE ~Import!Fail(p)
    BY <2>2 DEF Import!EndOfCosts, Import!Refuse, Import!EndOfCalls, Import!Reopen, Import!Go
  <2>3. QED
    BY <2>1, <2>2
<1>3. CASE Over(Import!Idle)
  BY <1>1, <1>3, InHand, ImportLooks
<1>4. CASE Over([Import!Idle EXCEPT !.at = "look"])
  BY <1>1, <1>4, InHand, ImportLooks
<1>5. QED
  BY <1>2, <1>3, <1>4

(***************************************************************************)
(* The logs grow.                                                          *)
(***************************************************************************)
LEMMA LogsGrow ==
  ASSUME ImportInv, Import!TypeOK', metrics' = metrics, tools' = tools, importing' = importing,
         \A s \in Sessions : Import!CostOf(s) <= Import!CostOf(s)',
         Import!Logged \subseteq Import!Logged'
  PROVE  ImportInv'
<1>1. \A s \in Sessions : /\ Import!CostOf(s) \in Nat /\ Import!CostOf(s)' \in Nat
                          /\ Import!CostOf(s) <= Import!CostOf(s)'
  <2>1. \A s \in Sessions : Import!CostOf(s) \in Nat
    BY CostOfIsNat DEF ImportInv
  <2>2. ASSUME NEW s \in Sessions PROVE Import!CostOf(s)' \in Nat
    <3> DEFINE q == costs'
    <3>1. q \in Seq(Sessions)
      BY DEF Import!TypeOK
    <3>2. Import!CostOf(s)' = Cardinality({i \in DOMAIN q : q[i] = s})
      BY ImportCounts DEF Import!CostOf
    <3> HIDE DEF q
    <3>3. QED
      BY <3>1, <3>2, CostsAreCounted
  <2>3. QED
    BY <2>1, <2>2
<1>2. AllFromTheLogs'
  <2> SUFFICES ASSUME NEW p \in Import!Participants PROVE FromTheLogs(importing[p])'
    BY DEF AllFromTheLogs, Import!Participants
  <2>1. importing[p] \in ImportOp /\ FromTheLogs(importing[p])
    BY InHand
  <2>2. \A s \in Sessions : importing[p].costs[s] \in Nat /\ importing[p].spent[s] \in Nat
    BY <2>1, ImportConstants DEF ImportOp
  <2>3. QED
    BY <1>1, <2>1, <2>2 DEF FromTheLogs
<1>3. Import!CountedOnce'
  <2> SUFFICES ASSUME NEW r \in Sessions, Import!Live(r)'
               PROVE  /\ metrics[r].tokens <= Import!CostOf(r)'
                      /\ metrics[r].calls
                           <= Import!Cardinality(Import!EventsOf(r, Import!Logged'))
    BY DEF Import!CountedOnce, Import!LiveSessions, Import!EventsOf
  <2>1. Import!Live(r)
    BY DEF Import!Live
  <2>2. metrics[r] \in Metric
    BY <2>1, LiveAreMetrics DEF ImportInv
  <2>3. /\ metrics[r].tokens <= Import!CostOf(r)
        /\ metrics[r].calls <= Import!Cardinality(Import!EventsOf(r, Import!Logged))
    BY <2>1 DEF ImportInv, Import!CountedOnce, Import!LiveSessions
  <2>4. IsFiniteSet(Import!Logged')
    <3>1. calls' \in Seq(Events)
      BY DEF Import!TypeOK
    <3> DEFINE q == calls'
    <3>2. q \in Seq(Events) /\ Import!Logged' = {q[i] : i \in DOMAIN q}
      BY <3>1 DEF Import!Logged
    <3> HIDE DEF q
    <3>3. QED
      BY <3>2, LoggedIsFinite
  <2> DEFINE E == Import!Logged
             F == Import!Logged'
  <2>5. /\ Import!Cardinality(Import!EventsOf(r, E)) \in Nat
        /\ Import!Cardinality(Import!EventsOf(r, F)) \in Nat
        /\ Import!Cardinality(Import!EventsOf(r, E))
             <= Import!Cardinality(Import!EventsOf(r, F))
    <3>1. E \subseteq F /\ IsFiniteSet(F)
      BY <2>4
    <3> HIDE DEF E, F
    <3>2. QED
      BY <3>1, CallsGrow
  <2>6. QED
    BY <1>1, <2>2, <2>3, <2>5 DEF Metric
<1>4. Import!EventsHaveSessions'
  BY DEF ImportInv, Import!EventsHaveSessions, Import!Live
<1>5. QED
  BY <1>2, <1>3, <1>4 DEF ImportInv

LEMMA ImportWriteCost ==
  ASSUME ImportInv, NEW s \in Sessions, Import!WriteCost(s)
  PROVE  ImportInv'
<1>1. /\ costs \in Seq(Sessions) /\ Len(costs) < MaxCosts /\ costs' = Append(costs, s)
      /\ calls' = calls /\ metrics' = metrics /\ tools' = tools /\ seen' = seen
      /\ importing' = importing
  BY ImportTyped DEF ImportInv, Import!WriteCost
<1>2. costs' \in Seq(Sessions) /\ Len(costs') <= MaxCosts
  BY <1>1, ImportConstants
<1>3. Import!TypeOK'
  BY <1>1, <1>2 DEF ImportInv, Import!TypeOK, Import!Participants
<1>4. ASSUME NEW r \in Sessions PROVE Import!CostOf(r) <= Import!CostOf(r)'
  <2> DEFINE q == Append(costs, s)
             C == {i \in DOMAIN costs : costs[i] = r}
             D == {i \in DOMAIN q : q[i] = r}
  <2>1. C \subseteq D /\ q \in Seq(Sessions)
    BY <1>1
  <2>2. Import!CostOf(r) = Cardinality(C)
    BY ImportCounts DEF Import!CostOf
  <2>3. Import!CostOf(r)' = Cardinality(D)
    BY <1>1, ImportCounts DEF Import!CostOf
  <2> HIDE DEF q
  <2>4. IsFiniteSet(D)
    BY <2>1, CostsAreCounted
  <2> HIDE DEF C, D
  <2>5. QED
    BY <2>1, <2>2, <2>3, <2>4, FS_Subset
<1>5. Import!Logged' = Import!Logged
  BY <1>1 DEF Import!Logged
<1>6. QED
  BY <1>1, <1>3, <1>4, <1>5, LogsGrow

LEMMA ImportWriteCall ==
  ASSUME ImportInv, NEW e \in Events, Import!WriteCall(e)
  PROVE  ImportInv'
<1>1. /\ calls \in Seq(Events) /\ Len(calls) < MaxCalls /\ calls' = Append(calls, e)
      /\ costs' = costs /\ metrics' = metrics /\ tools' = tools /\ seen' = seen
      /\ importing' = importing
  BY ImportTyped DEF ImportInv, Import!WriteCall
<1>2. calls' \in Seq(Events) /\ Len(calls') <= MaxCalls
  BY <1>1, ImportConstants
<1>3. Import!TypeOK'
  BY <1>1, <1>2 DEF ImportInv, Import!TypeOK, Import!Participants
<1>4. ASSUME NEW r \in Sessions PROVE Import!CostOf(r) <= Import!CostOf(r)'
  <2>1. Import!CostOf(r)' = Import!CostOf(r)
    BY <1>1 DEF Import!CostOf
  <2>2. Import!CostOf(r) \in Nat
    BY CostOfIsNat DEF ImportInv
  <2>3. QED
    BY <2>1, <2>2
<1>5. Import!Logged \subseteq Import!Logged'
  <2> SUFFICES ASSUME NEW i \in DOMAIN calls
               PROVE  \E j \in DOMAIN calls' : calls'[j] = calls[i]
    BY DEF Import!Logged
  <2>1. i \in DOMAIN Append(calls, e) /\ Append(calls, e)[i] = calls[i]
    BY <1>1
  <2>2. QED
    BY <1>1, <2>1
<1>6. QED
  BY <1>1, <1>3, <1>4, <1>5, LogsGrow

LEMMA ImportStarts ==
  ASSUME ImportInv, NEW s \in Sessions, Import!Start(s)
  PROVE  ImportInv'
<1>1. /\ metrics \in [Sessions -> {Unborn, Gone} \cup Metric]
      /\ metrics[s] = Unborn
      /\ metrics' = [metrics EXCEPT ![s] = [tokens |-> 0, calls |-> 0]]
      /\ calls' = calls /\ costs' = costs /\ tools' = tools /\ seen' = seen
      /\ importing' = importing
  BY ImportTyped DEF ImportInv, Import!Start
<1> DEFINE m == [tokens |-> 0, calls |-> 0]
<1>2. m \in Metric
  BY DEF Metric
<1>3. /\ metrics' \in [Sessions -> {Unborn, Gone} \cup Metric] /\ metrics'[s] = m
      /\ \A r \in Sessions : r # s => metrics'[r] = metrics[r]
  BY <1>1, <1>2
<1>4. Import!TypeOK'
  BY <1>1, <1>3 DEF ImportInv, Import!TypeOK, Import!Participants, Metric
<1>5. /\ \A r : Import!CostOf(r)' = Import!CostOf(r)
      /\ Import!Logged' = Import!Logged
  BY <1>1 DEF Import!CostOf, Import!Logged
<1>6. AllFromTheLogs'
  BY <1>1, <1>5 DEF ImportInv, AllFromTheLogs, FromTheLogs, Import!Participants
<1>7. Import!CountedOnce'
  <2> SUFFICES ASSUME NEW r \in Sessions, Import!Live(r)'
               PROVE  /\ metrics'[r].tokens <= Import!CostOf(r)'
                      /\ metrics'[r].calls
                           <= Import!Cardinality(Import!EventsOf(r, Import!Logged)')
    BY DEF Import!CountedOnce, Import!LiveSessions
  <2>1. Import!EventsOf(r, Import!Logged)' = Import!EventsOf(r, Import!Logged)
    BY <1>5 DEF Import!EventsOf
  <2>2. CASE r = s
    <3>1. Import!CostOf(r) \in Nat
      BY CostOfIsNat DEF ImportInv
    <3>2. Import!Cardinality(Import!EventsOf(r, Import!Logged)) \in Nat
      <4> DEFINE L == Import!Logged
      <4>1. IsFiniteSet(L)
        BY LoggedIsFinite, ImportTyped DEF ImportInv, Import!Logged
      <4> HIDE DEF L
      <4>2. Import!Cardinality(Import!EventsOf(r, L)) \in Nat
        BY <4>1, CallsGrow
      <4>3. QED
        BY <4>2 DEF L
    <3>3. metrics'[r].tokens = 0 /\ metrics'[r].calls = 0
      BY <1>3, <2>2
    <3>4. QED
      BY <1>5, <2>1, <3>1, <3>2, <3>3
  <2>3. CASE r # s
    <3>1. Import!Live(r)
      BY <1>3, <2>3 DEF Import!Live
    <3>2. QED
      BY <1>3, <1>5, <2>1, <2>3, <3>1 DEF ImportInv, Import!CountedOnce, Import!LiveSessions
  <2>4. QED
    BY <2>2, <2>3
<1>8. Import!EventsHaveSessions'
  <2>1. m # Unborn /\ m # Gone
    BY <1>2, ImportConstants
  <2>2. \A r \in Sessions : Import!Live(r) => Import!Live(r)'
    BY <1>3, <2>1 DEF Import!Live
  <2>3. \A e \in tools : Owner[e] \in Sessions
    BY ImportTyped, ImportConstants DEF ImportInv
  <2>4. QED
    BY <1>1, <2>2, <2>3 DEF ImportInv, Import!EventsHaveSessions
<1>9. QED
  BY <1>4, <1>6, <1>7, <1>8 DEF ImportInv

(***************************************************************************)
(* The tables are written.                                                 *)
(***************************************************************************)
LEMMA ImportWriteTokens ==
  ASSUME ImportInv, NEW p \in Import!Participants, NEW s \in Sessions, Import!WriteTokens(p, s)
  PROVE  ImportInv'
<1> DEFINE o == [importing[p] EXCEPT !.todo = @ \ {s}]
           m == [tokens |-> importing[p].costs[s], calls |-> metrics[s].calls]
<1>1. /\ importing' = [importing EXCEPT ![p] = o]
      /\ costs' = costs /\ calls' = calls /\ tools' = tools /\ seen' = seen
      /\ metrics' = IF Import!Live(s)
                    THEN [metrics EXCEPT ![s].tokens = importing[p].costs[s]] ELSE metrics
  BY DEF Import!WriteTokens, Import!Go
<1>2. importing[p] \in ImportOp /\ FromTheLogs(importing[p])
  BY InHand
<1>3. /\ o \in ImportOp /\ o.costs = importing[p].costs
      /\ o.spent = importing[p].spent /\ o.counted = importing[p].counted
  BY <1>2 DEF ImportOp
<1> HIDE DEF o
<1>4. FromTheLogs(o)
  BY <1>2, <1>3 DEF FromTheLogs
<1>5. seen' \in [Dashboards -> [costs : 0..MaxCosts, calls : 0..MaxCalls]]
  BY <1>1, ImportTyped DEF ImportInv
<1>6. CASE ~Import!Live(s)
  <2>1. metrics' = metrics
    BY <1>1, <1>6
  <2>2. QED
    BY <1>1, <1>3, <1>4, <1>5, <2>1, ImportLooks
<1>7. CASE Import!Live(s)
  <2>1. metrics[s] \in Metric /\ metrics \in [Sessions -> {Unborn, Gone} \cup Metric]
    BY <1>7, LiveAreMetrics, ImportTyped DEF ImportInv
  <2>2. importing[p].costs[s] \in Nat /\ importing[p].costs[s] <= Import!CostOf(s)
    BY <1>2, ImportConstants DEF ImportOp, FromTheLogs
  <2>3. m \in Metric /\ m.tokens = importing[p].costs[s] /\ m.calls = metrics[s].calls
    BY <2>1, <2>2 DEF Metric
  <2>4. metrics' = [metrics EXCEPT ![s] = m]
    <3>1. [metrics[s] EXCEPT !.tokens = importing[p].costs[s]] = m
      BY <2>1 DEF Metric
    <3>2. QED
      BY <1>1, <1>7, <2>1, <3>1
  <2> HIDE DEF m
  <2>5. /\ m.tokens <= Import!CostOf(s)
        /\ m.calls <= Import!Cardinality(Import!EventsOf(s, Import!Logged))
    BY <1>7, <2>2, <2>3 DEF ImportInv, Import!CountedOnce, Import!LiveSessions
  <2>6. QED
    BY <1>1, <1>3, <1>4, <1>7, <2>3, <2>4, <2>5, ImportWrites
<1>8. QED
  BY <1>6, <1>7

LEMMA ImportUpdateMetrics ==
  ASSUME ImportInv, NEW p \in Import!Participants, NEW s \in Sessions,
         Import!UpdateMetrics(p, s)
  PROVE  ImportInv'
<1> DEFINE o == [importing[p] EXCEPT !.todo = @ \ {s}]
           n == Import!Cardinality(Import!EventsOf(s, importing[p].counted))
           m == [tokens |-> importing[p].spent[s], calls |-> n]
<1>1. /\ importing' = [importing EXCEPT ![p] = o]
      /\ costs' = costs /\ calls' = calls /\ tools' = tools /\ seen' = seen
      /\ metrics' = IF Import!Live(s) THEN [metrics EXCEPT ![s] = m] ELSE metrics
  BY DEF Import!UpdateMetrics, Import!Go
<1>2. importing[p] \in ImportOp /\ FromTheLogs(importing[p])
  BY InHand
<1>3. /\ o \in ImportOp /\ o.costs = importing[p].costs
      /\ o.spent = importing[p].spent /\ o.counted = importing[p].counted
  BY <1>2 DEF ImportOp
<1> HIDE DEF o
<1>4. FromTheLogs(o)
  BY <1>2, <1>3 DEF FromTheLogs
<1>5. seen' \in [Dashboards -> [costs : 0..MaxCosts, calls : 0..MaxCalls]]
  BY <1>1, ImportTyped DEF ImportInv
<1>6. CASE ~Import!Live(s)
  <2>1. metrics' = metrics
    BY <1>1, <1>6
  <2>2. QED
    BY <1>1, <1>3, <1>4, <1>5, <2>1, ImportLooks
<1>7. CASE Import!Live(s)
  <2>1. importing[p].spent[s] \in Nat /\ importing[p].spent[s] <= Import!CostOf(s)
    BY <1>2 DEF ImportOp, FromTheLogs
  <2>2. n \in Nat /\ n <= Import!Cardinality(Import!EventsOf(s, Import!Logged))
    <3> DEFINE L == Import!Logged
               E == importing[p].counted
    <3>1. IsFiniteSet(L)
      BY LoggedIsFinite, ImportTyped DEF ImportInv, Import!Logged
    <3>2. E \subseteq L
      BY <1>2 DEF FromTheLogs
    <3> HIDE DEF L, E
    <3>3. /\ Import!Cardinality(Import!EventsOf(s, E)) \in Nat
          /\ Import!Cardinality(Import!EventsOf(s, E))
               <= Import!Cardinality(Import!EventsOf(s, L))
      BY <3>1, <3>2, CallsGrow
    <3>4. QED
      BY <3>3 DEF L, E
  <2> HIDE DEF n
  <2>3. m \in Metric /\ m.tokens = importing[p].spent[s] /\ m.calls = n
    BY <2>1, <2>2 DEF Metric
  <2>4. metrics' = [metrics EXCEPT ![s] = m]
    BY <1>1, <1>7
  <2> HIDE DEF m
  <2>5. /\ m.tokens <= Import!CostOf(s)
        /\ m.calls <= Import!Cardinality(Import!EventsOf(s, Import!Logged))
    BY <2>1, <2>2, <2>3
  <2>6. QED
    BY <1>1, <1>3, <1>4, <1>7, <2>3, <2>4, <2>5, ImportWrites
<1>8. QED
  BY <1>6, <1>7

LEMMA ImportInsert ==
  ASSUME ImportInv, NEW p \in Import!Participants, Import!Insert(p)
  PROVE  ImportInv'
<1> DEFINE e == Import!Line(p)
           o == [importing[p] EXCEPT !.next = @ + 1, !.counted = @ \cup {e}]
<1>1. /\ importing' = [importing EXCEPT ![p] = o]
      /\ costs' = costs /\ calls' = calls /\ metrics' = metrics /\ seen' = seen
      /\ importing[p].next <= Len(calls)
      /\ e \in importing[p].counted \cup tools \/ Import!Live(Owner[e])
      /\ tools' = IF e \in importing[p].counted THEN tools ELSE tools \cup {e}
  BY DEF Import!Insert, Import!Go
<1>2. importing[p] \in ImportOp /\ FromTheLogs(importing[p])
  BY InHand
<1>3. /\ calls \in Seq(Events) /\ Len(calls) <= MaxCalls /\ tools \subseteq Events
      /\ metrics \in [Sessions -> {Unborn, Gone} \cup Metric]
      /\ seen \in [Dashboards -> [costs : 0..MaxCosts, calls : 0..MaxCalls]]
  BY ImportTyped DEF ImportInv
<1>4. importing[p].next \in 1..Len(calls) /\ e = calls[importing[p].next]
  BY <1>1, <1>2, <1>3 DEF ImportOp, Import!Line
<1>5. e \in Events /\ e \in Import!Logged
  BY <1>3, <1>4 DEF Import!Logged
<1> HIDE DEF e
<1>6. /\ o \in ImportOp /\ o.costs = importing[p].costs
      /\ o.spent = importing[p].spent /\ o.counted = importing[p].counted \cup {e}
  <2>1. importing[p].next + 1 \in 1..(MaxCalls + 1)
    BY <1>3, <1>4, ImportConstants
  <2>2. importing[p].counted \cup {e} \in SUBSET Events
    BY <1>2, <1>5 DEF ImportOp
  <2>3. QED
    BY <1>2, <2>1, <2>2 DEF ImportOp
<1> HIDE DEF o
<1>7. FromTheLogs(o)
  BY <1>2, <1>5, <1>6 DEF FromTheLogs
<1>8. tools' \subseteq Events
  BY <1>1, <1>3, <1>5
<1>9. Import!TypeOK' /\ AllFromTheLogs' /\ \A s : Import!CostOf(s)' = Import!CostOf(s)
  BY <1>1, <1>3, <1>6, <1>7, <1>8, ImportMove
<1>10. Import!Logged' = Import!Logged
  BY <1>1 DEF Import!Logged
<1>11. Import!CountedOnce'
  BY <1>1, <1>9, <1>10
  DEF ImportInv, Import!CountedOnce, Import!LiveSessions, Import!Live, Import!EventsOf
<1>12. Import!EventsHaveSessions'
  <2> SUFFICES ASSUME NEW f \in tools' PROVE Import!Live(Owner[f])
    BY <1>1 DEF Import!EventsHaveSessions, Import!Live
  <2>1. CASE f \in tools
    BY <2>1 DEF ImportInv, Import!EventsHaveSessions
  <2>2. CASE f \notin tools
    <3>1. f = e /\ e \notin importing[p].counted \cup tools
      BY <1>1, <2>2
    <3>2. QED
      BY <1>1, <3>1
  <2>3. QED
    BY <2>1, <2>2
<1>13. QED
  BY <1>9, <1>11, <1>12 DEF ImportInv

\* delete_session: the events, then the row when there are none.
LEMMA ImportDeleteCalls ==
  ASSUME ImportInv, NEW p \in Import!Participants, NEW s \in Sessions,
         Import!DeleteCalls(p, s)
  PROVE  ImportInv'
<1> DEFINE o == [Import!Idle EXCEPT !.at = "delete", !.todo = {s}]
<1>1. /\ importing' = [importing EXCEPT ![p] = o]
      /\ costs' = costs /\ calls' = calls /\ metrics' = metrics /\ seen' = seen
      /\ tools' \subseteq tools
  BY DEF Import!DeleteCalls, Import!Go
<1>2. Import!Idle \in ImportOp /\ FromTheLogs(Import!Idle)
  BY InHand
<1>3. /\ o \in ImportOp /\ o.costs = Import!Idle.costs
      /\ o.spent = Import!Idle.spent /\ o.counted = Import!Idle.counted
  BY <1>2 DEF ImportOp
<1> HIDE DEF o
<1>4. FromTheLogs(o)
  BY <1>2, <1>3 DEF FromTheLogs
<1>5. /\ tools \subseteq Events
      /\ metrics \in [Sessions -> {Unborn, Gone} \cup Metric]
      /\ seen \in [Dashboards -> [costs : 0..MaxCosts, calls : 0..MaxCalls]]
  BY ImportTyped DEF ImportInv
<1>6. tools' \subseteq Events
  BY <1>1, <1>5
<1>7. Import!TypeOK' /\ AllFromTheLogs' /\ \A r : Import!CostOf(r)' = Import!CostOf(r)
  BY <1>1, <1>3, <1>4, <1>5, <1>6, ImportMove
<1>8. Import!Logged' = Import!Logged
  BY <1>1 DEF Import!Logged
<1>9. Import!CountedOnce'
  BY <1>1, <1>7, <1>8
  DEF ImportInv, Import!CountedOnce, Import!LiveSessions, Import!Live, Import!EventsOf
<1>10. Import!EventsHaveSessions'
  BY <1>1 DEF ImportInv, Import!EventsHaveSessions, Import!Live
<1>11. QED
  BY <1>7, <1>9, <1>10 DEF ImportInv

LEMMA ImportDeleteRow ==
  ASSUME ImportInv, NEW p \in Import!Participants, NEW s \in Sessions,
         Import!DeleteRow(p, s)
  PROVE  ImportInv'
<1>1. /\ importing' = [importing EXCEPT ![p] = Import!Idle]
      /\ costs' = costs /\ calls' = calls /\ tools' = tools /\ seen' = seen
      /\ metrics' = IF Import!EventsOf(s, tools) = {}
                    THEN [metrics EXCEPT ![s] = Gone] ELSE metrics
  BY DEF Import!DeleteRow, Import!Go
<1>2. Import!Idle \in ImportOp /\ FromTheLogs(Import!Idle)
  BY InHand
<1>3. /\ tools \subseteq Events
      /\ metrics \in [Sessions -> {Unborn, Gone} \cup Metric]
      /\ seen' \in [Dashboards -> [costs : 0..MaxCosts, calls : 0..MaxCalls]]
  BY <1>1, ImportTyped DEF ImportInv
<1>4. CASE Import!EventsOf(s, tools) # {}
  <2>1. metrics' = metrics
    BY <1>1, <1>4
  <2>2. QED
    BY <1>1, <1>2, <1>3, <2>1, ImportLooks
<1>5. CASE Import!EventsOf(s, tools) = {}
  <2>1. /\ metrics' = [metrics EXCEPT ![s] = Gone]
        /\ metrics' \in [Sessions -> {Unborn, Gone} \cup Metric]
        /\ metrics'[s] = Gone
        /\ \A r \in Sessions : r # s => metrics'[r] = metrics[r]
    BY <1>1, <1>3, <1>5
  <2>2. Import!TypeOK' /\ AllFromTheLogs' /\ \A r : Import!CostOf(r)' = Import!CostOf(r)
    BY <1>1, <1>2, <1>3, <2>1, ImportMove
  <2>3. Import!Logged' = Import!Logged
    BY <1>1 DEF Import!Logged
  <2>4. Import!CountedOnce'
    <3> SUFFICES ASSUME NEW r \in Sessions, Import!Live(r)'
                 PROVE  /\ metrics'[r].tokens <= Import!CostOf(r)'
                        /\ metrics'[r].calls
                             <= Import!Cardinality(Import!EventsOf(r, Import!Logged)')
      BY DEF Import!CountedOnce, Import!LiveSessions
    <3>1. Import!EventsOf(r, Import!Logged)' = Import!EventsOf(r, Import!Logged)
      BY <2>3 DEF Import!EventsOf
    <3>2. r # s /\ Import!Live(r)
      BY <2>1 DEF Import!Live
    <3>3. QED
      BY <2>1, <2>2, <3>1, <3>2 DEF ImportInv, Import!CountedOnce, Import!LiveSessions
  <2>5. Import!EventsHaveSessions'
    <3> SUFFICES ASSUME NEW e \in tools PROVE Import!Live(Owner[e])'
      BY <1>1 DEF Import!EventsHaveSessions
    <3>1. Owner[e] \in Sessions /\ Owner[e] # s /\ Import!Live(Owner[e])
      BY <1>3, <1>5, ImportConstants DEF Import!EventsOf, ImportInv, Import!EventsHaveSessions
    <3>2. QED
      BY <2>1, <3>1 DEF Import!Live
  <2>6. QED
    BY <2>2, <2>4, <2>5 DEF ImportInv
<1>6. QED
  BY <1>4, <1>5

LEMMA ImportStep == ImportInv /\ Import!Next => ImportInv'
<1> SUFFICES ASSUME ImportInv, Import!Next PROVE ImportInv'
  OBVIOUS
<1>1. CASE \E s \in Sessions : Import!Start(s) \/ Import!WriteCost(s)
  BY <1>1, ImportStarts, ImportWriteCost
<1>2. CASE \E e \in Events : Import!WriteCall(e)
  BY <1>2, ImportWriteCall
<1>3. ASSUME NEW p \in Import!Participants, Import!Import(p) PROVE ImportInv'
  BY <1>3, ImportLookCosts, ImportReadCosts, ImportWriteTokens, ImportEnds, ImportLookCalls,
     ImportInsert, ImportListSessions, ImportUpdateMetrics DEF Import!Import
<1>4. ASSUME NEW p \in Import!Participants,
             \/ Import!Fail(p)
             \/ \E s \in Sessions : Import!DeleteCalls(p, s) \/ Import!DeleteRow(p, s)
      PROVE  ImportInv'
  BY <1>4, ImportEnds, ImportDeleteCalls, ImportDeleteRow
<1>5. ASSUME NEW d \in Dashboards, Import!Reopen(d) PROVE ImportInv'
  BY <1>5, ImportEnds DEF Import!Participants
<1>6. QED
  BY <1>1, <1>2, <1>3, <1>4, <1>5 DEF Import!Next

LEMMA ImportStutters == ImportInv /\ UNCHANGED importVars => ImportInv'
<1> SUFFICES ASSUME ImportInv, UNCHANGED importVars PROVE ImportInv'
  OBVIOUS
<1>1. /\ costs' = costs /\ calls' = calls /\ metrics' = metrics /\ tools' = tools
      /\ seen' = seen /\ importing' = importing
  BY DEF importVars
<1>2. Import!TypeOK'
  BY <1>1 DEF ImportInv, Import!TypeOK, Import!Participants
<1>3. AllFromTheLogs'
  BY <1>1 DEF ImportInv, AllFromTheLogs, FromTheLogs, Import!Participants, Import!CostOf,
              Import!Logged
<1>4. Import!CountedOnce'
  BY <1>1 DEF ImportInv, Import!CountedOnce, Import!LiveSessions, Import!Live, Import!CostOf,
              Import!EventsOf, Import!Logged
<1>5. Import!EventsHaveSessions'
  BY <1>1 DEF ImportInv, Import!EventsHaveSessions, Import!Live
<1>6. QED
  BY <1>2, <1>3, <1>4, <1>5 DEF ImportInv

LEMMA ImportKept == ImportInv => ImportsAreExact
BY DEF ImportInv, ImportsAreExact

(***************************************************************************)
(* SessionBoard.                                                           *)
(***************************************************************************)
Apart(q) == \A i, j \in 1..Len(q) : q[i] = q[j] => i = j

BoardRow == [lane : Lanes, label : Labels]
BoardOp ==
  [at : {"idle", "list", "write"}, listing : Seq(Sessions),
   row : [Sessions -> BoardRow] \cup {<<>>}, next : Nat \ {0}]

\* What a refresh writes, it has read.
HasRead(o) == o.at = "write" => Apart(o.listing) /\ o.row \in [Sessions -> BoardRow]

\* A card, with places no further than there are sessions.
BoardCard ==
  [lane : Lanes, label : Labels,
   cell : (0..Cardinality(Sessions)) \X (0..Cardinality(Sessions)),
   backlog : 0..BoardChanges]

BoardInv ==
  /\ listing \in Seq(Sessions) /\ Apart(listing)
  /\ row \in [Sessions -> BoardRow]
  /\ unread \in [Sessions -> Nat] /\ \A s \in Sessions : unread[s] <= changes
  /\ cards \in [Sessions -> {None} \cup BoardCard]
  /\ changes \in 0..BoardChanges
  /\ showing \in [Board!Participants -> BoardOp]
  /\ \A p \in Board!Participants : HasRead(showing[p])

LEMMA BoardCounts == \A S : Board!Cardinality(S) = Cardinality(S)
BY DEF Board!Cardinality, Cardinality

LEMMA BoardConstants ==
  /\ BoardChanges \in Nat /\ IsFiniteSet(Sessions) /\ Cardinality(Sessions) \in Nat
  /\ Inbox \in Lanes
BY StoreAssumption, FS_CardinalityType

\* No more entries than sessions when none is repeated.
LEMMA ApartAreCounted ==
  ASSUME NEW q \in Seq(Sessions), Apart(q)
  PROVE  /\ Cardinality({q[i] : i \in DOMAIN q}) = Len(q)
         /\ Len(q) <= Cardinality(Sessions)
<1>1. DOMAIN q = 1..Len(q) /\ Len(q) \in Nat
  OBVIOUS
<1>2. IsFiniteSet(1..Len(q)) /\ Cardinality(1..Len(q)) = Len(q)
  BY <1>1, FS_Interval
<1> DEFINE K == {q[i] : i \in DOMAIN q}
           D == 1..Len(q)
<1>3. q \in [D -> K] /\ (\A x \in K : \E i \in D : q[i] = x) /\ K \in SUBSET Sessions
  BY <1>1
<1>4. \A i, j \in D : q[i] = q[j] => i = j
  BY DEF Apart
<1>5. IsFiniteSet(D) /\ Cardinality(D) = Len(q)
  BY <1>2
<1> HIDE DEF K, D
<1>6. q \in Surjection(D, K) /\ q \in Injection(D, K)
  BY <1>3, <1>4 DEF Surjection, Injection, IsInjective
<1>7. Cardinality(K) = Cardinality(D)
  BY <1>5, <1>6, FS_Surjection
<1>8. Cardinality(K) <= Cardinality(Sessions)
  BY <1>3, BoardConstants, FS_Subset
<1>9. QED
  BY <1>5, <1>7, <1>8 DEF K

LEMMA BoardTyped == BoardInv => Board!TypeOK
<1> SUFFICES ASSUME BoardInv PROVE Board!TypeOK
  OBVIOUS
<1>1. Len(listing) = Board!Cardinality(Board!Known)
  BY ApartAreCounted, BoardCounts DEF BoardInv, Board!Known
<1>2. unread \in [Sessions -> 0..BoardChanges]
  <2>1. \A s \in Sessions : unread[s] \in 0..BoardChanges
    BY BoardConstants DEF BoardInv
  <2>2. QED
    BY <2>1 DEF BoardInv
<1>3. row \in [Sessions -> Board!Row]
  BY DEF BoardInv, Board!Row, BoardRow
<1>4. cards \in [Sessions -> {None} \cup
       [lane : Lanes, label : Labels, cell : Board!Index \X Board!Index,
        backlog : 0..BoardChanges]]
  BY BoardCounts DEF BoardInv, BoardCard, Board!Index
<1>5. \A p \in Board!Participants : showing[p].at \in {"idle", "list", "write"}
  BY DEF BoardInv, BoardOp
<1>6. QED
  BY <1>1, <1>2, <1>3, <1>4, <1>5 DEF Board!TypeOK, BoardInv

\* A sequence without one of its entries, and with one put in front.
LEMMA TakenOut ==
  ASSUME NEW q \in Seq(Sessions), Apart(q), NEW k \in 1..Len(q)
  PROVE  /\ Board!RemoveAt(q, k) \in Seq(Sessions) /\ Apart(Board!RemoveAt(q, k))
         /\ \A i \in 1..Len(Board!RemoveAt(q, k)) : Board!RemoveAt(q, k)[i] # q[k]
<1> DEFINE n == Len(q)
           a == SubSeq(q, 1, k - 1)
           b == SubSeq(q, k + 1, n)
           r == a \o b
<1>1. Board!RemoveAt(q, k) = r
  BY DEF Board!RemoveAt
<1>2. n \in Nat /\ k \in Nat /\ k >= 1 /\ k <= n
  OBVIOUS
<1>3. /\ a \in Seq(Sessions) /\ Len(a) = k - 1 /\ \A i \in 1..(k - 1) : a[i] = q[i]
  BY <1>2
<1>4. /\ b \in Seq(Sessions) /\ Len(b) = n - k
      /\ \A i \in 1..(n - k) : b[i] = q[k + i]
  BY <1>2
<1>5. r \in Seq(Sessions) /\ Len(r) = n - 1
  <2> HIDE DEF a, b
  <2>1. a \in Seq(Sessions) /\ b \in Seq(Sessions)
    BY <1>3, <1>4
  <2>2. r \in Seq(Sessions) /\ Len(r) = Len(a) + Len(b)
    BY <2>1
  <2>3. QED
    BY <1>2, <1>3, <1>4, <2>2
<1>6. \A i \in 1..(n - 1) : r[i] = IF i < k THEN q[i] ELSE q[i + 1]
  <2> SUFFICES ASSUME NEW i \in 1..(n - 1) PROVE r[i] = IF i < k THEN q[i] ELSE q[i + 1]
    OBVIOUS
  <2> HIDE DEF a, b
  <2>1. CASE i < k
    <3>1. r[i] = a[i]
      BY <1>2, <1>3, <1>4, <2>1
    <3>2. QED
      BY <1>2, <1>3, <2>1, <3>1
  <2>2. CASE ~(i < k)
    <3>1. r[i] = b[i - (k - 1)]
      BY <1>2, <1>3, <1>4, <2>2
    <3>2. i - (k - 1) \in 1..(n - k) /\ k + (i - (k - 1)) = i + 1
      BY <1>2, <2>2
    <3>3. b[i - (k - 1)] = q[k + (i - (k - 1))]
      BY <1>4, <3>2
    <3>4. QED
      BY <2>2, <3>1, <3>2, <3>3
  <2>3. QED
    BY <2>1, <2>2
<1> HIDE DEF r
<1>7. Apart(r)
  <2> SUFFICES ASSUME NEW i \in 1..(n - 1), NEW j \in 1..(n - 1), r[i] = r[j] PROVE i = j
    BY <1>5 DEF Apart
  <2>1. \A x \in 1..(n - 1) : (IF x < k THEN x ELSE x + 1) \in 1..n
                              /\ r[x] = q[IF x < k THEN x ELSE x + 1]
    BY <1>2, <1>6
  <2>2. (IF i < k THEN i ELSE i + 1) = (IF j < k THEN j ELSE j + 1)
    BY <2>1 DEF Apart
  <2>3. QED
    BY <1>2, <2>2
<1>8. ASSUME NEW i \in 1..(n - 1) PROVE r[i] # q[k]
  <2>1. /\ (IF i < k THEN i ELSE i + 1) \in 1..n
        /\ r[i] = q[IF i < k THEN i ELSE i + 1]
        /\ (IF i < k THEN i ELSE i + 1) # k
    BY <1>2, <1>6
  <2>2. QED
    BY <2>1 DEF Apart
<1>9. QED
  BY <1>1, <1>5, <1>7, <1>8

LEMMA PutInFront ==
  ASSUME NEW q \in Seq(Sessions), Apart(q), NEW s \in Sessions,
         \A i \in 1..Len(q) : q[i] # s
  PROVE  <<s>> \o q \in Seq(Sessions) /\ Apart(<<s>> \o q)
<1> DEFINE r == <<s>> \o q
<1>1. /\ r \in Seq(Sessions) /\ Len(r) = Len(q) + 1 /\ Len(q) \in Nat
      /\ \A i \in 1..(Len(q) + 1) : r[i] = IF i = 1 THEN s ELSE q[i - 1]
  OBVIOUS
<1> HIDE DEF r
<1>2. Apart(r)
  <2> SUFFICES ASSUME NEW i \in 1..(Len(q) + 1), NEW j \in 1..(Len(q) + 1), r[i] = r[j]
               PROVE  i = j
    BY <1>1 DEF Apart
  <2>1. CASE i = 1
    <3>1. CASE j # 1
      <4>1. j - 1 \in 1..Len(q) /\ r[j] = q[j - 1] /\ r[i] = s
        BY <1>1, <2>1, <3>1
      <4>2. QED
        BY <4>1
    <3>2. QED
      BY <2>1, <3>1
  <2>2. CASE i # 1 /\ j = 1
    <3>1. i - 1 \in 1..Len(q) /\ r[i] = q[i - 1] /\ r[j] = s
      BY <1>1, <2>2
    <3>2. QED
      BY <3>1
  <2>3. CASE i # 1 /\ j # 1
    <3>1. /\ i - 1 \in 1..Len(q) /\ r[i] = q[i - 1]
          /\ j - 1 \in 1..Len(q) /\ r[j] = q[j - 1]
      BY <1>1, <2>3
    <3>2. i - 1 = j - 1
      BY <3>1 DEF Apart
    <3>3. QED
      BY <1>1, <3>2
  <2>4. QED
    BY <2>1, <2>2, <2>3
<1>3. QED
  BY <1>1, <1>2 DEF r

\* The listing, with a session moved to its front or taken out.
LEMMA BoardListings ==
  ASSUME BoardInv, NEW s \in Sessions
  PROVE  /\ Board!Others(s) \in Seq(Sessions) /\ Apart(Board!Others(s))
         /\ Board!ToFront(s) \in Seq(Sessions) /\ Apart(Board!ToFront(s))
<1>1. listing \in Seq(Sessions) /\ Apart(listing) /\ DOMAIN listing = 1..Len(listing)
  BY DEF BoardInv
<1> DEFINE q == Board!Others(s)
<1>2. q \in Seq(Sessions) /\ Apart(q) /\ \A i \in 1..Len(q) : q[i] # s
  <2>1. CASE s \in Board!Known
    <3>1. \E i \in DOMAIN listing : listing[i] = s
      BY <2>1 DEF Board!Known
    <3>2. Board!Place(s) \in 1..Len(listing) /\ listing[Board!Place(s)] = s
      BY <1>1, <3>1 DEF Board!Place
    <3>3. q = Board!RemoveAt(listing, Board!Place(s))
      BY <2>1 DEF Board!Others
    <3> HIDE DEF q
    <3>4. QED
      BY <1>1, <3>2, <3>3, TakenOut
  <2>2. CASE s \notin Board!Known
    <3>1. q = listing
      BY <2>2 DEF Board!Others
    <3>2. QED
      BY <1>1, <2>2, <3>1 DEF Board!Known
  <2>3. QED
    BY <2>1, <2>2
<1> HIDE DEF q
<1>3. <<s>> \o q \in Seq(Sessions) /\ Apart(<<s>> \o q)
  BY <1>2, PutInFront
<1>4. QED
  BY <1>2, <1>3 DEF q, Board!ToFront

LEMMA BoardStart == Board!Init => BoardInv
<1> SUFFICES ASSUME Board!Init PROVE BoardInv
  OBVIOUS
<1>1. /\ listing = <<>> /\ changes = 0
      /\ row \in [Sessions -> [lane : {Inbox}, label : Labels]]
      /\ unread = [s \in Sessions |-> 0] /\ cards = [s \in Sessions |-> None]
      /\ showing = [p \in Board!Participants |-> Board!Idle]
  BY DEF Board!Init
<1>2. Board!Idle \in BoardOp /\ HasRead(Board!Idle)
  BY DEF Board!Idle, BoardOp, HasRead
<1>3. row \in [Sessions -> BoardRow]
  BY <1>1, BoardConstants DEF BoardRow
<1>4. listing \in Seq(Sessions) /\ Apart(listing)
  BY <1>1 DEF Apart
<1>5. QED
  BY <1>1, <1>2, <1>3, <1>4, BoardConstants DEF BoardInv

(***************************************************************************)
(* The steps.                                                              *)
(***************************************************************************)
LEMMA BoardMove ==
  ASSUME BoardInv, NEW p \in Board!Participants, NEW o \in BoardOp, HasRead(o),
         showing' = [showing EXCEPT ![p] = o]
  PROVE  /\ showing' \in [Board!Participants -> BoardOp]
         /\ \A q \in Board!Participants : HasRead(showing'[q])
BY DEF BoardInv

LEMMA BoardHand ==
  ASSUME BoardInv, NEW p \in Board!Participants
  PROVE  /\ showing[p] \in BoardOp /\ HasRead(showing[p])
         /\ Board!Idle \in BoardOp /\ HasRead(Board!Idle)
         /\ LET o == [Board!Idle EXCEPT !.at = "list"] IN o \in BoardOp /\ HasRead(o)
<1>1. showing[p] \in BoardOp /\ HasRead(showing[p])
  BY DEF BoardInv
<1>2. Board!Idle = [at |-> "idle", listing |-> <<>>, row |-> <<>>, next |-> 1]
  BY DEF Board!Idle
<1>3. [Board!Idle EXCEPT !.at = "list"]
        = [at |-> "list", listing |-> <<>>, row |-> <<>>, next |-> 1]
  BY <1>2
<1>4. ASSUME NEW l \in {"idle", "list"}
      PROVE  LET o == [at |-> l, listing |-> <<>>, row |-> <<>>, next |-> 1]
             IN  o \in BoardOp /\ HasRead(o)
  <2>1. <<>> \in Seq(Sessions) /\ 1 \in Nat \ {0}
    OBVIOUS
  <2>2. QED
    BY <2>1 DEF BoardOp, HasRead
<1>5. QED
  BY <1>1, <1>2, <1>3, <1>4

\* A change made by a statement, which leaves the cards to the refresh.
LEMMA BoardChanged ==
  ASSUME BoardInv, NEW p \in Board!Participants,
         listing' \in Seq(Sessions), Apart(listing'), row' \in [Sessions -> BoardRow],
         unread' \in [Sessions -> Nat], \A s \in Sessions : unread'[s] <= unread[s] + 1,
         cards' \in [Sessions -> {None} \cup BoardCard],
         changes < BoardChanges, changes' = changes + 1,
         showing' = [showing EXCEPT ![p] = [Board!Idle EXCEPT !.at = "list"]]
  PROVE  BoardInv'
<1>1. /\ showing' \in [Board!Participants -> BoardOp]
      /\ \A q \in Board!Participants : HasRead(showing'[q])
  BY BoardHand, BoardMove
<1>2. changes' \in 0..BoardChanges
  BY BoardConstants DEF BoardInv
<1>3. ASSUME NEW s \in Sessions PROVE unread'[s] <= changes'
  <2>1. unread[s] \in Nat /\ unread[s] <= changes /\ unread'[s] \in Nat /\ changes \in Nat
    BY BoardConstants DEF BoardInv
  <2>2. QED
    BY <2>1
<1>4. QED
  BY <1>1, <1>2, <1>3 DEF BoardInv, Board!Participants, HasRead, Apart

LEMMA BoardWriters ==
  ASSUME BoardInv, NEW p \in Writers, NEW s \in Sessions,
         \/ Board!InsertSession(p, s) \/ Board!SendHandoff(p, s) \/ Board!MarkRead(p, s)
         \/ Board!DeleteSession(p, s)
         \/ \E l \in Lanes : Board!UpdateState(p, s, l)
         \/ \E b \in Labels : Board!UpdateWorktree(p, s, b)
  PROVE  BoardInv'
<1>1. /\ p \in Board!Participants
      /\ listing \in Seq(Sessions) /\ Apart(listing) /\ row \in [Sessions -> BoardRow]
      /\ unread \in [Sessions -> Nat] /\ cards \in [Sessions -> {None} \cup BoardCard]
  BY DEF Board!Participants, BoardInv
<1>2. /\ changes < BoardChanges /\ changes' = changes + 1
      /\ showing' = [showing EXCEPT ![p] = [Board!Idle EXCEPT !.at = "list"]]
  BY DEF Board!InsertSession, Board!SendHandoff, Board!MarkRead, Board!DeleteSession,
         Board!UpdateState, Board!UpdateWorktree, Board!Change, Board!Go
<1>3. listing' \in {listing, Board!ToFront(s), Board!Others(s)}
  BY DEF Board!InsertSession, Board!SendHandoff, Board!MarkRead, Board!DeleteSession,
         Board!UpdateState, Board!UpdateWorktree
<1>4. listing' \in Seq(Sessions) /\ Apart(listing')
  BY <1>1, <1>3, BoardListings
<1>5. row' \in [Sessions -> BoardRow]
  <2>1. CASE \E l \in Lanes : Board!UpdateState(p, s, l)
    <3>1. PICK l \in Lanes : row' = [row EXCEPT ![s].lane = l]
      BY <2>1 DEF Board!UpdateState
    <3>2. [row[s] EXCEPT !.lane = l] \in BoardRow
      BY <1>1 DEF BoardRow
    <3>3. QED
      BY <1>1, <3>1, <3>2
  <2>2. CASE \E b \in Labels : Board!UpdateWorktree(p, s, b)
    <3>1. PICK b \in Labels : row' = [row EXCEPT ![s].label = b]
      BY <2>2 DEF Board!UpdateWorktree
    <3>2. [row[s] EXCEPT !.label = b] \in BoardRow
      BY <1>1 DEF BoardRow
    <3>3. QED
      BY <1>1, <3>1, <3>2
  <2>3. CASE \/ Board!InsertSession(p, s) \/ Board!SendHandoff(p, s)
             \/ Board!MarkRead(p, s) \/ Board!DeleteSession(p, s)
    <3>1. row' = row
      BY <2>3 DEF Board!InsertSession, Board!SendHandoff, Board!MarkRead, Board!DeleteSession
    <3>2. QED
      BY <1>1, <3>1
  <2>4. QED
    BY <2>1, <2>2, <2>3
<1>6. /\ unread' \in [Sessions -> Nat]
      /\ \A r \in Sessions : unread'[r] <= unread[r] + 1
  <2>1. unread' \in {unread, [unread EXCEPT ![s] = @ + 1], [unread EXCEPT ![s] = 0]}
    BY DEF Board!InsertSession, Board!SendHandoff, Board!MarkRead, Board!DeleteSession,
           Board!UpdateState, Board!UpdateWorktree
  <2>2. CASE unread' = unread
    BY <1>1, <2>2
  <2>3. CASE unread' = [unread EXCEPT ![s] = @ + 1]
    BY <1>1, <2>3
  <2>4. CASE unread' = [unread EXCEPT ![s] = 0]
    BY <1>1, <2>4
  <2>5. QED
    BY <2>1, <2>2, <2>3, <2>4
<1>7. cards' \in [Sessions -> {None} \cup BoardCard]
  <2>1. cards' \in {cards, [cards EXCEPT ![s] = None]}
    BY DEF Board!InsertSession, Board!SendHandoff, Board!MarkRead, Board!DeleteSession,
           Board!UpdateState, Board!UpdateWorktree, Board!Change
  <2>2. QED
    BY <1>1, <2>1
<1>8. QED
  BY <1>1, <1>2, <1>4, <1>5, <1>6, <1>7, BoardChanged

\* The places that a refresh derives.
LEMMA RowIsWithin ==
  ASSUME NEW o \in BoardOp, Apart(o.listing), NEW n
  PROVE  Board!RowIndex(o, n) \in 0..Cardinality(Sessions)
<1> DEFINE q == o.listing
           D == 1..Len(q)
           L == {o.row[q[i]].label : i \in D}
           g == [i \in D |-> o.row[q[i]].label]
           B == L \cap {b \in Labels : b < o.row[q[n]].label}
<1>1. q \in Seq(Sessions) /\ Len(q) \in Nat /\ DOMAIN q = D
  BY DEF BoardOp
<1>2. Len(q) <= Cardinality(Sessions)
  BY <1>1, ApartAreCounted
<1>3. IsFiniteSet(D) /\ Cardinality(D) = Len(q)
  <2> HIDE DEF q
  <2>1. 1 \in Int /\ Len(q) \in Int /\ Len(q) >= 0
    BY <1>1
  <2>2. QED
    BY <2>1, FS_Interval
<1>4. g \in Surjection(D, L)
  BY DEF Surjection
<1>5. B \in SUBSET L
  OBVIOUS
<1>6. Board!RowIndex(o, n) = Cardinality(B)
  BY <1>1, BoardCounts DEF Board!RowIndex
<1> HIDE DEF q, D, L, g, B
<1>7. IsFiniteSet(L) /\ Cardinality(L) <= Len(q)
  BY <1>3, <1>4, FS_Surjection
<1>8. IsFiniteSet(B) /\ Cardinality(B) <= Cardinality(L)
  BY <1>5, <1>7, FS_Subset
<1>9. Cardinality(B) \in Nat /\ Cardinality(L) \in Nat
  BY <1>7, <1>8, FS_CardinalityType
<1>10. QED
  BY <1>1, <1>2, <1>6, <1>7, <1>8, <1>9, BoardConstants

LEMMA StackIsWithin ==
  ASSUME NEW o \in BoardOp, Apart(o.listing), NEW n \in 1..Len(o.listing)
  PROVE  Board!StackIndex(o, n) \in 0..Cardinality(Sessions)
<1> DEFINE q == o.listing
           D == 1..(n - 1)
           B == {i \in D : o.row[q[i]] = o.row[q[n]]}
<1>1. q \in Seq(Sessions) /\ Len(q) \in Nat /\ n \in Nat /\ n >= 1 /\ n <= Len(q)
  BY DEF BoardOp
<1>2. Len(q) <= Cardinality(Sessions)
  BY <1>1, ApartAreCounted
<1>3. IsFiniteSet(D) /\ Cardinality(D) = n - 1
  <2>1. 1 \in Int /\ n - 1 \in Int /\ n - 1 >= 0
    BY <1>1
  <2>2. QED
    BY <2>1, FS_Interval
<1>4. B \in SUBSET D
  OBVIOUS
<1>5. Board!StackIndex(o, n) = Cardinality(B)
  BY BoardCounts DEF Board!StackIndex
<1> HIDE DEF q, D, B
<1>6. IsFiniteSet(B) /\ Cardinality(B) <= Cardinality(D)
  BY <1>3, <1>4, FS_Subset
<1>7. Cardinality(B) \in Nat
  BY <1>6, FS_CardinalityType
<1>8. QED
  BY <1>1, <1>2, <1>3, <1>5, <1>6, <1>7, BoardConstants

LEMMA BoardWritesCard ==
  ASSUME BoardInv, NEW p \in Board!Participants, Board!WriteCard(p)
  PROVE  BoardInv'
<1> DEFINE o == showing[p]
           n == o.next
           s == o.listing[n]
           c == Board!Card(o, n)
           x == [o EXCEPT !.next = @ + 1]
<1>1. /\ o.at = "write" /\ n <= Len(o.listing)
      /\ cards' = [cards EXCEPT ![s] = c] /\ showing' = [showing EXCEPT ![p] = x]
      /\ UNCHANGED <<listing, row, unread, changes>>
  BY DEF Board!WriteCard, Board!Go, Board!At
<1>2. o \in BoardOp /\ HasRead(o)
  BY BoardHand
<1>3. /\ Apart(o.listing) /\ o.row \in [Sessions -> BoardRow]
      /\ o.listing \in Seq(Sessions) /\ n \in 1..Len(o.listing)
  BY <1>1, <1>2 DEF HasRead, BoardOp
<1>4. s \in Sessions
  BY <1>3
<1>5. c \in BoardCard
  <2>1. o.row[s].lane \in Lanes /\ o.row[s].label \in Labels
    BY <1>3, <1>4 DEF BoardRow
  <2>2. unread[s] \in 0..BoardChanges
    BY <1>4, BoardConstants DEF BoardInv
  <2>3. /\ Board!RowIndex(o, n) \in 0..Cardinality(Sessions)
        /\ Board!StackIndex(o, n) \in 0..Cardinality(Sessions)
    BY <1>2, <1>3, RowIsWithin, StackIsWithin
  <2>4. c = [lane |-> o.row[s].lane, label |-> o.row[s].label,
             cell |-> <<Board!RowIndex(o, n), Board!StackIndex(o, n)>>, backlog |-> unread[s]]
    BY DEF Board!Card
  <2> HIDE DEF c
  <2>5. QED
    BY <2>1, <2>2, <2>3, <2>4 DEF BoardCard
<1>6. x \in BoardOp /\ HasRead(x)
  <2>1. x \in BoardOp
    BY <1>2 DEF BoardOp
  <2>2. x.at = o.at /\ x.listing = o.listing /\ x.row = o.row
    BY <1>2 DEF BoardOp
  <2> HIDE DEF x
  <2>3. QED
    BY <1>2, <2>1, <2>2 DEF HasRead
<1> HIDE DEF x, c
<1>7. /\ showing' \in [Board!Participants -> BoardOp]
      /\ \A q \in Board!Participants : HasRead(showing'[q])
  BY <1>1, <1>6, BoardMove
<1>8. cards' \in [Sessions -> {None} \cup BoardCard]
  BY <1>1, <1>4, <1>5 DEF BoardInv
<1>9. QED
  BY <1>1, <1>7, <1>8 DEF BoardInv, Board!Participants, HasRead, Apart

LEMMA BoardStep == BoardInv /\ Board!Next => BoardInv'
<1> SUFFICES ASSUME BoardInv, Board!Next PROVE BoardInv'
  OBVIOUS
<1>1. ASSUME NEW p \in Writers, NEW s \in Sessions,
             \/ Board!InsertSession(p, s) \/ Board!SendHandoff(p, s)
             \/ Board!MarkRead(p, s) \/ Board!DeleteSession(p, s)
             \/ \E l \in Lanes : Board!UpdateState(p, s, l)
             \/ \E b \in Labels : Board!UpdateWorktree(p, s, b)
      PROVE  BoardInv'
  BY <1>1, BoardWriters
<1>2. ASSUME NEW p \in Board!Participants, Board!WriteCard(p) PROVE BoardInv'
  BY <1>2, BoardWritesCard
<1>3. ASSUME NEW p \in Board!Participants,
             \/ Board!Tick(p) \/ Board!ListSessions(p) \/ Board!RefuseCard(p)
             \/ Board!EndRefresh(p) \/ Board!BreakOff(p)
      PROVE  BoardInv'
  <2> DEFINE w == [at |-> "write", listing |-> listing, row |-> row, next |-> 1]
             l == [Board!Idle EXCEPT !.at = "list"]
  <2>1. UNCHANGED <<listing, row, unread, cards, changes>>
    BY <1>3 DEF Board!Tick, Board!ListSessions, Board!RefuseCard, Board!EndRefresh,
                Board!BreakOff
  <2>2. \E o \in {Board!Idle, l, w} : showing' = [showing EXCEPT ![p] = o]
    BY <1>3 DEF Board!Tick, Board!ListSessions, Board!RefuseCard, Board!EndRefresh,
                Board!BreakOff, Board!Go
  <2>3. w \in BoardOp /\ HasRead(w)
    BY DEF BoardInv, BoardOp, HasRead
  <2> HIDE DEF w
  <2>4. /\ showing' \in [Board!Participants -> BoardOp]
        /\ \A q \in Board!Participants : HasRead(showing'[q])
    BY <2>2, <2>3, BoardHand, BoardMove
  <2>5. QED
    BY <2>1, <2>4 DEF BoardInv, Board!Participants, HasRead, Apart
<1>4. QED
  BY <1>1, <1>2, <1>3 DEF Board!Next, Board!Refresh

LEMMA BoardStutters == BoardInv /\ UNCHANGED boardVars => BoardInv'
BY DEF boardVars, BoardInv, Board!Participants, HasRead, Apart

(***************************************************************************)
(* MemoryConnector.                                                        *)
(***************************************************************************)
SyncOp ==
  [at : {"idle", "open", "sign", "compare", "read"}, file : Files, left : 0..Limit,
   signature : 0..(FileChanges + 1), inode : Sync!Inodes, body : Sync!Contents,
   read : 0..Limit]

FileCount == Cardinality(Files)

\* A path names a file of its own, one that was made before now.
FilesAreApart ==
  /\ \A f \in Files : inode[f] <= FileCount + Sync!Changes
  /\ \A f, g \in Files : inode[f] = inode[g] => f = g

\* A process that has yet to open its file has read nothing of it.
UnreadBefore ==
  \A p \in Processes : syncing[p].at \in {"open", "sign", "compare"} => syncing[p].read = 0

\* The parts of the types.
SyncTypes == Sync!TypeOK /\ FilesAreApart /\ UnreadBefore

LEMMA SyncCounts == \A S : Sync!Cardinality(S) = Cardinality(S)
BY DEF Sync!Cardinality, Cardinality

LEMMA SyncConstants ==
  /\ Limit \in Nat /\ MaxRecords \in Nat /\ FileChanges \in Nat
  /\ FileCount \in Nat /\ IsFiniteSet(Files) /\ Files = 1..FileCount /\ 1 \in Files
  /\ Sync!Inodes = 1..(FileCount + FileChanges)
BY StoreAssumption, FS_CardinalityType, SyncCounts DEF FileCount, Sync!Inodes

LEMMA ContentsAreSequences ==
  ASSUME NEW c \in Sync!Contents
  PROVE  /\ Len(c) \in Nat /\ DOMAIN c = 1..Len(c) /\ c \in Seq(Records)
         /\ \A i \in 1..Len(c) : c[i] \in Records
<1>1. PICK n \in 0..MaxRecords : c \in [1..n -> Records]
  BY DEF Sync!Contents
<1>2. n \in Nat
  BY <1>1, SyncConstants
<1>3. c \in Seq(Records) /\ Len(c) = n
  BY <1>1, <1>2
<1>4. QED
  BY <1>1, <1>2, <1>3

LEMMA EmptyIsContents == <<>> \in Sync!Contents
<1>1. 0 \in 0..MaxRecords
  BY SyncConstants
<1>2. <<>> \in [1..0 -> Records]
  OBVIOUS
<1>3. QED
  BY <1>1, <1>2 DEF Sync!Contents

LEMMA SyncTyped ==
  ASSUME Sync!TypeOK
  PROVE  /\ kind \in Kinds
         /\ inode \in [Files -> Sync!Inodes] /\ lines \in [Sync!Inodes -> Sync!Contents]
         /\ time \in [Files -> 1..(FileChanges + 1)]
         /\ imported \subseteq Files \X Records
         /\ check \in [Files -> 0..(FileChanges + 1)]
         /\ syncing \in [Processes -> SyncOp]
         /\ \A p \in Processes : syncing[p].read <= syncing[p].left
BY DEF Sync!TypeOK, SyncOp

\* The changes of files, one by one.
Counted(t) == {c \in Files \X (2..(FileChanges + 1)) : c[2] <= t[c[1]]}

LEMMA ChangesAreFew ==
  ASSUME NEW t \in [Files -> 1..(FileChanges + 1)]
  PROVE  /\ IsFiniteSet(Counted(t)) /\ Cardinality(Counted(t)) \in Nat
         /\ \A f \in Files : t[f] - 1 <= Cardinality(Counted(t))
<1>1. IsFiniteSet(Files \X (2..(FileChanges + 1)))
  <2>1. 2 \in Int /\ FileChanges + 1 \in Int
    BY SyncConstants
  <2> DEFINE D == 2..(FileChanges + 1)
  <2>2. IsFiniteSet(D) /\ IsFiniteSet(Files)
    BY <2>1, SyncConstants, FS_Interval
  <2> HIDE DEF D
  <2>3. QED
    BY <2>2, FS_Product DEF D
<1>2. IsFiniteSet(Counted(t))
  <2>1. Counted(t) \in SUBSET (Files \X (2..(FileChanges + 1)))
    BY DEF Counted
  <2> DEFINE C == Counted(t)
             D == Files \X (2..(FileChanges + 1))
  <2> HIDE DEF C, D
  <2>2. C \in SUBSET D /\ IsFiniteSet(D)
    BY <1>1, <2>1 DEF C, D
  <2>3. IsFiniteSet(C)
    BY <2>2, FS_Subset
  <2>4. QED
    BY <2>3 DEF C
<1>3. ASSUME NEW f \in Files PROVE t[f] - 1 <= Cardinality(Counted(t))
  <2> DEFINE D == {f} \X (2..t[f])
             C == Counted(t)
  <2>1. t[f] \in Nat /\ t[f] >= 1 /\ t[f] <= FileChanges + 1
    BY SyncConstants
  <2>2. IsFiniteSet(2..t[f]) /\ Cardinality(2..t[f]) = t[f] - 1
    BY <2>1, FS_Interval
  <2>3. Cardinality(D) = Cardinality({f}) * Cardinality(2..t[f])
    BY <2>2, FS_Singleton, FS_Product
  <2>4. Cardinality(D) = t[f] - 1
    <3>1. Cardinality({f}) = 1
      BY FS_Singleton
    <3>2. QED
      BY <2>1, <2>2, <2>3, <3>1
  <2>5. D \subseteq C
    BY <2>1, SyncConstants DEF Counted
  <2> HIDE DEF D, C
  <2>6. Cardinality(D) <= Cardinality(C)
    BY <1>2, <2>5, FS_Subset DEF C
  <2>7. QED
    BY <2>4, <2>6 DEF C
<1>4. QED
  BY <1>2, <1>3, FS_CardinalityType

LEMMA ChangesGrow ==
  ASSUME NEW t \in [Files -> 1..(FileChanges + 1)], NEW f \in Files, t[f] <= FileChanges
  PROVE  Cardinality(Counted([t EXCEPT ![f] = @ + 1])) = Cardinality(Counted(t)) + 1
<1> DEFINE u == [t EXCEPT ![f] = @ + 1]
           x == <<f, t[f] + 1>>
           C == Counted(t)
<1>1. u[f] = t[f] + 1 /\ \A g \in Files : g # f => u[g] = t[g]
  OBVIOUS
<1>2. x \in Files \X (2..(FileChanges + 1)) /\ x[1] = f /\ x[2] = t[f] + 1
  BY SyncConstants
<1>3. Counted(u) = C \cup {x}
  <2>1. ASSUME NEW c \in Files \X (2..(FileChanges + 1))
        PROVE  c[2] <= u[c[1]] <=> c[2] <= t[c[1]] \/ c = x
    <3>1. c[1] \in Files /\ c[2] \in 2..(FileChanges + 1) /\ c = <<c[1], c[2]>>
      OBVIOUS
    <3>2. CASE c[1] # f
      BY <1>1, <1>2, <3>1, <3>2
    <3>3. CASE c[1] = f
      BY <1>1, <1>2, <3>1, <3>3, SyncConstants
    <3>4. QED
      BY <3>2, <3>3
  <2>2. x \in Counted(u)
    BY <1>1, <1>2 DEF Counted
  <2> HIDE DEF x, u
  <2>3. QED
    BY <1>2, <2>1, <2>2 DEF Counted
<1>4. x \notin C
  BY <1>2, SyncConstants DEF Counted
<1>5. IsFiniteSet(C)
  BY ChangesAreFew
<1> HIDE DEF C, x
<1>6. Cardinality(C \cup {x}) = Cardinality(C) + 1
  BY <1>4, <1>5, FS_AddElement
<1>7. QED
  BY <1>3, <1>6 DEF C

LEMMA ChangesCount ==
  ASSUME Sync!TypeOK
  PROVE  /\ Sync!Changes \in Nat /\ \A f \in Files : time[f] - 1 <= Sync!Changes
         /\ Sync!Changes = Cardinality(Counted(time))
<1>1. Sync!Changes = Cardinality(Counted(time))
  BY SyncCounts DEF Sync!Changes, Counted
<1>2. QED
  BY <1>1, SyncTyped, ChangesAreFew

LEMMA SyncStart == Sync!Init => SyncTypes
<1> SUFFICES ASSUME Sync!Init PROVE SyncTypes
  OBVIOUS
<1>1. /\ kind \in Kinds /\ inode = [f \in Files |-> f]
      /\ lines \in [Sync!Inodes -> Sync!Contents]
      /\ time = [f \in Files |-> 1] /\ imported = {} /\ check = [f \in Files |-> 0]
      /\ syncing = [p \in Processes |-> Sync!Idle]
  BY DEF Sync!Init
<1>2. Sync!Idle \in SyncOp /\ Sync!Idle.read <= Sync!Idle.left
      /\ Sync!Idle.at = "idle"
  BY SyncConstants, EmptyIsContents DEF Sync!Idle, SyncOp
<1>3. Sync!TypeOK
  <2>1. /\ inode \in [Files -> Sync!Inodes] /\ time \in [Files -> 1..(FileChanges + 1)]
        /\ check \in [Files -> 0..(FileChanges + 1)]
    BY <1>1, SyncConstants
  <2>2. syncing \in [Processes -> SyncOp] /\ \A p \in Processes : syncing[p] = Sync!Idle
    BY <1>1, <1>2
  <2>3. QED
    BY <1>1, <1>2, <2>1, <2>2 DEF Sync!TypeOK, SyncOp
<1>4. FilesAreApart
  BY <1>1, <1>3, ChangesCount, SyncConstants DEF FilesAreApart
<1>5. UnreadBefore
  BY <1>1, <1>2 DEF UnreadBefore
<1>6. QED
  BY <1>3, <1>4, <1>5 DEF SyncTypes

LEMMA SyncStarts ==
  ASSUME NEW x \in SyncOp
  PROVE  /\ Sync!Start(x) \in SyncOp /\ Sync!Start(x).read = 0
         /\ Sync!Start(x).left = x.left
         /\ Sync!Start(x).at = IF Sync!OpensFirst THEN "open" ELSE "sign"
<1> DEFINE l == IF Sync!OpensFirst THEN "open" ELSE "sign"
<1>1. l \in {"open", "sign"} /\ Sync!Start(x) = [x EXCEPT !.at = l, !.read = 0]
  BY DEF Sync!Start
<1>2. 0 \in 0..Limit
  BY SyncConstants
<1> HIDE DEF l
<1>3. [x EXCEPT !.at = l, !.read = 0] \in SyncOp
  BY <1>1, <1>2 DEF SyncOp
<1>4. /\ [x EXCEPT !.at = l, !.read = 0].read = 0
      /\ [x EXCEPT !.at = l, !.read = 0].left = x.left
      /\ [x EXCEPT !.at = l, !.read = 0].at = l
  BY DEF SyncOp
<1>5. QED
  BY <1>1, <1>3, <1>4 DEF l

LEMMA SyncIdle ==
  /\ Sync!Idle \in SyncOp /\ Sync!Idle.read <= Sync!Idle.left /\ Sync!Idle.at = "idle"
  /\ Sync!Start(Sync!Idle) \in SyncOp /\ Sync!Start(Sync!Idle).read = 0
  /\ Sync!Start(Sync!Idle).read <= Sync!Start(Sync!Idle).left
  /\ Sync!Start(Sync!Idle).at = IF Sync!OpensFirst THEN "open" ELSE "sign"
<1>1. /\ Sync!Idle \in SyncOp /\ Sync!Idle.read <= Sync!Idle.left /\ Sync!Idle.at = "idle"
      /\ Sync!Idle.left = Limit
  BY SyncConstants, EmptyIsContents DEF Sync!Idle, SyncOp
<1>2. QED
  BY <1>1, SyncStarts, SyncConstants

(***************************************************************************)
(* Steps of one process.                                                   *)
(***************************************************************************)
LEMMA SyncMove ==
  ASSUME SyncTypes, NEW p \in Processes, NEW o \in SyncOp, o.read <= o.left,
         o.at \in {"open", "sign", "compare"} => o.read = 0,
         syncing' = [syncing EXCEPT ![p] = o], UNCHANGED <<kind, inode, lines, time>>,
         imported' \subseteq Files \X Records, check' \in [Files -> 0..(FileChanges + 1)]
  PROVE  SyncTypes'
<1>1. Sync!TypeOK /\ FilesAreApart /\ UnreadBefore
  BY DEF SyncTypes
<1>2. /\ syncing \in [Processes -> SyncOp] /\ kind \in Kinds
      /\ inode \in [Files -> Sync!Inodes] /\ lines \in [Sync!Inodes -> Sync!Contents]
      /\ time \in [Files -> 1..(FileChanges + 1)]
      /\ \A q \in Processes : syncing[q].read <= syncing[q].left
  BY <1>1, SyncTyped
<1>3. /\ syncing' \in [Processes -> SyncOp] /\ syncing'[p] = o
      /\ \A q \in Processes : q # p => syncing'[q] = syncing[q]
  BY <1>2
<1>4. Sync!TypeOK'
  BY <1>2, <1>3 DEF Sync!TypeOK, SyncOp
<1>5. FilesAreApart'
  <2>1. Sync!Changes' = Sync!Changes
    BY DEF Sync!Changes
  <2>2. QED
    BY <1>1, <2>1 DEF FilesAreApart
<1>6. UnreadBefore'
  BY <1>1, <1>3 DEF UnreadBefore
<1>7. QED
  BY <1>4, <1>5, <1>6 DEF SyncTypes

LEMMA SyncHand ==
  ASSUME SyncTypes, NEW p \in Processes
  PROVE  /\ syncing[p] \in SyncOp /\ syncing[p].read <= syncing[p].left
         /\ syncing[p].at \in {"open", "sign", "compare"} => syncing[p].read = 0
         /\ imported \subseteq Files \X Records /\ check \in [Files -> 0..(FileChanges + 1)]
         /\ inode \in [Files -> Sync!Inodes] /\ lines \in [Sync!Inodes -> Sync!Contents]
         /\ time \in [Files -> 1..(FileChanges + 1)]
BY SyncTyped DEF SyncTypes, UnreadBefore

\* Going on to the next file, or ending.
LEMMA SyncAdvances ==
  ASSUME SyncTypes, NEW p \in Processes, NEW n \in 0..Limit, Sync!Advance(p, n)
  PROVE  \E o \in SyncOp :
           /\ syncing' = [syncing EXCEPT ![p] = o]
           /\ o.read = 0 /\ o.read <= o.left
           /\ o.at = "idle" \/ o.at = IF Sync!OpensFirst THEN "open" ELSE "sign"
<1>1. CASE ~(Sync!Path(p) + 1 \in Files /\ n > 0)
  <2>1. syncing' = [syncing EXCEPT ![p] = Sync!Idle]
    BY <1>1 DEF Sync!Advance, Sync!Go
  <2>2. Sync!Idle.read = 0
    BY DEF Sync!Idle
  <2>3. QED
    BY <2>1, <2>2, SyncIdle
<1>2. CASE Sync!Path(p) + 1 \in Files /\ n > 0
  <2> DEFINE x == [syncing[p] EXCEPT !.file = @ + 1, !.left = n]
             o == Sync!Start(x)
  <2>1. syncing' = [syncing EXCEPT ![p] = o]
    BY <1>2 DEF Sync!Advance, Sync!Go
  <2>2. syncing[p] \in SyncOp
    BY SyncHand
  <2>3. x \in SyncOp /\ x.left = n
    BY <1>2, <2>2 DEF SyncOp, Sync!Path
  <2> HIDE DEF x
  <2>4. /\ o \in SyncOp /\ o.read = 0 /\ o.left = n
        /\ o.at = IF Sync!OpensFirst THEN "open" ELSE "sign"
    BY <2>3, SyncStarts
  <2> HIDE DEF o
  <2>5. o.read <= o.left
    BY <2>4, SyncConstants
  <2>6. QED
    BY <2>1, <2>4, <2>5
<1>3. QED
  BY <1>1, <1>2

\* What a step of a process comes to: new contents of its record.
SyncStepsTo(p, o) ==
  /\ o \in SyncOp /\ o.read <= o.left
  /\ o.at \in {"open", "sign", "compare"} => o.read = 0
  /\ syncing' = [syncing EXCEPT ![p] = o]
  /\ UNCHANGED <<kind, inode, lines, time>>
  /\ imported \subseteq imported' /\ imported' \subseteq Files \X Records
  /\ check' \in [Files -> 0..(FileChanges + 1)]

LEMMA SyncBegins ==
  ASSUME SyncTypes, NEW p \in Processes, Sync!Begin(p)
  PROVE  /\ SyncStepsTo(p, Sync!Start(Sync!Idle)) /\ check' = check
BY SyncIdle, SyncHand DEF Sync!Begin, Sync!Go, SyncStepsTo, Sync!files

LEMMA SyncFails ==
  ASSUME SyncTypes, NEW p \in Processes, Sync!Fail(p)
  PROVE  SyncStepsTo(p, Sync!Idle) /\ check' = check
BY SyncIdle, SyncHand DEF Sync!Fail, Sync!Go, SyncStepsTo, Sync!files

Opened(p) ==
  [syncing[p] EXCEPT !.at = IF Sync!OpensFirst THEN "sign" ELSE "read",
     !.inode = inode[Sync!Path(p)], !.body = lines[inode[Sync!Path(p)]]]

LEMMA SyncOpens ==
  ASSUME SyncTypes, NEW p \in Processes, Sync!Open(p)
  PROVE  SyncStepsTo(p, Opened(p)) /\ check' = check /\ syncing[p].at = "open"
<1>1. /\ syncing' = [syncing EXCEPT ![p] = Opened(p)]
      /\ UNCHANGED <<kind, inode, lines, time>> /\ imported' = imported /\ check' = check
      /\ syncing[p].at = "open"
  BY DEF Sync!Open, Sync!Go, Opened, Sync!files, Sync!At
<1>2. syncing[p].read = 0 /\ syncing[p] \in SyncOp /\ syncing[p].read <= syncing[p].left
  BY <1>1, SyncHand
<1>3. Sync!Path(p) \in Files
  BY <1>2 DEF Sync!Path, SyncOp
<1>4. inode[Sync!Path(p)] \in Sync!Inodes /\ lines[inode[Sync!Path(p)]] \in Sync!Contents
  BY <1>3, SyncHand
<1>5. Opened(p) \in SyncOp /\ Opened(p).read = 0 /\ Opened(p).left = syncing[p].left
  BY <1>2, <1>4 DEF Opened, SyncOp
<1>6. QED
  BY <1>1, <1>2, <1>5, SyncHand DEF SyncStepsTo

Signed(p) == [syncing[p] EXCEPT !.at = "compare", !.signature = time[Sync!Path(p)]]

LEMMA SyncSigns ==
  ASSUME SyncTypes, NEW p \in Processes, Sync!Sign(p)
  PROVE  SyncStepsTo(p, Signed(p)) /\ check' = check
<1>1. /\ syncing' = [syncing EXCEPT ![p] = Signed(p)]
      /\ UNCHANGED <<kind, inode, lines, time>> /\ imported' = imported /\ check' = check
      /\ syncing[p].at = "sign"
  BY DEF Sync!Sign, Sync!Go, Signed, Sync!files, Sync!At
<1>2. syncing[p].read = 0 /\ syncing[p] \in SyncOp /\ syncing[p].read <= syncing[p].left
  BY <1>1, SyncHand
<1>3. time[Sync!Path(p)] \in 0..(FileChanges + 1)
  <2>1. Sync!Path(p) \in Files
    BY <1>2 DEF Sync!Path, SyncOp
  <2>2. time[Sync!Path(p)] \in 1..(FileChanges + 1)
    BY <2>1, SyncHand
  <2>3. QED
    BY <2>2, SyncConstants
<1>4. Signed(p) \in SyncOp /\ Signed(p).read = 0 /\ Signed(p).left = syncing[p].left
  BY <1>2, <1>3 DEF Signed, SyncOp
<1>5. QED
  BY <1>1, <1>2, <1>4, SyncHand DEF SyncStepsTo

Further(p) == [syncing[p] EXCEPT !.read = @ + 1]

LEMMA SyncImports ==
  ASSUME SyncTypes, NEW p \in Processes, Sync!ImportRecord(p)
  PROVE  /\ SyncStepsTo(p, Further(p)) /\ check' = check
         /\ syncing[p].at = "read" /\ Sync!MoreToRead(p)
         /\ imported' = imported
              \cup {<<Sync!Path(p), Sync!Source(p)[syncing[p].read + 1]>>}
<1>1. /\ syncing' = [syncing EXCEPT ![p] = Further(p)]
      /\ UNCHANGED <<kind, inode, lines, time>> /\ check' = check
      /\ syncing[p].at = "read" /\ Sync!MoreToRead(p)
      /\ imported' = imported
              \cup {<<Sync!Path(p), Sync!Source(p)[syncing[p].read + 1]>>}
  BY DEF Sync!ImportRecord, Sync!Go, Further, Sync!files, Sync!At
<1>2. syncing[p] \in SyncOp
  BY SyncHand
<1>3. Sync!Source(p) \in Sync!Contents
  BY <1>2, SyncHand DEF Sync!Source, SyncOp
<1>4. syncing[p].read < syncing[p].left /\ syncing[p].read < Len(Sync!Source(p))
  BY <1>1 DEF Sync!MoreToRead
<1>5. Sync!Source(p)[syncing[p].read + 1] \in Records
  <2>1. syncing[p].read + 1 \in 1..Len(Sync!Source(p))
    BY <1>2, <1>3, <1>4, ContentsAreSequences, SyncConstants DEF SyncOp
  <2>2. QED
    BY <1>3, <2>1, ContentsAreSequences
<1>6. Sync!Path(p) \in Files
  BY <1>2 DEF Sync!Path, SyncOp
<1>7. /\ Further(p) \in SyncOp /\ Further(p).read <= Further(p).left
      /\ Further(p).at = "read"
  <2>1. /\ syncing[p].read + 1 \in 0..Limit
        /\ syncing[p].read + 1 <= syncing[p].left
    BY <1>2, <1>4, SyncConstants DEF SyncOp
  <2>2. Further(p) \in SyncOp
    BY <1>2, <2>1 DEF Further, SyncOp
  <2>3. /\ Further(p).read = syncing[p].read + 1
        /\ Further(p).left = syncing[p].left /\ Further(p).at = syncing[p].at
    BY <1>2 DEF Further, SyncOp
  <2>4. QED
    BY <1>1, <2>1, <2>2, <2>3
<1>8. QED
  BY <1>1, <1>5, <1>6, <1>7, SyncHand DEF SyncStepsTo

LEMMA SyncCompares ==
  ASSUME SyncTypes, NEW p \in Processes, Sync!Compare(p)
  PROVE  \E o : /\ SyncStepsTo(p, o) /\ check' = check
                /\ \/ o.at = "idle"
                   \/ o.at = IF Sync!OpensFirst THEN "open" ELSE "sign"
                   \/ /\ o = [syncing[p] EXCEPT
                                !.at = IF Sync!OpensFirst THEN "read" ELSE "open"]
                      /\ syncing[p].at = "compare"
<1>1. /\ UNCHANGED <<kind, inode, lines, time>> /\ imported' = imported /\ check' = check
      /\ syncing[p].at = "compare"
  BY DEF Sync!Compare, Sync!files, Sync!At
<1>2. /\ syncing[p].read = 0 /\ syncing[p] \in SyncOp
      /\ syncing[p].read <= syncing[p].left
  BY <1>1, SyncHand
<1>3. CASE check[Sync!Path(p)] = syncing[p].signature
  <2>1. Sync!Advance(p, syncing[p].left) /\ syncing[p].left \in 0..Limit
    BY <1>2, <1>3 DEF Sync!Compare, SyncOp
  <2>2. PICK o \in SyncOp :
           /\ syncing' = [syncing EXCEPT ![p] = o]
           /\ o.read = 0 /\ o.read <= o.left
           /\ o.at = "idle" \/ o.at = IF Sync!OpensFirst THEN "open" ELSE "sign"
    BY <2>1, SyncAdvances
  <2>3. SyncStepsTo(p, o)
    BY <1>1, <2>2, SyncHand DEF SyncStepsTo
  <2>4. QED
    BY <1>1, <2>2, <2>3
<1>4. CASE check[Sync!Path(p)] # syncing[p].signature
  <2> DEFINE l == IF Sync!OpensFirst THEN "read" ELSE "open"
             o == [syncing[p] EXCEPT !.at = l]
  <2>1. syncing' = [syncing EXCEPT ![p] = o] /\ l \in {"read", "open"}
    BY <1>4 DEF Sync!Compare, Sync!Go
  <2> HIDE DEF l
  <2>2. o \in SyncOp
    BY <1>2, <2>1 DEF SyncOp
  <2>3. o.read = 0 /\ o.left = syncing[p].left /\ o.at = l
    BY <1>2 DEF SyncOp
  <2> HIDE DEF o
  <2>4. SyncStepsTo(p, o)
    BY <1>1, <1>2, <2>1, <2>2, <2>3, SyncHand DEF SyncStepsTo
  <2>5. QED
    BY <1>1, <2>4 DEF o, l
<1>5. QED
  BY <1>3, <1>4

LEMMA SyncCheckpoints ==
  ASSUME SyncTypes, NEW p \in Processes, Sync!Checkpoint(p)
  PROVE  /\ \E o : /\ SyncStepsTo(p, o)
                   /\ o.at = "idle" \/ o.at = IF Sync!OpensFirst THEN "open" ELSE "sign"
         /\ imported' = imported
         /\ syncing[p].at = "read" /\ ~Sync!MoreToRead(p)
         /\ check' = IF syncing[p].read < syncing[p].left
                     THEN [check EXCEPT ![Sync!Path(p)] = syncing[p].signature] ELSE check
<1>1. /\ UNCHANGED <<kind, inode, lines, time>> /\ imported' = imported
      /\ syncing[p].at = "read" /\ ~Sync!MoreToRead(p)
      /\ check' = IF syncing[p].read < syncing[p].left
                  THEN [check EXCEPT ![Sync!Path(p)] = syncing[p].signature] ELSE check
      /\ Sync!Advance(p, syncing[p].left - syncing[p].read)
  BY DEF Sync!Checkpoint, Sync!files, Sync!At
<1>2. syncing[p] \in SyncOp /\ syncing[p].read <= syncing[p].left
  BY SyncHand
<1>3. syncing[p].left - syncing[p].read \in 0..Limit
  BY <1>2, SyncConstants DEF SyncOp
<1>4. PICK o \in SyncOp :
           /\ syncing' = [syncing EXCEPT ![p] = o]
           /\ o.read = 0 /\ o.read <= o.left
           /\ o.at = "idle" \/ o.at = IF Sync!OpensFirst THEN "open" ELSE "sign"
  BY <1>1, <1>3, SyncAdvances
<1>5. check' \in [Files -> 0..(FileChanges + 1)]
  <2>1. /\ check \in [Files -> 0..(FileChanges + 1)]
        /\ syncing[p].signature \in 0..(FileChanges + 1) /\ Sync!Path(p) \in Files
    BY <1>2, SyncHand DEF SyncOp, Sync!Path
  <2>2. QED
    BY <1>1, <2>1
<1>6. SyncStepsTo(p, o)
  BY <1>1, <1>4, <1>5, SyncHand DEF SyncStepsTo
<1>7. QED
  BY <1>1, <1>4, <1>6

\* Each of them is a step of that form.
LEMMA SyncSteps ==
  ASSUME SyncTypes, NEW p \in Processes, Sync!Step(p) \/ Sync!Fail(p)
  PROVE  \E o : SyncStepsTo(p, o)
BY SyncBegins, SyncFails, SyncOpens, SyncSigns, SyncCompares, SyncImports, SyncCheckpoints
DEF Sync!Step

(***************************************************************************)
(* The files change.                                                       *)
(***************************************************************************)
LEMMA SyncChanges ==
  ASSUME SyncTypes, NEW f \in Files, NEW c \in Sync!Contents,
         Sync!WriteOver(f, c) \/ Sync!Replace(f, c)
  PROVE  /\ time[f] <= FileChanges /\ time' = [time EXCEPT ![f] = @ + 1]
         /\ time' \in [Files -> 1..(FileChanges + 1)]
         /\ Sync!Changes \in 0..(FileChanges - 1)
         /\ Cardinality(Counted(time')) = Sync!Changes + 1
         /\ UNCHANGED <<kind, imported, check, syncing>>
<1>1. /\ Sync!Changes < FileChanges /\ time' = [time EXCEPT ![f] = @ + 1]
      /\ UNCHANGED <<kind, imported, check, syncing>>
  BY DEF Sync!WriteOver, Sync!Replace
<1>2. /\ time \in [Files -> 1..(FileChanges + 1)]
      /\ Sync!Changes \in Nat /\ time[f] - 1 <= Sync!Changes
      /\ Sync!Changes = Cardinality(Counted(time))
  BY SyncTyped, ChangesCount DEF SyncTypes
<1>3. time[f] <= FileChanges /\ Sync!Changes \in 0..(FileChanges - 1)
  BY <1>1, <1>2, SyncConstants
<1>4. time' \in [Files -> 1..(FileChanges + 1)]
  BY <1>1, <1>2, <1>3, SyncConstants
<1>5. Cardinality(Counted([time EXCEPT ![f] = @ + 1])) = Cardinality(Counted(time)) + 1
  BY <1>2, <1>3, ChangesGrow
<1>6. QED
  BY <1>1, <1>2, <1>3, <1>4, <1>5

LEMMA SyncWrites ==
  ASSUME SyncTypes, NEW f \in Files, NEW c \in Sync!Contents,
         Sync!WriteOver(f, c) \/ Sync!Replace(f, c)
  PROVE  SyncTypes'
<1>1. /\ kind \in Kinds /\ inode \in [Files -> Sync!Inodes]
      /\ lines \in [Sync!Inodes -> Sync!Contents]
      /\ imported \subseteq Files \X Records /\ check \in [Files -> 0..(FileChanges + 1)]
      /\ syncing \in [Processes -> SyncOp]
      /\ \A p \in Processes : syncing[p].read <= syncing[p].left
      /\ FilesAreApart /\ UnreadBefore
  BY SyncTyped DEF SyncTypes
<1>2. /\ time' \in [Files -> 1..(FileChanges + 1)]
      /\ Sync!Changes \in 0..(FileChanges - 1)
      /\ Cardinality(Counted(time')) = Sync!Changes + 1
      /\ UNCHANGED <<kind, imported, check, syncing>>
  BY SyncChanges
<1>3. inode' \in [Files -> Sync!Inodes] /\ lines' \in [Sync!Inodes -> Sync!Contents]
  <2>1. CASE Sync!WriteOver(f, c)
    BY <1>1, <2>1 DEF Sync!WriteOver
  <2>2. CASE Sync!Replace(f, c)
    <3> DEFINE new == FileCount + Sync!Changes + 1
    <3>1. new \in Sync!Inodes
      BY <1>2, SyncConstants
    <3>2. inode' = [inode EXCEPT ![f] = new] /\ lines' = [lines EXCEPT ![new] = c]
      BY <2>2, SyncCounts DEF Sync!Replace, FileCount
    <3> HIDE DEF new
    <3>3. QED
      BY <1>1, <3>1, <3>2
  <2>3. QED
    BY <2>1, <2>2
<1>4. Sync!TypeOK'
  BY <1>1, <1>2, <1>3 DEF Sync!TypeOK, SyncOp
<1>5. Sync!Changes' = Sync!Changes + 1
  <2>1. Sync!Changes' = Cardinality(Counted(time'))
    BY SyncCounts DEF Sync!Changes, Counted
  <2>2. QED
    BY <1>2, <2>1
<1>6. FilesAreApart'
  <2>1. CASE Sync!WriteOver(f, c)
    <3>1. inode' = inode
      BY <2>1 DEF Sync!WriteOver
    <3>2. ASSUME NEW g \in Files PROVE inode[g] <= FileCount + Sync!Changes'
      <4>1. inode[g] <= FileCount + Sync!Changes /\ inode[g] \in Sync!Inodes
        BY <1>1 DEF FilesAreApart
      <4>2. QED
        BY <1>2, <1>5, <4>1, SyncConstants
    <3>3. QED
      BY <1>1, <3>1, <3>2 DEF FilesAreApart, FileCount
  <2>2. CASE Sync!Replace(f, c)
    <3> DEFINE new == FileCount + Sync!Changes + 1
    <3>1. inode' = [inode EXCEPT ![f] = new]
      BY <2>2, SyncCounts DEF Sync!Replace, FileCount
    <3>2. \A g \in Files : inode[g] <= FileCount + Sync!Changes /\ inode[g] \in Nat
      <4>1. \A g \in Files : inode[g] <= FileCount + Sync!Changes /\ inode[g] \in Sync!Inodes
        BY <1>1 DEF FilesAreApart
      <4>2. QED
        BY <4>1, SyncConstants
    <3>3. \A g \in Files : inode[g] <= new /\ inode[g] # new
      BY <1>2, <3>2, SyncConstants
    <3>4. new = FileCount + Sync!Changes' /\ new <= new
      BY <1>2, <1>5, SyncConstants
    <3> HIDE DEF new
    <3>5. \A g \in Files : inode'[g] = IF g = f THEN new ELSE inode[g]
      BY <1>1, <3>1
    <3>6. \A g \in Files : inode'[g] <= FileCount + Sync!Changes'
      BY <3>3, <3>4, <3>5
    <3>7. \A g, h \in Files : inode'[g] = inode'[h] => g = h
      BY <1>1, <3>3, <3>5 DEF FilesAreApart
    <3>8. QED
      BY <3>6, <3>7 DEF FilesAreApart, FileCount
  <2>3. QED
    BY <2>1, <2>2
<1>7. UnreadBefore'
  BY <1>1, <1>2 DEF UnreadBefore
<1>8. QED
  BY <1>4, <1>6, <1>7 DEF SyncTypes

LEMMA SyncTypesKept == SyncTypes /\ Sync!Next => SyncTypes'
<1> SUFFICES ASSUME SyncTypes, Sync!Next PROVE SyncTypes'
  OBVIOUS
<1>1. ASSUME NEW p \in Processes, Sync!Step(p) \/ Sync!Fail(p) PROVE SyncTypes'
  <2>1. PICK o : SyncStepsTo(p, o)
    BY <1>1, SyncSteps
  <2>2. QED
    BY <2>1, SyncMove DEF SyncStepsTo
<1>2. QED
  BY <1>1, SyncWrites DEF Sync!Next

LEMMA SyncTypesStutter == SyncTypes /\ UNCHANGED syncVars => SyncTypes'
<1> SUFFICES ASSUME SyncTypes, UNCHANGED syncVars PROVE SyncTypes'
  OBVIOUS
<1>1. /\ kind' = kind /\ inode' = inode /\ lines' = lines /\ time' = time
      /\ imported' = imported /\ check' = check /\ syncing' = syncing
  BY DEF syncVars
<1>2. Sync!Changes' = Sync!Changes
  BY <1>1 DEF Sync!Changes
<1>3. FilesAreApart' /\ UnreadBefore'
  BY <1>1, <1>2 DEF SyncTypes, FilesAreApart, UnreadBefore, FileCount
<1>4. Sync!TypeOK'
  BY <1>1 DEF SyncTypes, Sync!TypeOK
<1>5. QED
  BY <1>3, <1>4 DEF SyncTypes

(***************************************************************************)
(* When the signature is taken before the file is opened: what a sync has  *)
(* in hand is in when nobody has changed the file since.                   *)
(***************************************************************************)
SignsFirst == {"jsonl_directory", "markdown"}

Held(o, I) ==
  /\ o.at \in {"compare", "open", "read"} => o.signature <= time[o.file]
  /\ o.at = "read" /\ o.signature = time[o.file] =>
       /\ o.inode = inode[o.file] /\ o.body = lines[o.inode]
       /\ \A i \in DOMAIN lines[o.inode] :
            i <= o.read => <<o.file, lines[o.inode][i]>> \in I

AllHeld == \A p \in Processes : Held(syncing[p], imported)

CheckpointsArePast == \A f \in Files : check[f] <= time[f]

SyncInv ==
  /\ SyncTypes /\ AllHeld /\ CheckpointsArePast
  /\ Sync!CheckpointMeansImported

LEMMA SignedFirst ==
  ASSUME SyncInv, Kinds \subseteq SignsFirst
  PROVE  ~Sync!OpensFirst
BY SyncTyped DEF SyncInv, SyncTypes, SignsFirst, Sync!OpensFirst

LEMMA SyncStartHeld == Sync!Init => SyncInv
<1> SUFFICES ASSUME Sync!Init PROVE SyncInv
  OBVIOUS
<1>1. SyncTypes
  BY SyncStart
<1>2. /\ time = [f \in Files |-> 1] /\ check = [f \in Files |-> 0]
      /\ syncing = [p \in Processes |-> Sync!Idle]
  BY DEF Sync!Init
<1>3. AllHeld
  BY <1>2, SyncIdle DEF AllHeld, Held
<1>4. CheckpointsArePast /\ Sync!CheckpointMeansImported
  BY <1>2 DEF CheckpointsArePast, Sync!CheckpointMeansImported
<1>5. QED
  BY <1>1, <1>3, <1>4 DEF SyncInv

\* A step of one process that adds to what is in.
LEMMA SyncHeld ==
  ASSUME SyncInv, NEW p \in Processes, NEW o, SyncStepsTo(p, o), Held(o, imported')
  PROVE  SyncTypes' /\ AllHeld'
<1>1. SyncTypes'
  BY SyncMove DEF SyncInv, SyncStepsTo
<1>2. AllHeld'
  <2> SUFFICES ASSUME NEW q \in Processes PROVE Held(syncing[q], imported)'
    BY DEF AllHeld
  <2>1. /\ syncing \in [Processes -> SyncOp] /\ syncing' = [syncing EXCEPT ![p] = o]
        /\ inode' = inode /\ lines' = lines /\ time' = time /\ imported \subseteq imported'
    BY SyncTyped DEF SyncInv, SyncTypes, SyncStepsTo
  <2>2. CASE q = p
    <3>1. syncing'[q] = o
      BY <2>1, <2>2
    <3>2. QED
      BY <2>1, <3>1 DEF Held
  <2>3. CASE q # p
    <3>1. syncing'[q] = syncing[q] /\ Held(syncing[q], imported)
      BY <2>1, <2>3 DEF SyncInv, AllHeld
    <3>2. QED
      BY <2>1, <3>1 DEF Held
  <2>4. QED
    BY <2>2, <2>3
<1>3. QED
  BY <1>1, <1>2

\* And one that leaves the checkpoints alone.
LEMMA SyncHolds ==
  ASSUME SyncInv, NEW p \in Processes, NEW o, SyncStepsTo(p, o), Held(o, imported'),
         check' = check
  PROVE  SyncInv'
<1>1. SyncTypes' /\ AllHeld'
  BY SyncHeld
<1>2. /\ inode' = inode /\ lines' = lines /\ time' = time /\ imported \subseteq imported'
  BY DEF SyncStepsTo
<1>3. CheckpointsArePast'
  BY <1>2 DEF SyncInv, CheckpointsArePast
<1>4. Sync!CheckpointMeansImported'
  <2>1. \A f \in Files : Sync!Within(f)' = Sync!Within(f)
    BY <1>2 DEF Sync!Within
  <2>2. QED
    BY <1>2, <2>1 DEF SyncInv, Sync!CheckpointMeansImported
<1>5. QED
  BY <1>1, <1>3, <1>4 DEF SyncInv

LEMMA SyncHeldHand ==
  ASSUME SyncInv, NEW p \in Processes
  PROVE  /\ syncing[p] \in SyncOp /\ Held(syncing[p], imported) /\ SyncTypes
         /\ Sync!Path(p) \in Files /\ Sync!Path(p) = syncing[p].file
         /\ time \in [Files -> 1..(FileChanges + 1)]
BY SyncHand DEF SyncInv, AllHeld, Sync!Path, SyncOp

LEMMA SyncOpensHeld ==
  ASSUME SyncInv, Kinds \subseteq SignsFirst, NEW p \in Processes, Sync!Open(p)
  PROVE  SyncInv'
<1>1. /\ SyncStepsTo(p, Opened(p)) /\ check' = check /\ syncing[p].at = "open"
      /\ syncing[p].read = 0
  BY SyncOpens, SyncHand DEF SyncInv
<1>2. /\ syncing[p] \in SyncOp /\ Held(syncing[p], imported)
      /\ Sync!Path(p) = syncing[p].file /\ ~Sync!OpensFirst
  BY SyncHeldHand, SignedFirst
<1> DEFINE o == Opened(p)
<1>3. /\ o.at = "read" /\ o.file = syncing[p].file /\ o.signature = syncing[p].signature
      /\ o.inode = inode[syncing[p].file] /\ o.body = lines[inode[syncing[p].file]]
      /\ o.read = 0
  BY <1>1, <1>2 DEF Opened, SyncOp
<1>4. \A i \in DOMAIN lines[o.inode] : ~(i <= 0)
  <2>1. lines[o.inode] \in Sync!Contents
    BY <1>1, SyncHand DEF SyncStepsTo, SyncInv, SyncOp
  <2>2. QED
    BY <2>1, ContentsAreSequences
<1> HIDE DEF o
<1>5. Held(o, imported')
  BY <1>1, <1>2, <1>3, <1>4 DEF Held
<1>6. QED
  BY <1>1, <1>5, SyncHolds DEF o

LEMMA SyncSignsHeld ==
  ASSUME SyncInv, NEW p \in Processes, Sync!Sign(p)
  PROVE  SyncInv'
<1>1. SyncStepsTo(p, Signed(p)) /\ check' = check
  BY SyncSigns DEF SyncInv
<1>2. /\ syncing[p] \in SyncOp /\ Sync!Path(p) = syncing[p].file
      /\ time[syncing[p].file] \in Nat
  BY SyncHeldHand, SyncConstants DEF SyncOp
<1> DEFINE o == Signed(p)
<1>3. /\ o.at = "compare" /\ o.file = syncing[p].file /\ o.signature = time[syncing[p].file]
  BY <1>2 DEF Signed, SyncOp
<1> HIDE DEF o
<1>4. Held(o, imported')
  BY <1>2, <1>3 DEF Held
<1>5. QED
  BY <1>1, <1>4, SyncHolds DEF o

LEMMA SyncComparesHeld ==
  ASSUME SyncInv, Kinds \subseteq SignsFirst, NEW p \in Processes, Sync!Compare(p)
  PROVE  SyncInv'
<1>1. PICK o : /\ SyncStepsTo(p, o) /\ check' = check
               /\ \/ o.at = "idle"
                  \/ o.at = IF Sync!OpensFirst THEN "open" ELSE "sign"
                  \/ /\ o = [syncing[p] EXCEPT
                               !.at = IF Sync!OpensFirst THEN "read" ELSE "open"]
                     /\ syncing[p].at = "compare"
  BY SyncCompares DEF SyncInv
<1>2. /\ syncing[p] \in SyncOp /\ Held(syncing[p], imported) /\ ~Sync!OpensFirst
  BY SyncHeldHand, SignedFirst
<1>3. CASE o.at \in {"idle", "sign"}
  BY <1>1, <1>3, SyncHolds DEF Held
<1>4. CASE o = [syncing[p] EXCEPT !.at = "open"] /\ syncing[p].at = "compare"
  <2>1. /\ o.at = "open" /\ o.file = syncing[p].file
        /\ o.signature = syncing[p].signature
    BY <1>2, <1>4 DEF SyncOp
  <2>2. Held(o, imported')
    BY <1>2, <1>4, <2>1 DEF Held
  <2>3. QED
    BY <1>1, <2>2, SyncHolds
<1>5. QED
  BY <1>1, <1>2, <1>3, <1>4

\* As long as nobody changes the file, the records are those of the file.
LEMMA SourceIsCurrent ==
  ASSUME SyncInv, NEW p \in Processes, syncing[p].at = "read",
         syncing[p].signature = time[syncing[p].file]
  PROVE  /\ Sync!Source(p) = lines[inode[syncing[p].file]]
         /\ \A i \in DOMAIN lines[inode[syncing[p].file]] :
              i <= syncing[p].read =>
                <<syncing[p].file, lines[inode[syncing[p].file]][i]>> \in imported
         /\ syncing[p].inode = inode[syncing[p].file]
         /\ syncing[p].body = lines[inode[syncing[p].file]]
BY SyncHeldHand DEF Held, Sync!Source

LEMMA SyncImportsHeld ==
  ASSUME SyncInv, NEW p \in Processes, Sync!ImportRecord(p)
  PROVE  SyncInv'
<1>1. /\ SyncStepsTo(p, Further(p)) /\ check' = check
      /\ syncing[p].at = "read"
      /\ imported' = imported
           \cup {<<Sync!Path(p), Sync!Source(p)[syncing[p].read + 1]>>}
  BY SyncImports DEF SyncInv
<1>2. /\ syncing[p] \in SyncOp /\ Sync!Path(p) = syncing[p].file
      /\ Held(syncing[p], imported)
  BY SyncHeldHand
<1> DEFINE o == Further(p)
           f == syncing[p].file
<1>3. /\ o.at = "read" /\ o.file = f /\ o.signature = syncing[p].signature
      /\ o.inode = syncing[p].inode /\ o.body = syncing[p].body
      /\ o.read = syncing[p].read + 1 /\ syncing[p].read \in Nat
  BY <1>1, <1>2, SyncConstants DEF Further, SyncOp
<1> HIDE DEF o
<1>4. Held(o, imported')
  <2>1. o.signature <= time[o.file]
    BY <1>1, <1>2, <1>3 DEF Held
  <2>2. ASSUME o.signature = time[o.file]
        PROVE  /\ o.inode = inode[o.file] /\ o.body = lines[o.inode]
               /\ \A i \in DOMAIN lines[o.inode] :
                    i <= o.read => <<o.file, lines[o.inode][i]>> \in imported'
    <3>1. /\ Sync!Source(p) = lines[inode[f]]
          /\ \A i \in DOMAIN lines[inode[f]] :
               i <= syncing[p].read => <<f, lines[inode[f]][i]>> \in imported
          /\ syncing[p].inode = inode[f] /\ syncing[p].body = lines[inode[f]]
      BY <1>1, <1>3, <2>2, SourceIsCurrent
    <3>2. lines[inode[f]] \in Sync!Contents
      BY <1>2, SyncTyped DEF SyncInv, SyncTypes, SyncOp
    <3>3. ASSUME NEW i \in DOMAIN lines[inode[f]], i <= o.read
          PROVE  <<f, lines[inode[f]][i]>> \in imported'
      <4>1. i \in Nat
        BY <3>2, ContentsAreSequences
      <4>2. i <= syncing[p].read \/ i = syncing[p].read + 1
        BY <1>3, <3>3, <4>1
      <4>3. QED
        BY <1>1, <1>2, <3>1, <4>2
    <3>4. QED
      BY <1>3, <3>1, <3>3
  <2>3. QED
    BY <2>1, <2>2 DEF Held
<1>5. QED
  BY <1>1, <1>4, SyncHolds DEF o

LEMMA SyncCheckpointsHeld ==
  ASSUME SyncInv, Kinds \subseteq SignsFirst, NEW p \in Processes, Sync!Checkpoint(p)
  PROVE  SyncInv'
<1>1. PICK o : /\ SyncStepsTo(p, o)
               /\ o.at = "idle" \/ o.at = IF Sync!OpensFirst THEN "open" ELSE "sign"
  BY SyncCheckpoints DEF SyncInv
<1>2. /\ imported' = imported /\ syncing[p].at = "read" /\ ~Sync!MoreToRead(p)
      /\ check' = IF syncing[p].read < syncing[p].left
                  THEN [check EXCEPT ![Sync!Path(p)] = syncing[p].signature] ELSE check
  BY SyncCheckpoints DEF SyncInv
<1>3. Held(o, imported')
  BY <1>1, SignedFirst DEF Held
<1>4. SyncTypes' /\ AllHeld'
  BY <1>1, <1>3, SyncHeld
<1>5. inode' = inode /\ lines' = lines /\ time' = time
  BY <1>1 DEF SyncStepsTo
<1> DEFINE f == Sync!Path(p)
<1>6. /\ f \in Files /\ f = syncing[p].file /\ syncing[p] \in SyncOp
      /\ syncing[p].signature <= time[f] /\ check \in [Files -> 0..(FileChanges + 1)]
  BY <1>2, SyncHeldHand, SyncHand DEF Held
<1> HIDE DEF f
<1>7. CheckpointsArePast'
  BY <1>2, <1>5, <1>6 DEF SyncInv, CheckpointsArePast, f
<1>8. ASSUME syncing[p].read < syncing[p].left, syncing[p].signature = time[f]
      PROVE  Sync!Within(f) \subseteq imported
  <2>1. /\ Sync!Source(p) = lines[inode[f]]
        /\ \A i \in DOMAIN lines[inode[f]] :
             i <= syncing[p].read => <<f, lines[inode[f]][i]>> \in imported
    BY <1>2, <1>6, <1>8, SourceIsCurrent
  <2>2. lines[inode[f]] \in Sync!Contents
    BY <1>6, SyncTyped DEF SyncInv, SyncTypes
  <2>3. ~(syncing[p].read < Len(lines[inode[f]])) /\ syncing[p].read \in Nat
    BY <1>2, <1>6, <1>8, <2>1, SyncConstants DEF Sync!MoreToRead, SyncOp
  <2>4. \A i \in DOMAIN lines[inode[f]] : i <= syncing[p].read
    BY <2>2, <2>3, ContentsAreSequences
  <2>5. QED
    BY <2>1, <2>4 DEF Sync!Within
<1>9. Sync!CheckpointMeansImported'
  <2> SUFFICES ASSUME NEW g \in Files, check'[g] = time[g]
               PROVE  Sync!Within(g) \subseteq imported
    BY <1>2, <1>5 DEF Sync!CheckpointMeansImported, Sync!Within
  <2>1. CASE check[g] = time[g]
    BY <2>1 DEF SyncInv, Sync!CheckpointMeansImported
  <2>2. CASE check[g] # time[g]
    <3>1. g = f /\ syncing[p].read < syncing[p].left /\ syncing[p].signature = time[f]
      BY <1>2, <1>6, <2>2 DEF f
    <3>2. QED
      BY <1>8, <3>1
  <2>3. QED
    BY <2>1, <2>2
<1>10. QED
  BY <1>4, <1>7, <1>9 DEF SyncInv

LEMMA SyncWritesHeld ==
  ASSUME SyncInv, NEW f \in Files, NEW c \in Sync!Contents,
         Sync!WriteOver(f, c) \/ Sync!Replace(f, c)
  PROVE  SyncInv'
<1>1. SyncTypes'
  BY SyncWrites DEF SyncInv
<1>2. /\ time' = [time EXCEPT ![f] = @ + 1]
      /\ Sync!Changes \in 0..(FileChanges - 1)
      /\ UNCHANGED <<kind, imported, check, syncing>>
  BY SyncChanges DEF SyncInv
<1>3. /\ time \in [Files -> 1..(FileChanges + 1)] /\ check \in [Files -> 0..(FileChanges + 1)]
      /\ inode \in [Files -> Sync!Inodes] /\ lines \in [Sync!Inodes -> Sync!Contents]
      /\ syncing \in [Processes -> SyncOp]
      /\ FilesAreApart /\ AllHeld /\ CheckpointsArePast
      /\ Sync!CheckpointMeansImported
  BY SyncTyped DEF SyncInv, SyncTypes
<1>4. /\ time'[f] = time[f] + 1 /\ time[f] \in Nat
      /\ \A g \in Files : g # f => time'[g] = time[g]
      /\ \A g \in Files : check[g] \in Nat /\ time[g] \in Nat
  BY <1>2, <1>3, SyncConstants
\* What any other path names stays as it is.
<1>5. ASSUME NEW g \in Files, g # f
      PROVE  inode'[g] = inode[g] /\ lines'[inode[g]] = lines[inode[g]]
  <2>1. CASE Sync!WriteOver(f, c)
    BY <1>3, <1>5, <2>1 DEF Sync!WriteOver, FilesAreApart
  <2>2. CASE Sync!Replace(f, c)
    <3> DEFINE new == FileCount + Sync!Changes + 1
    <3>1. inode' = [inode EXCEPT ![f] = new] /\ lines' = [lines EXCEPT ![new] = c]
      BY <2>2, SyncCounts DEF Sync!Replace, FileCount
    <3>2. inode[g] # new
      <4>1. inode[g] <= FileCount + Sync!Changes /\ inode[g] \in Sync!Inodes
        BY <1>3 DEF FilesAreApart
      <4>2. QED
        BY <1>2, <4>1, SyncConstants
    <3> HIDE DEF new
    <3>3. QED
      BY <1>3, <1>5, <3>1, <3>2
  <2>3. QED
    BY <2>1, <2>2
<1>6. CheckpointsArePast'
  BY <1>2, <1>3, <1>4 DEF CheckpointsArePast
<1>7. AllHeld'
  <2> SUFFICES ASSUME NEW q \in Processes PROVE Held(syncing[q], imported)'
    BY DEF AllHeld
  <2> DEFINE o == syncing[q]
  <2>1. o \in SyncOp /\ Held(o, imported) /\ syncing'[q] = o
    BY <1>2, <1>3 DEF AllHeld
  <2>2. o.file \in Files /\ o.signature \in Nat
    BY <2>1, SyncConstants DEF SyncOp
  <2> HIDE DEF o
  <2>3. CASE o.file = f
    <3>1. o.at \in {"compare", "open", "read"} => o.signature < time'[o.file]
      BY <1>4, <2>1, <2>2, <2>3 DEF Held
    <3>2. QED
      BY <1>2, <1>4, <2>1, <2>2, <2>3, <3>1 DEF Held
  <2>4. CASE o.file # f
    <3>1. /\ time'[o.file] = time[o.file] /\ inode'[o.file] = inode[o.file]
          /\ lines'[inode[o.file]] = lines[inode[o.file]]
      BY <1>4, <1>5, <2>2, <2>4
    <3>2. QED
      BY <1>2, <2>1, <3>1 DEF Held
  <2>5. QED
    BY <2>3, <2>4
<1>8. Sync!CheckpointMeansImported'
  <2> SUFFICES ASSUME NEW g \in Files, check[g] = time'[g]
               PROVE  Sync!Within(g)' \subseteq imported
    BY <1>2 DEF Sync!CheckpointMeansImported
  <2>1. g # f
    BY <1>3, <1>4 DEF CheckpointsArePast
  <2>2. Sync!Within(g)' = Sync!Within(g)
    BY <1>5, <2>1 DEF Sync!Within
  <2>3. QED
    BY <1>3, <1>4, <2>1, <2>2 DEF Sync!CheckpointMeansImported
<1>9. QED
  BY <1>1, <1>6, <1>7, <1>8 DEF SyncInv

LEMMA SyncStep ==
  ASSUME Kinds \subseteq SignsFirst
  PROVE  SyncInv /\ Sync!Next => SyncInv'
<1> SUFFICES ASSUME SyncInv, Sync!Next PROVE SyncInv'
  OBVIOUS
<1>1. ASSUME NEW f \in Files, NEW c \in Sync!Contents,
             Sync!WriteOver(f, c) \/ Sync!Replace(f, c)
      PROVE  SyncInv'
  BY <1>1, SyncWritesHeld
<1>2. ASSUME NEW p \in Processes, Sync!Step(p) \/ Sync!Fail(p) PROVE SyncInv'
  <2>1. CASE Sync!Begin(p)
    <3>1. Held(Sync!Start(Sync!Idle), imported')
      BY SyncIdle, SignedFirst DEF Held
    <3>2. QED
      BY <2>1, <3>1, SyncBegins, SyncHolds DEF SyncInv
  <2>2. CASE Sync!Fail(p)
    <3>1. Held(Sync!Idle, imported')
      BY SyncIdle DEF Held
    <3>2. QED
      BY <2>2, <3>1, SyncFails, SyncHolds DEF SyncInv
  <2>3. QED
    BY <1>2, <2>1, <2>2, SyncOpensHeld, SyncSignsHeld, SyncComparesHeld, SyncImportsHeld,
       SyncCheckpointsHeld DEF Sync!Step
<1>3. QED
  BY <1>1, <1>2 DEF Sync!Next

LEMMA SyncStutters == SyncInv /\ UNCHANGED syncVars => SyncInv'
<1> SUFFICES ASSUME SyncInv, UNCHANGED syncVars PROVE SyncInv'
  OBVIOUS
<1>1. /\ kind' = kind /\ inode' = inode /\ lines' = lines /\ time' = time
      /\ imported' = imported /\ check' = check /\ syncing' = syncing
  BY DEF syncVars
<1>2. SyncTypes'
  BY SyncTypesStutter DEF SyncInv
<1>3. AllHeld' /\ CheckpointsArePast'
  BY <1>1 DEF SyncInv, AllHeld, Held, CheckpointsArePast
<1>4. Sync!CheckpointMeansImported'
  BY <1>1 DEF SyncInv, Sync!CheckpointMeansImported, Sync!Within
<1>5. QED
  BY <1>2, <1>3, <1>4 DEF SyncInv

LEMMA SyncKept == SyncInv => CheckpointMeansImported
BY DEF SyncInv, CheckpointMeansImported

(***************************************************************************)
(* All of them in one database.                                            *)
(***************************************************************************)
StoreInv == UsableInv /\ MemoryInv /\ ImportInv /\ BoardInv /\ SyncTypes

LEMMA StoreStart == StoreInit => StoreInv /\ SyncInv
BY UsableInit, MemoryStart, ImportStart, BoardStart, SyncStart, SyncStartHeld
DEF StoreInit, StoreInv

\* A step is of one part, and leaves the others as they are.
LEMMA StoreParts ==
  ASSUME [StoreNext]_storeVars
  PROVE  /\ [Next]_vars
         /\ Memory!Next \/ UNCHANGED memoryVars
         /\ Import!Next \/ UNCHANGED importVars
         /\ Board!Next \/ UNCHANGED boardVars
         /\ Sync!Next \/ UNCHANGED syncVars
<1>1. CASE UNCHANGED storeVars
  BY <1>1 DEF storeVars, schemaVars
<1>2. CASE Next /\ UNCHANGED <<memoryVars, importVars, boardVars, syncVars>>
  BY <1>2
<1>3. CASE Memory!Next /\ UNCHANGED <<schemaVars, importVars, boardVars, syncVars>>
  BY <1>3 DEF schemaVars
<1>4. CASE Import!Next /\ UNCHANGED <<schemaVars, memoryVars, boardVars, syncVars>>
  BY <1>4 DEF schemaVars
<1>5. CASE Board!Next /\ UNCHANGED <<schemaVars, memoryVars, importVars, syncVars>>
  BY <1>5 DEF schemaVars
<1>6. CASE Sync!Next /\ UNCHANGED <<schemaVars, memoryVars, importVars, boardVars>>
  BY <1>6 DEF schemaVars
<1>7. QED
  BY <1>1, <1>2, <1>3, <1>4, <1>5, <1>6 DEF StoreNext

LEMMA StoreStep == StoreInv /\ [StoreNext]_storeVars => StoreInv'
<1> SUFFICES ASSUME StoreInv, [StoreNext]_storeVars PROVE StoreInv'
  OBVIOUS
<1>1. UsableInv /\ MemoryInv /\ ImportInv /\ BoardInv /\ SyncTypes
  BY DEF StoreInv
<1>2. UsableInv'
  BY <1>1, StoreParts, UsableStep
<1>3. MemoryInv'
  BY <1>1, StoreParts, MemoryStep, MemoryStutters
<1>4. ImportInv'
  BY <1>1, StoreParts, ImportStep, ImportStutters
<1>5. BoardInv'
  BY <1>1, StoreParts, BoardStep, BoardStutters
<1>6. SyncTypes'
  BY <1>1, StoreParts, SyncTypesKept, SyncTypesStutter
<1>7. QED
  BY <1>2, <1>3, <1>4, <1>5, <1>6 DEF StoreInv

LEMMA StoreInvKept == StoreSpec => []StoreInv
BY StoreStart, StoreStep, PTL DEF StoreSpec

\* Every part of the database keeps to its types, however many processes use it, and
\* no sync reads more than its limit.
THEOREM StoreTypesKept == StoreSpec => []StoreTypes
<1>1. StoreInv => StoreTypes
  BY BoardTyped
  DEF StoreInv, StoreTypes, UsableInv, MemoryInv, ImportInv, SyncTypes
<1>2. QED
  BY <1>1, StoreInvKept, PTL

\* With any number of processes adding, compacting, pinning and dying, no history
\* keeps a repeat or more than its retention, unless a process has left one behind.
THEOREM MemoryKeptCompact == StoreSpec => []MemoryIsCompact
<1>1. StoreInv => MemoryIsCompact
  BY MemoryKept DEF StoreInv
<1>2. QED
  BY <1>1, StoreInvKept, PTL

\* And no step takes away what is pinned, or what was learned last.
THEOREM MemoryKeptStays == StoreSpec => MemoryStays
<1>1. ASSUME StoreInv, [StoreNext]_storeVars
      PROVE  Memory!PinnedStays /\ Memory!LatestStays
  <2>1. MemoryInv /\ (Memory!Next \/ UNCHANGED memoryVars)
    BY <1>1, StoreParts DEF StoreInv
  <2>2. CASE Memory!Next
    BY <2>1, <2>2, StepKeeps
  <2>3. CASE UNCHANGED memoryVars
    <3>1. obs' = obs
      BY <2>3 DEF memoryVars
    <3>2. QED
      BY <2>1, <3>1, StaysInPlace
  <2>4. QED
    BY <2>1, <2>2, <2>3
<1>2. QED
  BY <1>1, StoreInvKept, PTL DEF StoreSpec, MemoryStays

\* Any number of dashboards and commands that import, fail and start again, and of
\* users who delete: no line counts twice, and no event is left of nobody.
THEOREM ImportsKeptExact == StoreSpec => []ImportsAreExact
<1>1. StoreInv => ImportsAreExact
  BY ImportKept DEF StoreInv
<1>2. QED
  BY <1>1, StoreInvKept, PTL

\* Connectors that sign a file before they open it, however many syncs overlap and
\* fail while files are written and replaced: what is passed over has come in.
THEOREM CheckpointsAreTrue ==
  ASSUME Kinds \subseteq SignsFirst
  PROVE  StoreSpec => []CheckpointMeansImported
<1>1. SyncInv /\ [StoreNext]_storeVars => SyncInv'
  BY StoreParts, SyncStep, SyncStutters
<1>2. StoreSpec => []SyncInv
  BY <1>1, StoreStart, PTL DEF StoreSpec
<1>3. QED
  BY <1>2, SyncKept, PTL
=============================================================================
