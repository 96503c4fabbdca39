----------------------- MODULE DeveloperHandoffProofs -----------------------
EXTENDS DeveloperHandoff, FiniteSetTheorems, TLAPS

(***************************************************************************)
(* Where a request is tells which file and which item it works on.         *)
(***************************************************************************)
Writing == {"backup", "copy", "open", "write"}
Testing == {"get", "scan", "loadTest", "saveTest", "loadFinal"}

PlaceOK ==
  \A r \in Requests :
    /\ job[r].at \in Writing \cup {"restore"} => job[r].file \in Files
    /\ job[r].at \in Testing => job[r].item \in Findings
    /\ job[r].at = "restore" => backup[job[r].file] # NoBackup

TypeInv == TypeOK /\ PlaceOK

\* A step of a request changes its own job and no other.
LEMMA GotoFacts ==
  ASSUME job \in [Requests -> Jobs], NEW r \in Requests, NEW j, Goto(r, j)
  PROVE  /\ job'[r] = j
         /\ \A q \in Requests \ {r} : job'[q] = job[q]
         /\ j \in Jobs => job' \in [Requests -> Jobs]
BY DEF Goto

LEMMA IdleTyped == Idle \in Jobs
BY DEF Idle, Jobs, Places, Texts, NoItems, Stages

(***************************************************************************)
(* The provers take a record update one field at a time: each update of a  *)
(* job has a name and a lemma that says which fields it leaves alone.      *)
(***************************************************************************)
At(j, x) == [j EXCEPT !.at = x]
WithItem(j, x) == [j EXCEPT !.item = x]
WithTodo(j, x) == [j EXCEPT !.todo = x]
WithFile(j, x) == [j EXCEPT !.file = x]
WithText(j, x) == [j EXCEPT !.text = x]
WithApplied(j, x) == [j EXCEPT !.applied = x]
WithClear(j, x) == [j EXCEPT !.clear = x]
WithItems(j, x) == [j EXCEPT !.items = x]

Same(j, k, but) ==
  /\ "at" \notin but => k.at = j.at
  /\ "item" \notin but => k.item = j.item
  /\ "todo" \notin but => k.todo = j.todo
  /\ "file" \notin but => k.file = j.file
  /\ "text" \notin but => k.text = j.text
  /\ "applied" \notin but => k.applied = j.applied
  /\ "clear" \notin but => k.clear = j.clear
  /\ "items" \notin but => k.items = j.items

LEMMA AtFacts ==
  ASSUME NEW j \in Jobs, NEW x \in Places
  PROVE  At(j, x) \in Jobs /\ At(j, x).at = x /\ Same(j, At(j, x), {"at"})
BY DEF At, Same, Jobs

LEMMA WithItemFacts ==
  ASSUME NEW j \in Jobs, NEW x \in {None} \cup Findings
  PROVE  WithItem(j, x) \in Jobs /\ WithItem(j, x).item = x
         /\ Same(j, WithItem(j, x), {"item"})
BY DEF WithItem, Same, Jobs

LEMMA WithTodoFacts ==
  ASSUME NEW j \in Jobs, NEW x \in Texts
  PROVE  WithTodo(j, x) \in Jobs /\ WithTodo(j, x).todo = x
         /\ Same(j, WithTodo(j, x), {"todo"})
BY DEF WithTodo, Same, Jobs

LEMMA WithFileFacts ==
  ASSUME NEW j \in Jobs, NEW x \in {None} \cup Files
  PROVE  WithFile(j, x) \in Jobs /\ WithFile(j, x).file = x
         /\ Same(j, WithFile(j, x), {"file"})
BY DEF WithFile, Same, Jobs

LEMMA WithTextFacts ==
  ASSUME NEW j \in Jobs, NEW x \in Texts
  PROVE  WithText(j, x) \in Jobs /\ WithText(j, x).text = x
         /\ Same(j, WithText(j, x), {"text"})
BY DEF WithText, Same, Jobs

LEMMA WithAppliedFacts ==
  ASSUME NEW j \in Jobs, NEW x \in BOOLEAN
  PROVE  WithApplied(j, x) \in Jobs /\ WithApplied(j, x).applied = x
         /\ Same(j, WithApplied(j, x), {"applied"})
BY DEF WithApplied, Same, Jobs

LEMMA WithClearFacts ==
  ASSUME NEW j \in Jobs, NEW x \in BOOLEAN
  PROVE  WithClear(j, x) \in Jobs /\ WithClear(j, x).clear = x
         /\ Same(j, WithClear(j, x), {"clear"})
BY DEF WithClear, Same, Jobs

LEMMA WithItemsFacts ==
  ASSUME NEW j \in Jobs, NEW x \in [Findings -> Stages]
  PROVE  WithItems(j, x) \in Jobs /\ WithItems(j, x).items = x
         /\ Same(j, WithItems(j, x), {"items"})
BY DEF WithItems, Same, Jobs

Saving(j, p, I) == [j EXCEPT !.at = p, !.items = I]
Choosing(j, p, S) == [j EXCEPT !.at = p, !.todo = S]
Approving(j, p, f, S) == [j EXCEPT !.at = p, !.item = f, !.todo = S]
Rewriting(j, p, a, T) == [j EXCEPT !.at = p, !.file = a, !.text = T]
Clearing(j, p, g) == [j EXCEPT !.at = p, !.clear = g]
Restoring(j, p, a) == [j EXCEPT !.at = p, !.file = a]
Advancing(j, p, S) ==
  [[j EXCEPT !.todo = S, !.file = None, !.text = {}] EXCEPT !.at = p]

LEMMA SavingFacts ==
  ASSUME NEW j \in Jobs, NEW p \in Places, NEW I \in [Findings -> Stages]
  PROVE  LET k == Saving(j, p, I)
         IN /\ k \in Jobs
            /\ k.at = p
            /\ k.item = j.item
            /\ k.todo = j.todo
            /\ k.file = j.file
            /\ k.text = j.text
            /\ k.applied = j.applied
            /\ k.clear = j.clear
            /\ k.items = I
<1> DEFINE k1 == At(j, p)
<1> DEFINE k2 == WithItems(k1, I)
<1>0. Saving(j, p, I) = k2
  BY DEF Saving, At, WithItems
<1>1. k1 \in Jobs /\ k1.at = p /\ Same(j, k1, {"at"})
  BY AtFacts
<1>2. k2 \in Jobs /\ k2.items = I /\ Same(k1, k2, {"items"})
  BY <1>1, WithItemsFacts
<1> HIDE DEF k1, k2
<1> QED
  BY <1>0, <1>1, <1>2 DEF Same

LEMMA ChoosingFacts ==
  ASSUME NEW j \in Jobs, NEW p \in Places, NEW S \in Texts
  PROVE  LET k == Choosing(j, p, S)
         IN /\ k \in Jobs
            /\ k.at = p
            /\ k.item = j.item
            /\ k.todo = S
            /\ k.file = j.file
            /\ k.text = j.text
            /\ k.applied = j.applied
            /\ k.clear = j.clear
            /\ k.items = j.items
<1> DEFINE k1 == At(j, p)
<1> DEFINE k2 == WithTodo(k1, S)
<1>0. Choosing(j, p, S) = k2
  BY DEF Choosing, At, WithTodo
<1>1. k1 \in Jobs /\ k1.at = p /\ Same(j, k1, {"at"})
  BY AtFacts
<1>2. k2 \in Jobs /\ k2.todo = S /\ Same(k1, k2, {"todo"})
  BY <1>1, WithTodoFacts
<1> HIDE DEF k1, k2
<1> QED
  BY <1>0, <1>1, <1>2 DEF Same

LEMMA ApprovingFacts ==
  ASSUME NEW j \in Jobs, NEW p \in Places, NEW f \in Findings, NEW S \in Texts
  PROVE  LET k == Approving(j, p, f, S)
         IN /\ k \in Jobs
            /\ k.at = p
            /\ k.item = f
            /\ k.todo = S
            /\ k.file = j.file
            /\ k.text = j.text
            /\ k.applied = j.applied
            /\ k.clear = j.clear
            /\ k.items = j.items
<1> DEFINE k1 == At(j, p)
<1> DEFINE k2 == WithItem(k1, f)
<1> DEFINE k3 == WithTodo(k2, S)
<1>0. Approving(j, p, f, S) = k3
  BY DEF Approving, At, WithItem, WithTodo
<1>1. k1 \in Jobs /\ k1.at = p /\ Same(j, k1, {"at"})
  BY AtFacts
<1>2. k2 \in Jobs /\ k2.item = f /\ Same(k1, k2, {"item"})
  BY <1>1, WithItemFacts
<1>3. k3 \in Jobs /\ k3.todo = S /\ Same(k2, k3, {"todo"})
  BY <1>2, WithTodoFacts
<1> HIDE DEF k1, k2, k3
<1> QED
  BY <1>0, <1>1, <1>2, <1>3 DEF Same

LEMMA RewritingFacts ==
  ASSUME NEW j \in Jobs, NEW p \in Places, NEW a \in Files, NEW T \in Texts
  PROVE  LET k == Rewriting(j, p, a, T)
         IN /\ k \in Jobs
            /\ k.at = p
            /\ k.item = j.item
            /\ k.todo = j.todo
            /\ k.file = a
            /\ k.text = T
            /\ k.applied = j.applied
            /\ k.clear = j.clear
            /\ k.items = j.items
<1> DEFINE k1 == At(j, p)
<1> DEFINE k2 == WithFile(k1, a)
<1> DEFINE k3 == WithText(k2, T)
<1>0. Rewriting(j, p, a, T) = k3
  BY DEF Rewriting, At, WithFile, WithText
<1>1. k1 \in Jobs /\ k1.at = p /\ Same(j, k1, {"at"})
  BY AtFacts
<1>2. k2 \in Jobs /\ k2.file = a /\ Same(k1, k2, {"file"})
  BY <1>1, WithFileFacts
<1>3. k3 \in Jobs /\ k3.text = T /\ Same(k2, k3, {"text"})
  BY <1>2, WithTextFacts
<1> HIDE DEF k1, k2, k3
<1> QED
  BY <1>0, <1>1, <1>2, <1>3 DEF Same

LEMMA ClearingFacts ==
  ASSUME NEW j \in Jobs, NEW p \in Places, NEW g \in BOOLEAN
  PROVE  LET k == Clearing(j, p, g)
         IN /\ k \in Jobs
            /\ k.at = p
            /\ k.item = j.item
            /\ k.todo = j.todo
            /\ k.file = j.file
            /\ k.text = j.text
            /\ k.applied = j.applied
            /\ k.clear = g
            /\ k.items = j.items
<1> DEFINE k1 == At(j, p)
<1> DEFINE k2 == WithClear(k1, g)
<1>0. Clearing(j, p, g) = k2
  BY DEF Clearing, At, WithClear
<1>1. k1 \in Jobs /\ k1.at = p /\ Same(j, k1, {"at"})
  BY AtFacts
<1>2. k2 \in Jobs /\ k2.clear = g /\ Same(k1, k2, {"clear"})
  BY <1>1, WithClearFacts
<1> HIDE DEF k1, k2
<1> QED
  BY <1>0, <1>1, <1>2 DEF Same

LEMMA RestoringFacts ==
  ASSUME NEW j \in Jobs, NEW p \in Places, NEW a \in Files
  PROVE  LET k == Restoring(j, p, a)
         IN /\ k \in Jobs
            /\ k.at = p
            /\ k.item = j.item
            /\ k.todo = j.todo
            /\ k.file = a
            /\ k.text = j.text
            /\ k.applied = j.applied
            /\ k.clear = j.clear
            /\ k.items = j.items
<1> DEFINE k1 == At(j, p)
<1> DEFINE k2 == WithFile(k1, a)
<1>0. Restoring(j, p, a) = k2
  BY DEF Restoring, At, WithFile
<1>1. k1 \in Jobs /\ k1.at = p /\ Same(j, k1, {"at"})
  BY AtFacts
<1>2. k2 \in Jobs /\ k2.file = a /\ Same(k1, k2, {"file"})
  BY <1>1, WithFileFacts
<1> HIDE DEF k1, k2
<1> QED
  BY <1>0, <1>1, <1>2 DEF Same

LEMMA AdvancingFacts ==
  ASSUME NEW j \in Jobs, NEW p \in Places, NEW S \in Texts
  PROVE  LET k == Advancing(j, p, S)
         IN /\ k \in Jobs
            /\ k.at = p
            /\ k.item = j.item
            /\ k.todo = S
            /\ k.file = None
            /\ k.text = {}
            /\ k.applied = j.applied
            /\ k.clear = j.clear
            /\ k.items = j.items
<1> DEFINE k1 == WithTodo(j, S)
<1> DEFINE k2 == WithFile(k1, None)
<1> DEFINE k3 == WithText(k2, {})
<1> DEFINE k4 == At(k3, p)
<1>0. Advancing(j, p, S) = k4
  BY DEF Advancing, WithTodo, WithFile, WithText, At
<1>1. k1 \in Jobs /\ k1.todo = S /\ Same(j, k1, {"todo"})
  BY WithTodoFacts
<1>2. k2 \in Jobs /\ k2.file = None /\ Same(k1, k2, {"file"})
  BY <1>1, WithFileFacts
<1>3. k3 \in Jobs /\ k3.text = {} /\ Same(k2, k3, {"text"})
  BY <1>2, WithTextFacts DEF Texts
<1>4. k4 \in Jobs /\ k4.at = p /\ Same(k3, k4, {"at"})
  BY <1>3, AtFacts
<1> HIDE DEF k1, k2, k3, k4
<1> QED
  BY <1>0, <1>1, <1>2, <1>3, <1>4 DEF Same

LEMMA IdleFacts ==
  /\ Idle \in Jobs /\ Idle.at = "idle" /\ Idle.item = None
  /\ Idle.todo = {} /\ Idle.file = None /\ Idle.text = {}
  /\ Idle.clear = FALSE /\ Idle.items = NoItems
BY IdleTyped DEF Idle

\* Where NextFile leads.
LEMMA NextFileFacts ==
  ASSUME NEW j \in Jobs, NEW S
  PROVE  LET k == NextFile(j, S)
         IN \/ k = Idle
            \/ /\ k \in Jobs /\ k.at \in {"patch", "get"}
               /\ k.item = j.item /\ k.todo = j.todo \ S /\ k.file = None
               /\ k.text = {} /\ k.clear = j.clear /\ k.items = j.items
               /\ k.at = "get" => k.item \in Findings
<1> DEFINE left == j.todo \ S
<1>0. left \in Texts /\ "patch" \in Places /\ "get" \in Places
  BY DEF Jobs, Texts, Places
<1>1. CASE left # {}
  <2>1. NextFile(j, S) = Advancing(j, "patch", left)
    BY <1>1 DEF NextFile, Advancing
  <2> HIDE DEF left
  <2>2. NextFile(j, S) \in Jobs /\ NextFile(j, S).at = "patch"
    BY <1>0, <2>1, AdvancingFacts
  <2>3. /\ NextFile(j, S).item = j.item /\ NextFile(j, S).todo = left
        /\ NextFile(j, S).file = None /\ NextFile(j, S).text = {}
        /\ NextFile(j, S).clear = j.clear /\ NextFile(j, S).items = j.items
    BY <1>0, <2>1, AdvancingFacts
  <2> QED
    BY <2>2, <2>3 DEF left
<1>2. CASE left = {} /\ j.item # None
  <2>1. NextFile(j, S) = Advancing(j, "get", left)
    BY <1>2 DEF NextFile, Advancing
  <2> HIDE DEF left
  <2>2. NextFile(j, S) \in Jobs /\ NextFile(j, S).at = "get"
    BY <1>0, <2>1, AdvancingFacts
  <2>3. /\ NextFile(j, S).item = j.item /\ NextFile(j, S).todo = left
        /\ NextFile(j, S).file = None /\ NextFile(j, S).text = {}
        /\ NextFile(j, S).clear = j.clear /\ NextFile(j, S).items = j.items
    BY <1>0, <2>1, AdvancingFacts
  <2>4. j.item \in Findings
    BY <1>2 DEF Jobs
  <2> QED
    BY <2>2, <2>3, <2>4 DEF left
<1>3. CASE left = {} /\ j.item = None
  BY <1>3 DEF NextFile
<1> QED
  BY <1>1, <1>2, <1>3

\* When one job changes to a well-typed one and nothing else is disturbed,
\* only its own place has to be looked at.
LEMMA JobStep ==
  ASSUME TypeInv, NEW r \in Requests, NEW j \in Jobs, Goto(r, j),
         \A a \in Files : backup[a] # NoBackup => backup'[a] # NoBackup,
         j.at \in Writing \cup {"restore"} => j.file \in Files,
         j.at \in Testing => j.item \in Findings,
         j.at = "restore" => backup'[j.file] # NoBackup
  PROVE  job' \in [Requests -> Jobs] /\ PlaceOK'
<1>1. /\ job'[r] = j
      /\ \A q \in Requests \ {r} : job'[q] = job[q]
      /\ job' \in [Requests -> Jobs]
  BY GotoFacts DEF TypeInv, TypeOK
<1>2. ASSUME NEW q \in Requests
      PROVE  /\ job'[q].at \in Writing \cup {"restore"} => job'[q].file \in Files
             /\ job'[q].at \in Testing => job'[q].item \in Findings
             /\ job'[q].at = "restore" => backup'[job'[q].file] # NoBackup
  <2>1. CASE q = r
    BY <1>1, <2>1
  <2>2. CASE q # r
    <3>1. job'[q] = job[q]
      BY <1>1, <2>2
    <3> QED
      BY <3>1 DEF TypeInv, PlaceOK
  <2> QED
    BY <2>1, <2>2
<1> QED
  BY <1>1, <1>2 DEF PlaceOK

LEMMA TypeStep == TypeInv /\ [Next]_vars => TypeInv'
<1> SUFFICES ASSUME TypeInv, [Next]_vars PROVE TypeInv'
  OBVIOUS
<1> USE HandoffAssumption
<1>0. \A q \in Requests : job[q] \in Jobs
  BY DEF TypeInv, TypeOK
<1>1. ASSUME NEW r \in Requests, Send(r) PROVE TypeInv'
  <2>1. PICK F \in Batches : Goto(r, Saving(Idle, "save", Delivered(F)))
    BY <1>1 DEF Send, Begin, Saving
  <2> DEFINE j == Saving(Idle, "save", Delivered(F))
  <2>2. Delivered(F) \in [Findings -> Stages]
    BY DEF Delivered, TypeInv, TypeOK, Stages
  <2>3. j \in Jobs /\ j.at = "save"
    BY <2>2, IdleFacts, SavingFacts DEF Places
  <2>4. UNCHANGED <<stage, source, backup, approved, cleared, disturbed>>
    BY <1>1 DEF Send
  <2> HIDE DEF j
  <2>5. job' \in [Requests -> Jobs] /\ PlaceOK'
    BY <2>1, <2>3, <2>4, JobStep DEF j, Writing, Testing
  <2> QED
    BY <2>4, <2>5 DEF TypeInv, TypeOK
<1>2. ASSUME NEW r \in Requests, Save(r) PROVE TypeInv'
  <2>1. job' \in [Requests -> Jobs] /\ PlaceOK'
    BY <1>2, IdleTyped, JobStep DEF Save, Idle, Writing, Testing
  <2>2. stage' \in [Findings -> Stages]
    BY <1>0, <1>2 DEF Save, Jobs
  <2> QED
    BY <1>2, <2>1, <2>2 DEF Save, TypeInv, TypeOK
<1>3. ASSUME NEW r \in Requests, NEW f \in Findings, NEW yes \in BOOLEAN,
             Approve(r, f, yes)
      PROVE  TypeInv'
  <2> DEFINE j == IF yes THEN Approving(Idle, "patch", f, {f}) ELSE Idle
  <2>1. Goto(r, j)
    BY <1>3 DEF Approve, Begin, Approving
  <2>2. j \in Jobs /\ j.at \in {"idle", "patch"}
    BY IdleFacts, ApprovingFacts DEF Places, Texts
  <2>3. UNCHANGED <<stage, source, backup, cleared>>
    BY <1>3 DEF Approve
  <2> HIDE DEF j
  <2>4. job' \in [Requests -> Jobs] /\ PlaceOK'
    BY <2>1, <2>2, <2>3, JobStep DEF Writing, Testing
  <2>5. approved' \in Texts /\ disturbed' \in SUBSET Files
    BY <1>3 DEF Approve, Meet, TypeInv, TypeOK, Texts
  <2> QED
    BY <2>3, <2>4, <2>5 DEF TypeInv, TypeOK
<1>4. ASSUME NEW r \in Requests, NEW yes \in BOOLEAN, Secure(r, yes)
      PROVE  TypeInv'
  <2> DEFINE found == {f \in Findings : Fires(f)}
             j == IF yes THEN Choosing(Idle, "select", found) ELSE Idle
  <2>1. Goto(r, j)
    BY <1>4 DEF Secure, Begin, Choosing
  <2>2. j \in Jobs /\ j.at \in {"idle", "select"}
    BY IdleFacts, ChoosingFacts DEF Places, Texts
  <2>3. UNCHANGED <<stage, source, backup, cleared>>
    BY <1>4 DEF Secure
  <2> HIDE DEF j
  <2>4. job' \in [Requests -> Jobs] /\ PlaceOK'
    BY <2>1, <2>2, <2>3, JobStep DEF Writing, Testing
  <2>5. approved' \in Texts /\ disturbed' \in SUBSET Files
    BY <1>4 DEF Secure, Meet, TypeInv, TypeOK, Texts
  <2> QED
    BY <2>3, <2>4, <2>5 DEF TypeInv, TypeOK
<1>5. ASSUME NEW r \in Requests, Select(r) PROVE TypeInv'
  <2> DEFINE fixable == {f \in job[r].todo : CanPatch({f}, source[FileOf[f]])}
             j == IF fixable = {} THEN Idle
                  ELSE Choosing(job[r], "patch", fixable)
  <2>1. Goto(r, j) /\ UNCHANGED <<stage, source, backup, approved, cleared, disturbed>>
    BY <1>5 DEF Select, Choosing
  <2>2. fixable \in Texts
    BY <1>0 DEF Jobs, Texts
  <2> HIDE DEF fixable
  <2>3. j \in Jobs /\ j.at \in {"idle", "patch"}
    <3>1. job[r] \in Jobs /\ "patch" \in Places
      BY <1>0 DEF Places
    <3>2. LET k == Choosing(job[r], "patch", fixable)
          IN k \in Jobs /\ k.at = "patch"
      BY <2>2, <3>1, ChoosingFacts
    <3> QED
      BY <3>2, IdleFacts
  <2> HIDE DEF j
  <2>4. job' \in [Requests -> Jobs] /\ PlaceOK'
    BY <2>1, <2>3, JobStep DEF Writing, Testing
  <2> QED
    BY <2>1, <2>4 DEF TypeInv, TypeOK
<1>6. ASSUME NEW r \in Requests, NEW a \in Files, ReadSource(r, a)
      PROVE  TypeInv'
  <2> DEFINE batch == In(a, job[r].todo)
             j == Rewriting(job[r], "backup", a, Patched(batch, source[a]))
  <2>1. UNCHANGED <<stage, source, backup, approved, cleared, disturbed>>
    BY <1>6 DEF ReadSource
  <2>2. batch \in Texts
    BY <1>0 DEF In, Jobs, Texts
  <2>3. CASE CanPatch(batch, source[a])
    <3>1. Goto(r, j)
      BY <1>6, <2>3 DEF ReadSource, Rewriting
    <3>2. source[a] # Torn
      BY <1>6, <2>3 DEF ReadSource, CanPatch
    <3>3. Patched(batch, source[a]) \in Texts
      BY <2>2, <3>2 DEF TypeInv, TypeOK, Texts, Patched
    <3> HIDE DEF batch
    <3>4. j \in Jobs /\ j.at = "backup" /\ j.file = a
      BY <1>0, <3>3, RewritingFacts DEF Places
    <3> HIDE DEF j
    <3>5. job' \in [Requests -> Jobs] /\ PlaceOK'
      BY <2>1, <3>1, <3>4, JobStep DEF Testing
    <3> QED
      BY <2>1, <3>5 DEF TypeInv, TypeOK
  <2>4. CASE ~ CanPatch(batch, source[a])
    <3>1. Goto(r, NextFile(job[r], batch))
      BY <1>6, <2>4 DEF ReadSource
    <3>2. job' \in [Requests -> Jobs] /\ PlaceOK'
      <4> DEFINE j2 == NextFile(job[r], batch)
      <4>1. /\ j2 \in Jobs /\ j2.at \in {"idle", "patch", "get"}
            /\ j2.at = "get" => j2.item \in Findings
        BY <1>0, NextFileFacts, IdleFacts
      <4>2. Goto(r, j2)
        BY <3>1
      <4> HIDE DEF j2
      <4> QED
        BY <2>1, <4>1, <4>2, JobStep DEF Writing, Testing
    <3> QED
      BY <2>1, <3>2 DEF TypeInv, TypeOK
  <2> QED
    BY <2>3, <2>4
<1>7. ASSUME NEW r \in Requests, BackupOpen(r) PROVE TypeInv'
  <2> DEFINE j == At(job[r], "copy")
  <2>1. /\ Goto(r, j) /\ backup' = [backup EXCEPT ![job[r].file] = Torn]
        /\ UNCHANGED <<stage, source, approved, cleared, disturbed>>
    BY <1>7 DEF BackupOpen, At
  <2>2. job[r].file \in Files
    BY <1>7 DEF BackupOpen, TypeInv, PlaceOK, Writing
  <2>3. /\ backup' \in [Files -> {Torn, NoBackup} \cup Texts]
        /\ \A b \in Files : backup[b] # NoBackup => backup'[b] # NoBackup
    BY <2>1, <2>2 DEF TypeInv, TypeOK
  <2>4. j \in Jobs /\ j.at = "copy" /\ j.file \in Files
    BY <1>0, <2>2, AtFacts DEF Same, Places
  <2> HIDE DEF j
  <2>5. job' \in [Requests -> Jobs] /\ PlaceOK'
    BY <2>1, <2>3, <2>4, JobStep DEF Testing
  <2> QED
    BY <2>1, <2>3, <2>5 DEF TypeInv, TypeOK
<1>8. ASSUME NEW r \in Requests, BackupCopy(r) PROVE TypeInv'
  <2> DEFINE j == At(job[r], "open")
  <2>1. /\ Goto(r, j)
        /\ backup' = [backup EXCEPT ![job[r].file] = source[job[r].file]]
        /\ UNCHANGED <<stage, source, approved, cleared, disturbed>>
    BY <1>8 DEF BackupCopy, At
  <2>2. job[r].file \in Files
    BY <1>8 DEF BackupCopy, TypeInv, PlaceOK, Writing
  <2>3. source[job[r].file] \in {Torn} \cup Texts
    BY <2>2 DEF TypeInv, TypeOK
  <2>4. /\ backup' \in [Files -> {Torn, NoBackup} \cup Texts]
        /\ \A b \in Files : backup[b] # NoBackup => backup'[b] # NoBackup
    BY <2>1, <2>2, <2>3 DEF TypeInv, TypeOK
  <2>5. j \in Jobs /\ j.at = "open" /\ j.file \in Files
    BY <1>0, <2>2, AtFacts DEF Same, Places
  <2> HIDE DEF j
  <2>6. job' \in [Requests -> Jobs] /\ PlaceOK'
    BY <2>1, <2>4, <2>5, JobStep DEF Testing
  <2> QED
    BY <2>1, <2>4, <2>6 DEF TypeInv, TypeOK
<1>9. ASSUME NEW r \in Requests, SourceOpen(r) PROVE TypeInv'
  <2> DEFINE j == At(job[r], "write")
  <2>1. /\ Goto(r, j) /\ source' = [source EXCEPT ![job[r].file] = Torn]
        /\ UNCHANGED <<stage, backup, approved, cleared, disturbed>>
    BY <1>9 DEF SourceOpen, At
  <2>2. job[r].file \in Files
    BY <1>9 DEF SourceOpen, TypeInv, PlaceOK, Writing
  <2>3. source' \in [Files -> {Torn} \cup Texts]
    BY <2>1 DEF TypeInv, TypeOK
  <2>4. j \in Jobs /\ j.at = "write" /\ j.file \in Files
    BY <1>0, <2>2, AtFacts DEF Same, Places
  <2> HIDE DEF j
  <2>5. job' \in [Requests -> Jobs] /\ PlaceOK'
    BY <2>1, <2>4, JobStep DEF Testing
  <2> QED
    BY <2>1, <2>3, <2>5 DEF TypeInv, TypeOK
<1>10. ASSUME NEW r \in Requests, SourceWrite(r) PROVE TypeInv'
  <2> DEFINE i == WithApplied(job[r], TRUE)
             j == NextFile(i, In(job[r].file, job[r].todo))
  <2>1. /\ Goto(r, j) /\ source' = [source EXCEPT ![job[r].file] = job[r].text]
        /\ UNCHANGED <<stage, backup, approved, cleared, disturbed>>
    BY <1>10 DEF SourceWrite, WithApplied
  <2>2. source' \in [Files -> {Torn} \cup Texts]
    BY <1>0, <2>1 DEF TypeInv, TypeOK, Jobs
  <2>3. i \in Jobs
    BY <1>0, WithAppliedFacts
  <2> HIDE DEF i
  <2>4. /\ j \in Jobs /\ j.at \in {"idle", "patch", "get"}
        /\ j.at = "get" => j.item \in Findings
    BY <2>3, NextFileFacts, IdleFacts
  <2> HIDE DEF j
  <2>5. job' \in [Requests -> Jobs] /\ PlaceOK'
    BY <2>1, <2>4, JobStep DEF Writing, Testing
  <2> QED
    BY <2>1, <2>2, <2>5 DEF TypeInv, TypeOK
<1>11. ASSUME NEW r \in Requests, TestGet(r) PROVE TypeInv'
  <2> DEFINE j == At(job[r], IF stage[job[r].item] = "none"
                               THEN "loadFinal" ELSE "scan")
  <2>1. Goto(r, j) /\ UNCHANGED <<stage, source, backup, approved, cleared, disturbed>>
    BY <1>11 DEF TestGet, At
  <2>2. job[r].item \in Findings
    BY <1>11 DEF TestGet, TypeInv, PlaceOK, Testing
  <2>3. j \in Jobs /\ j.at \in {"loadFinal", "scan"} /\ j.item \in Findings
    BY <1>0, <2>2, AtFacts DEF Same, Places
  <2> HIDE DEF j
  <2>4. job' \in [Requests -> Jobs] /\ PlaceOK'
    BY <2>1, <2>3, JobStep DEF Writing
  <2> QED
    BY <2>1, <2>4 DEF TypeInv, TypeOK
<1>12. ASSUME NEW r \in Requests, Scan(r) PROVE TypeInv'
  <2> DEFINE gone == ~ StillPresent(job[r].item)
             j == Clearing(job[r], "loadTest", gone)
  <2>1. Goto(r, j) /\ UNCHANGED <<stage, source, backup, approved, disturbed>>
    BY <1>12 DEF Scan, Clearing
  <2>2. job[r].item \in Findings
    BY <1>12 DEF Scan, TypeInv, PlaceOK, Testing
  <2>3. cleared' \in Texts
    BY <1>12, <2>2 DEF Scan, TypeInv, TypeOK, Texts
  <2>4. gone \in BOOLEAN
    BY DEF StillPresent
  <2> HIDE DEF gone
  <2>5. j \in Jobs /\ j.at = "loadTest" /\ j.item \in Findings
    <3>1. job[r] \in Jobs /\ "loadTest" \in Places
      BY <1>0 DEF Places
    <3>2. j \in Jobs /\ j.at = "loadTest" /\ j.item = job[r].item
      BY <2>4, <3>1, ClearingFacts
    <3> QED
      BY <2>2, <3>2
  <2> HIDE DEF j
  <2>6. job' \in [Requests -> Jobs] /\ PlaceOK'
    BY <2>1, <2>5, JobStep DEF Writing
  <2> QED
    BY <2>1, <2>3, <2>6 DEF TypeInv, TypeOK
<1>13. ASSUME NEW r \in Requests, LoadTest(r) PROVE TypeInv'
  <2> DEFINE verdict == IF job[r].clear THEN "verified" ELSE "not_verified"
             items == [stage EXCEPT ![job[r].item] = verdict]
             j == IF stage[job[r].item] = "none"
                  THEN At(job[r], "loadFinal")
                  ELSE Saving(job[r], "saveTest", items)
  <2>1. Goto(r, j) /\ UNCHANGED <<stage, source, backup, approved, cleared, disturbed>>
    BY <1>13 DEF LoadTest, At, Saving
  <2>2. job[r].item \in Findings
    BY <1>13 DEF LoadTest, TypeInv, PlaceOK, Testing
  <2>3. items \in [Findings -> Stages]
    BY DEF TypeInv, TypeOK, Stages
  <2> HIDE DEF items
  <2>4. j \in Jobs /\ j.at \in {"loadFinal", "saveTest"} /\ j.item \in Findings
    BY <1>0, <2>2, <2>3, AtFacts, SavingFacts DEF Same, Places
  <2> HIDE DEF j
  <2>5. job' \in [Requests -> Jobs] /\ PlaceOK'
    BY <2>1, <2>4, JobStep DEF Writing
  <2> QED
    BY <2>1, <2>5 DEF TypeInv, TypeOK
<1>14. ASSUME NEW r \in Requests, SaveTest(r) PROVE TypeInv'
  <2> DEFINE j == Saving(job[r], "loadFinal", NoItems)
  <2>1. /\ Goto(r, j) /\ stage' = job[r].items
        /\ UNCHANGED <<source, backup, approved, cleared, disturbed>>
    BY <1>14 DEF SaveTest, Saving
  <2>2. job[r].item \in Findings
    BY <1>14 DEF SaveTest, TypeInv, PlaceOK, Testing
  <2>3. NoItems \in [Findings -> Stages]
    BY DEF NoItems, Stages
  <2>4. j \in Jobs /\ j.at = "loadFinal" /\ j.item \in Findings
    BY <1>0, <2>2, <2>3, SavingFacts DEF Places
  <2> HIDE DEF j
  <2>5. job' \in [Requests -> Jobs] /\ PlaceOK'
    BY <2>1, <2>4, JobStep DEF Writing
  <2>6. stage' \in [Findings -> Stages]
    BY <1>0, <2>1 DEF Jobs
  <2> QED
    BY <2>1, <2>5, <2>6 DEF TypeInv, TypeOK
<1>15. ASSUME NEW r \in Requests, LoadFinal(r) PROVE TypeInv'
  <2> DEFINE items == [stage EXCEPT ![job[r].item] = Outcome(job[r])]
             j == IF stage[job[r].item] = "none" THEN Idle
                  ELSE Saving(Idle, "save", items)
  <2>1. Goto(r, j) /\ UNCHANGED <<stage, source, backup, approved, cleared, disturbed>>
    BY <1>15 DEF LoadFinal, Saving
  <2>2. items \in [Findings -> Stages]
    BY DEF TypeInv, TypeOK, Outcome, Stages
  <2> HIDE DEF items
  <2>3. j \in Jobs /\ j.at \in {"idle", "save"}
    BY <2>2, IdleFacts, SavingFacts DEF Places
  <2> HIDE DEF j
  <2>4. job' \in [Requests -> Jobs] /\ PlaceOK'
    BY <2>1, <2>3, JobStep DEF Writing, Testing
  <2> QED
    BY <2>1, <2>4 DEF TypeInv, TypeOK
<1>16. ASSUME NEW r \in Requests, NEW a \in Files, Rollback(r, a)
       PROVE  TypeInv'
  <2> DEFINE j == Restoring(Idle, "restore", a)
  <2>1. /\ Goto(r, j) /\ backup[a] # NoBackup
        /\ source' = [source EXCEPT ![a] = Torn]
        /\ disturbed' = disturbed \cup {a}
        /\ UNCHANGED <<stage, backup, approved, cleared>>
    BY <1>16 DEF Rollback, Begin, Restoring
  <2>2. j \in Jobs /\ j.at = "restore" /\ j.file = a
    BY IdleFacts, RestoringFacts DEF Places
  <2> HIDE DEF j
  <2>3. job' \in [Requests -> Jobs] /\ PlaceOK'
    BY <2>1, <2>2, JobStep DEF Testing
  <2> QED
    BY <2>1, <2>3 DEF TypeInv, TypeOK
<1>17. ASSUME NEW r \in Requests, Restore(r) PROVE TypeInv'
  <2>1. job' \in [Requests -> Jobs] /\ PlaceOK'
    BY <1>17, IdleTyped, JobStep DEF Restore, Idle, Writing, Testing
  <2>2. job[r].file \in Files /\ backup[job[r].file] # NoBackup
    BY <1>17 DEF Restore, TypeInv, PlaceOK
  <2>3. backup[job[r].file] \in {Torn} \cup Texts
    BY <2>2 DEF TypeInv, TypeOK
  <2>4. source' \in [Files -> {Torn} \cup Texts]
    BY <1>17, <2>3 DEF Restore, TypeInv, TypeOK
  <2> QED
    BY <1>17, <2>1, <2>4 DEF Restore, TypeInv, TypeOK
<1>18. ASSUME NEW r \in Requests, BreakOff(r) PROVE TypeInv'
  <2>1. job' \in [Requests -> Jobs] /\ PlaceOK'
    BY <1>18, IdleTyped, JobStep DEF BreakOff, Idle, Writing, Testing
  <2> QED
    BY <1>18, <2>1 DEF BreakOff, TypeInv, TypeOK
<1>19. CASE UNCHANGED vars
  BY <1>19 DEF vars, TypeInv, TypeOK, PlaceOK
<1> QED
  BY <1>1, <1>2, <1>3, <1>4, <1>5, <1>6, <1>7, <1>8, <1>9, <1>10, <1>11,
     <1>12, <1>13, <1>14, <1>15, <1>16, <1>17, <1>18, <1>19 DEF Next

LEMMA TypeInit == Init => TypeInv
<1> SUFFICES ASSUME Init PROVE TypeInv
  OBVIOUS
<1>1. job \in [Requests -> Jobs] /\ \A r \in Requests : job[r] = Idle
  BY IdleTyped DEF Init
<1>2. PlaceOK
  BY <1>1 DEF PlaceOK, Idle, Writing, Testing
<1>3. NoItems \in [Findings -> Stages]
  BY DEF NoItems, Stages
<1> QED
  BY <1>1, <1>2, <1>3 DEF Init, TypeInv, TypeOK, Texts

\* Every variable keeps its type, for any findings, files and requests.
THEOREM HandoffTypeCorrect == Spec => []TypeOK
<1>1. TypeInv => TypeOK
  BY DEF TypeInv
<1> QED
  BY TypeInit, TypeStep, <1>1, PTL DEF Spec

(***************************************************************************)
(* What each operation leaves of its job: the place it goes to, the item,  *)
(* the findings to patch, the file and text being written and whether the  *)
(* test was passed.  A job calls an item verified only where the file did, *)
(* where the job did, or where the job's own test was passed.              *)
(***************************************************************************)
Becomes(r, p, i, S, a, T, c) ==
  /\ job'[r].at = p /\ job'[r].item = i /\ job'[r].todo = S
  /\ job'[r].file = a /\ job'[r].text = T /\ job'[r].clear = c
  /\ \A q \in Requests \ {r} : job'[q] = job[q]

Quits(r) == Becomes(r, "idle", None, {}, None, {}, FALSE)

Goes(r, p) == Becomes(r, p, job[r].item, job[r].todo, job[r].file,
                      job[r].text, job[r].clear)

Trusts(r) ==
  \A f \in Findings : job'[r].items[f] = "verified" =>
    \/ stage[f] = "verified"
    \/ job[r].items[f] = "verified"
    \/ job[r].clear /\ f = job[r].item

LEMMA QuitFacts ==
  ASSUME TypeInv, NEW r \in Requests, Goto(r, Idle)
  PROVE  Quits(r) /\ Trusts(r)
<1>1. /\ job'[r] = Idle
      /\ \A q \in Requests \ {r} : job'[q] = job[q]
  BY GotoFacts DEF TypeInv, TypeOK
<1>2. \A f \in Findings : NoItems[f] # "verified"
  BY DEF NoItems
<1> QED
  BY <1>1, <1>2, IdleFacts DEF Quits, Becomes, Trusts

LEMMA GoFacts ==
  ASSUME TypeInv, NEW r \in Requests, NEW p \in Places, Goto(r, At(job[r], p))
  PROVE  Goes(r, p) /\ Trusts(r)
<1>0. job[r] \in Jobs
  BY DEF TypeInv, TypeOK
<1>1. /\ job'[r] = At(job[r], p)
      /\ \A q \in Requests \ {r} : job'[q] = job[q]
  BY GotoFacts DEF TypeInv, TypeOK
<1> QED
  BY <1>0, <1>1, AtFacts DEF Same, Goes, Becomes, Trusts

LEMMA SendFacts ==
  ASSUME TypeInv, NEW r \in Requests, Send(r)
  PROVE  /\ Becomes(r, "save", None, {}, None, {}, FALSE) /\ Trusts(r)
         /\ UNCHANGED <<stage, source, backup, approved, cleared, disturbed>>
<1>1. PICK F \in Batches : Goto(r, Saving(Idle, "save", Delivered(F)))
  BY DEF Send, Begin, Saving
<1>2. /\ job'[r] = Saving(Idle, "save", Delivered(F))
      /\ \A q \in Requests \ {r} : job'[q] = job[q]
  BY <1>1, GotoFacts DEF TypeInv, TypeOK
<1>3. Delivered(F) \in [Findings -> Stages]
  BY DEF Delivered, TypeInv, TypeOK, Stages
<1>4. \A f \in Findings : Delivered(F)[f] = "verified" => stage[f] = "verified"
  BY DEF Delivered
<1>5. "save" \in Places
  BY DEF Places
<1>6. LET k == Saving(Idle, "save", Delivered(F))
      IN /\ k.at = "save" /\ k.item = None /\ k.todo = {} /\ k.file = None
         /\ k.text = {} /\ k.clear = FALSE /\ k.items = Delivered(F)
  BY <1>3, <1>5, IdleFacts, SavingFacts
<1> QED
  BY <1>2, <1>4, <1>6 DEF Send, Becomes, Trusts

LEMMA SaveFacts ==
  ASSUME TypeInv, NEW r \in Requests, Save(r)
  PROVE  /\ Quits(r) /\ Trusts(r) /\ stage' = job[r].items
         /\ UNCHANGED <<source, backup, approved, cleared, disturbed>>
BY QuitFacts DEF Save

LEMMA ApproveFacts ==
  ASSUME TypeInv, NEW r \in Requests, NEW f \in Findings, NEW yes \in BOOLEAN,
         Approve(r, f, yes)
  PROVE  /\ \/ Quits(r)
            \/ yes /\ Becomes(r, "patch", f, {f}, None, {}, FALSE)
         /\ Trusts(r)
         /\ approved' = IF yes THEN approved \cup {f} ELSE approved
         /\ Meet(r, job'[r])
         /\ UNCHANGED <<stage, source, backup, cleared>>
<1> DEFINE one == {f}
           k == Approving(Idle, "patch", f, one)
<1>1. /\ Goto(r, IF yes THEN k ELSE Idle) /\ Meet(r, IF yes THEN k ELSE Idle)
      /\ approved' = IF yes THEN approved \cup {f} ELSE approved
      /\ UNCHANGED <<stage, source, backup, cleared>>
  BY DEF Approve, Begin, Approving
<1>2. "patch" \in Places /\ one \in Texts
  BY DEF Places, Texts
<1> HIDE DEF one
<1>3. /\ k.at = "patch" /\ k.item = f /\ k.todo = one /\ k.file = None
      /\ k.text = {} /\ k.clear = FALSE /\ k.items = NoItems
  BY <1>2, IdleFacts, ApprovingFacts
<1> HIDE DEF k
<1>4. job'[r] = IF yes THEN k ELSE Idle
  BY <1>1, GotoFacts DEF TypeInv, TypeOK
<1>5. \A q \in Requests \ {r} : job'[q] = job[q]
  BY <1>1, GotoFacts DEF TypeInv, TypeOK
<1>6. CASE yes
  <2>1. \A g \in Findings : NoItems[g] # "verified"
    BY DEF NoItems
  <2>2. job'[r] = k
    BY <1>4, <1>6
  <2> QED
    BY <1>1, <1>3, <1>5, <1>6, <2>1, <2>2 DEF Becomes, Trusts, one
<1>7. CASE ~ yes
  BY <1>1, <1>4, <1>7, QuitFacts
<1> QED
  BY <1>6, <1>7

LEMMA SecureFacts ==
  ASSUME TypeInv, NEW r \in Requests, NEW yes \in BOOLEAN, Secure(r, yes)
  PROVE  LET found == {f \in Findings : Fires(f)}
         IN /\ \/ Quits(r)
               \/ yes /\ Becomes(r, "select", None, found, None, {}, FALSE)
            /\ Trusts(r)
            /\ approved' = IF yes THEN approved \cup found ELSE approved
            /\ Meet(r, job'[r])
            /\ UNCHANGED <<stage, source, backup, cleared>>
<1> DEFINE found == {f \in Findings : Fires(f)}
           k == Choosing(Idle, "select", found)
<1>1. /\ Goto(r, IF yes THEN k ELSE Idle) /\ Meet(r, IF yes THEN k ELSE Idle)
      /\ approved' = IF yes THEN approved \cup found ELSE approved
      /\ UNCHANGED <<stage, source, backup, cleared>>
  BY DEF Secure, Begin, Choosing
<1>2. "select" \in Places /\ found \in Texts
  BY DEF Places, Texts
<1> HIDE DEF found
<1>3. /\ k.at = "select" /\ k.item = None /\ k.todo = found /\ k.file = None
      /\ k.text = {} /\ k.clear = FALSE /\ k.items = NoItems
  BY <1>2, IdleFacts, ChoosingFacts
<1> HIDE DEF k
<1>4. job'[r] = IF yes THEN k ELSE Idle
  BY <1>1, GotoFacts DEF TypeInv, TypeOK
<1>5. \A q \in Requests \ {r} : job'[q] = job[q]
  BY <1>1, GotoFacts DEF TypeInv, TypeOK
<1>6. CASE yes
  <2>1. \A g \in Findings : NoItems[g] # "verified"
    BY DEF NoItems
  <2>2. job'[r] = k
    BY <1>4, <1>6
  <2> QED
    BY <1>1, <1>3, <1>5, <1>6, <2>1, <2>2 DEF Becomes, Trusts, found
<1>7. CASE ~ yes
  BY <1>1, <1>4, <1>7, QuitFacts DEF found
<1> QED
  BY <1>6, <1>7

LEMMA SelectFacts ==
  ASSUME TypeInv, NEW r \in Requests, Select(r)
  PROVE  /\ \/ Quits(r)
            \/ \E S \in SUBSET job[r].todo :
                 Becomes(r, "patch", job[r].item, S, job[r].file, job[r].text,
                         job[r].clear)
         /\ Trusts(r)
         /\ UNCHANGED <<stage, source, backup, approved, cleared, disturbed>>
<1> DEFINE S == {f \in job[r].todo : CanPatch({f}, source[FileOf[f]])}
           k == Choosing(job[r], "patch", S)
<1>1. /\ Goto(r, IF S = {} THEN Idle ELSE k)
      /\ UNCHANGED <<stage, source, backup, approved, cleared, disturbed>>
  BY DEF Select, Choosing
<1>2. job[r] \in Jobs /\ "patch" \in Places
  BY DEF TypeInv, TypeOK, Places
<1>3. S \in Texts /\ S \subseteq job[r].todo
  BY <1>2 DEF Jobs, Texts
<1> HIDE DEF S
<1>4. /\ k.at = "patch" /\ k.item = job[r].item /\ k.todo = S
      /\ k.file = job[r].file /\ k.text = job[r].text
      /\ k.clear = job[r].clear /\ k.items = job[r].items
  BY <1>2, <1>3, ChoosingFacts
<1> HIDE DEF k
<1>5. CASE S = {}
  BY <1>1, <1>5, QuitFacts
<1>6. CASE S # {}
  <2>1. job'[r] = k /\ \A q \in Requests \ {r} : job'[q] = job[q]
    BY <1>1, <1>6, GotoFacts DEF TypeInv, TypeOK
  <2>2. /\ Trusts(r)
        /\ Becomes(r, "patch", job[r].item, S, job[r].file, job[r].text,
                   job[r].clear)
    BY <1>4, <2>1 DEF Becomes, Trusts
  <2> QED
    BY <1>1, <1>3, <2>2
<1> QED
  BY <1>5, <1>6

\* A job that has done with some files: it quits, patches the others, or is
\* tested.
Moves(r, S) ==
  \/ Quits(r)
  \/ \E p \in {"patch", "get"} :
       Becomes(r, p, job[r].item, job[r].todo \ S, None, {}, job[r].clear)

LEMMA MoveFacts ==
  ASSUME TypeInv, NEW r \in Requests, NEW S, NEW j \in Jobs,
         j.item = job[r].item, j.todo = job[r].todo, j.clear = job[r].clear,
         j.items = job[r].items, Goto(r, NextFile(j, S))
  PROVE  Moves(r, S) /\ Trusts(r)
<1> DEFINE k == NextFile(j, S)
<1>1. job'[r] = k /\ \A q \in Requests \ {r} : job'[q] = job[q]
  BY GotoFacts DEF TypeInv, TypeOK
<1>2. \/ k = Idle
      \/ /\ k.at \in {"patch", "get"} /\ k.item = j.item
         /\ k.todo = j.todo \ S /\ k.file = None
         /\ k.text = {} /\ k.clear = j.clear /\ k.items = j.items
  BY NextFileFacts
<1> HIDE DEF k
<1>3. CASE k = Idle
  <2>1. \A g \in Findings : NoItems[g] # "verified"
    BY DEF NoItems
  <2> QED
    BY <1>1, <1>3, <2>1, IdleFacts DEF Moves, Quits, Becomes, Trusts
<1>4. CASE k # Idle
  <2>1. Trusts(r)
    BY <1>1, <1>2, <1>4 DEF Trusts
  <2>2. Becomes(r, k.at, job[r].item, job[r].todo \ S, None, {}, job[r].clear)
    BY <1>1, <1>2, <1>4 DEF Becomes
  <2> QED
    BY <1>2, <1>4, <2>1, <2>2 DEF Moves
<1> QED
  BY <1>3, <1>4

LEMMA ReadSourceFacts ==
  ASSUME TypeInv, NEW r \in Requests, NEW a \in Files, ReadSource(r, a)
  PROVE  /\ \/ /\ source[a] # Torn
               /\ Becomes(r, "backup", job[r].item, job[r].todo, a,
                          Patched(In(a, job[r].todo), source[a]), job[r].clear)
            \/ Moves(r, In(a, job[r].todo))
         /\ Trusts(r)
         /\ In(a, job[r].todo) # {} /\ job[r].at = "patch"
         /\ UNCHANGED <<stage, source, backup, approved, cleared, disturbed>>
<1> USE HandoffAssumption
<1> DEFINE batch == In(a, job[r].todo)
           new == Patched(batch, source[a])
           k == Rewriting(job[r], "backup", a, new)
<1>1. /\ batch # {} /\ job[r].at = "patch"
      /\ UNCHANGED <<stage, source, backup, approved, cleared, disturbed>>
  BY DEF ReadSource
<1>2. job[r] \in Jobs /\ "backup" \in Places
  BY DEF TypeInv, TypeOK, Places
<1>3. batch \in Texts
  BY <1>2 DEF In, Jobs, Texts
<1>4. CASE CanPatch(batch, source[a])
  <2>1. Goto(r, k)
    BY <1>4 DEF ReadSource, Rewriting
  <2>2. source[a] # Torn
    BY <1>1, <1>4 DEF CanPatch
  <2>3. new \in Texts
    BY <1>3, <2>2 DEF TypeInv, TypeOK, Texts, Patched
  <2> HIDE DEF new
  <2>4. /\ k.at = "backup" /\ k.item = job[r].item /\ k.todo = job[r].todo
        /\ k.file = a /\ k.text = new
        /\ k.clear = job[r].clear /\ k.items = job[r].items
    BY <1>2, <2>3, RewritingFacts
  <2>5. job'[r] = k /\ \A q \in Requests \ {r} : job'[q] = job[q]
    BY <2>1, GotoFacts DEF TypeInv, TypeOK
  <2> HIDE DEF k, batch
  <2>6. Trusts(r) /\ Becomes(r, "backup", job[r].item, job[r].todo, a,
                             new, job[r].clear)
    BY <2>4, <2>5 DEF Becomes, Trusts
  <2> QED
    BY <1>1, <2>2, <2>6 DEF batch, new
<1>5. CASE ~ CanPatch(batch, source[a])
  <2>1. Goto(r, NextFile(job[r], batch))
    BY <1>5 DEF ReadSource
  <2> QED
    BY <1>1, <1>2, <2>1, MoveFacts
<1> QED
  BY <1>4, <1>5

LEMMA BackupOpenFacts ==
  ASSUME TypeInv, NEW r \in Requests, BackupOpen(r)
  PROVE  /\ job[r].at = "backup" /\ Goes(r, "copy") /\ Trusts(r)
         /\ backup' = [backup EXCEPT ![job[r].file] = Torn]
         /\ UNCHANGED <<stage, source, approved, cleared, disturbed>>
<1>1. Goto(r, At(job[r], "copy")) /\ "copy" \in Places
  BY DEF BackupOpen, At, Places
<1> QED
  BY <1>1, GoFacts DEF BackupOpen

LEMMA BackupCopyFacts ==
  ASSUME TypeInv, NEW r \in Requests, BackupCopy(r)
  PROVE  /\ job[r].at = "copy" /\ Goes(r, "open") /\ Trusts(r)
         /\ backup' = [backup EXCEPT ![job[r].file] = source[job[r].file]]
         /\ UNCHANGED <<stage, source, approved, cleared, disturbed>>
<1>1. Goto(r, At(job[r], "open")) /\ "open" \in Places
  BY DEF BackupCopy, At, Places
<1> QED
  BY <1>1, GoFacts DEF BackupCopy

LEMMA SourceOpenFacts ==
  ASSUME TypeInv, NEW r \in Requests, SourceOpen(r)
  PROVE  /\ job[r].at = "open" /\ Goes(r, "write") /\ Trusts(r)
         /\ source' = [source EXCEPT ![job[r].file] = Torn]
         /\ UNCHANGED <<stage, backup, approved, cleared, disturbed>>
<1>1. Goto(r, At(job[r], "write")) /\ "write" \in Places
  BY DEF SourceOpen, At, Places
<1> QED
  BY <1>1, GoFacts DEF SourceOpen

LEMMA SourceWriteFacts ==
  ASSUME TypeInv, NEW r \in Requests, SourceWrite(r)
  PROVE  /\ job[r].at = "write" /\ Trusts(r)
         /\ Moves(r, In(job[r].file, job[r].todo))
         /\ source' = [source EXCEPT ![job[r].file] = job[r].text]
         /\ UNCHANGED <<stage, backup, approved, cleared, disturbed>>
<1> DEFINE i == WithApplied(job[r], TRUE)
<1>1. Goto(r, NextFile(i, In(job[r].file, job[r].todo)))
  BY DEF SourceWrite, WithApplied
<1>2. job[r] \in Jobs
  BY DEF TypeInv, TypeOK
<1>3. i \in Jobs /\ Same(job[r], i, {"applied"})
  BY <1>2, WithAppliedFacts
<1> HIDE DEF i
<1>4. /\ i.item = job[r].item /\ i.todo = job[r].todo
      /\ i.clear = job[r].clear /\ i.items = job[r].items
  BY <1>3 DEF Same
<1> QED
  BY <1>1, <1>3, <1>4, MoveFacts DEF SourceWrite

LEMMA TestGetFacts ==
  ASSUME TypeInv, NEW r \in Requests, TestGet(r)
  PROVE  /\ Goes(r, "scan") \/ Goes(r, "loadFinal")
         /\ Trusts(r)
         /\ UNCHANGED <<stage, source, backup, approved, cleared, disturbed>>
<1>1. CASE stage[job[r].item] = "none"
  <2>1. Goto(r, At(job[r], "loadFinal")) /\ "loadFinal" \in Places
    BY <1>1 DEF TestGet, At, Places
  <2> QED
    BY <2>1, GoFacts DEF TestGet
<1>2. CASE stage[job[r].item] # "none"
  <2>1. Goto(r, At(job[r], "scan")) /\ "scan" \in Places
    BY <1>2 DEF TestGet, At, Places
  <2> QED
    BY <2>1, GoFacts DEF TestGet
<1> QED
  BY <1>1, <1>2

LEMMA ScanFacts ==
  ASSUME TypeInv, NEW r \in Requests, Scan(r)
  PROVE  /\ job[r].at = "scan" /\ job[r].item \in Findings /\ Trusts(r)
         /\ Becomes(r, "loadTest", job[r].item, job[r].todo, job[r].file,
                    job[r].text, ~ StillPresent(job[r].item))
         /\ cleared' = IF ~ StillPresent(job[r].item)
                       THEN cleared \cup {job[r].item} ELSE cleared
         /\ UNCHANGED <<stage, source, backup, approved, disturbed>>
<1> DEFINE gone == ~ StillPresent(job[r].item)
           k == Clearing(job[r], "loadTest", gone)
<1>1. Goto(r, k)
  BY DEF Scan, Clearing
<1>2. job[r] \in Jobs /\ "loadTest" \in Places
  BY DEF TypeInv, TypeOK, Places
<1>3. gone \in BOOLEAN
  BY DEF StillPresent
<1>4. job[r].at = "scan" /\ job[r].item \in Findings
  BY DEF Scan, TypeInv, PlaceOK, Testing
<1>5. /\ k.at = "loadTest" /\ k.item = job[r].item /\ k.todo = job[r].todo
      /\ k.file = job[r].file /\ k.text = job[r].text
      /\ k.clear = gone /\ k.items = job[r].items
  <2> HIDE DEF gone
  <2> QED
    BY <1>2, <1>3, ClearingFacts
<1>6. job'[r] = k /\ \A q \in Requests \ {r} : job'[q] = job[q]
  BY <1>1, GotoFacts DEF TypeInv, TypeOK
<1>7. /\ Trusts(r)
      /\ Becomes(r, "loadTest", job[r].item, job[r].todo, job[r].file,
                 job[r].text, gone)
  <2> HIDE DEF gone, k
  <2> QED
    BY <1>5, <1>6 DEF Becomes, Trusts
<1> QED
  BY <1>4, <1>7 DEF Scan

LEMMA LoadTestFacts ==
  ASSUME TypeInv, NEW r \in Requests, LoadTest(r)
  PROVE  /\ Goes(r, "saveTest") \/ Goes(r, "loadFinal")
         /\ Trusts(r)
         /\ UNCHANGED <<stage, source, backup, approved, cleared, disturbed>>
<1> DEFINE verdict == IF job[r].clear THEN "verified" ELSE "not_verified"
           items == [stage EXCEPT ![job[r].item] = verdict]
           k == Saving(job[r], "saveTest", items)
<1>1. CASE stage[job[r].item] = "none"
  <2>1. Goto(r, At(job[r], "loadFinal")) /\ "loadFinal" \in Places
    BY <1>1 DEF LoadTest, At, Places
  <2> QED
    BY <2>1, GoFacts DEF LoadTest
<1>2. CASE stage[job[r].item] # "none"
  <2>1. Goto(r, k)
    BY <1>2 DEF LoadTest, Saving
  <2>2. job[r] \in Jobs /\ "saveTest" \in Places
    BY DEF TypeInv, TypeOK, Places
  <2>3. items \in [Findings -> Stages]
    BY DEF TypeInv, TypeOK, Stages
  <2>4. \A f \in Findings : items[f] = "verified" =>
          stage[f] = "verified" \/ (job[r].clear /\ f = job[r].item)
    BY DEF TypeInv, TypeOK
  <2> HIDE DEF items
  <2>5. /\ k.at = "saveTest" /\ k.item = job[r].item /\ k.todo = job[r].todo
        /\ k.file = job[r].file /\ k.text = job[r].text
        /\ k.clear = job[r].clear /\ k.items = items
    BY <2>2, <2>3, SavingFacts
  <2> HIDE DEF k
  <2>6. job'[r] = k /\ \A q \in Requests \ {r} : job'[q] = job[q]
    BY <2>1, GotoFacts DEF TypeInv, TypeOK
  <2>7. Trusts(r) /\ Goes(r, "saveTest")
    BY <2>4, <2>5, <2>6 DEF Goes, Becomes, Trusts
  <2> QED
    BY <2>7 DEF LoadTest
<1> QED
  BY <1>1, <1>2

LEMMA SaveTestFacts ==
  ASSUME TypeInv, NEW r \in Requests, SaveTest(r)
  PROVE  /\ Goes(r, "loadFinal") /\ Trusts(r) /\ stage' = job[r].items
         /\ UNCHANGED <<source, backup, approved, cleared, disturbed>>
<1> DEFINE k == Saving(job[r], "loadFinal", NoItems)
<1>1. Goto(r, k)
  BY DEF SaveTest, Saving
<1>2. job[r] \in Jobs /\ "loadFinal" \in Places
  BY DEF TypeInv, TypeOK, Places
<1>3. /\ NoItems \in [Findings -> Stages]
      /\ \A f \in Findings : NoItems[f] # "verified"
  BY DEF NoItems, Stages
<1>4. /\ k.at = "loadFinal" /\ k.item = job[r].item /\ k.todo = job[r].todo
      /\ k.file = job[r].file /\ k.text = job[r].text
      /\ k.clear = job[r].clear /\ k.items = NoItems
  BY <1>2, <1>3, SavingFacts
<1> HIDE DEF k
<1>5. job'[r] = k /\ \A q \in Requests \ {r} : job'[q] = job[q]
  BY <1>1, GotoFacts DEF TypeInv, TypeOK
<1>6. Trusts(r) /\ Goes(r, "loadFinal")
  BY <1>3, <1>4, <1>5 DEF Goes, Becomes, Trusts
<1> QED
  BY <1>6 DEF SaveTest

LEMMA LoadFinalFacts ==
  ASSUME TypeInv, NEW r \in Requests, LoadFinal(r)
  PROVE  /\ Quits(r) \/ Becomes(r, "save", None, {}, None, {}, FALSE)
         /\ Trusts(r)
         /\ UNCHANGED <<stage, source, backup, approved, cleared, disturbed>>
<1> DEFINE items == [stage EXCEPT ![job[r].item] = Outcome(job[r])]
           k == Saving(Idle, "save", items)
<1>1. CASE stage[job[r].item] = "none"
  BY <1>1, QuitFacts DEF LoadFinal
<1>2. CASE stage[job[r].item] # "none"
  <2>1. Goto(r, k)
    BY <1>2 DEF LoadFinal, Saving
  <2>2. items \in [Findings -> Stages] /\ "save" \in Places
    BY DEF TypeInv, TypeOK, Outcome, Stages, Places
  <2>3. \A f \in Findings : items[f] = "verified" =>
          stage[f] = "verified" \/ (job[r].clear /\ f = job[r].item)
    BY DEF TypeInv, TypeOK, Outcome
  <2> HIDE DEF items
  <2>4. /\ k.at = "save" /\ k.item = None /\ k.todo = {} /\ k.file = None
        /\ k.text = {} /\ k.clear = FALSE /\ k.items = items
    BY <2>2, IdleFacts, SavingFacts
  <2> HIDE DEF k
  <2>5. job'[r] = k /\ \A q \in Requests \ {r} : job'[q] = job[q]
    BY <2>1, GotoFacts DEF TypeInv, TypeOK
  <2>6. Trusts(r) /\ Becomes(r, "save", None, {}, None, {}, FALSE)
    BY <2>3, <2>4, <2>5 DEF Becomes, Trusts
  <2> QED
    BY <2>6 DEF LoadFinal
<1> QED
  BY <1>1, <1>2

LEMMA RollbackFacts ==
  ASSUME TypeInv, NEW r \in Requests, NEW a \in Files, Rollback(r, a)
  PROVE  /\ Becomes(r, "restore", None, {}, a, {}, FALSE) /\ Trusts(r)
         /\ source' = [source EXCEPT ![a] = Torn]
         /\ disturbed' = disturbed \cup {a}
         /\ UNCHANGED <<stage, backup, approved, cleared>>
<1> DEFINE k == Restoring(Idle, "restore", a)
<1>1. Goto(r, k)
  BY DEF Rollback, Begin, Restoring
<1>2. "restore" \in Places
  BY DEF Places
<1>3. /\ k.at = "restore" /\ k.item = None /\ k.todo = {} /\ k.file = a
      /\ k.text = {} /\ k.clear = FALSE /\ k.items = NoItems
  BY <1>2, IdleFacts, RestoringFacts
<1>4. \A f \in Findings : NoItems[f] # "verified"
  BY DEF NoItems
<1> HIDE DEF k
<1>5. job'[r] = k /\ \A q \in Requests \ {r} : job'[q] = job[q]
  BY <1>1, GotoFacts DEF TypeInv, TypeOK
<1>6. Trusts(r) /\ Becomes(r, "restore", None, {}, a, {}, FALSE)
  BY <1>3, <1>4, <1>5 DEF Becomes, Trusts
<1> QED
  BY <1>6 DEF Rollback

LEMMA RestoreFacts ==
  ASSUME TypeInv, NEW r \in Requests, Restore(r)
  PROVE  /\ job[r].at = "restore" /\ Quits(r) /\ Trusts(r)
         /\ source' = [source EXCEPT ![job[r].file] = backup[job[r].file]]
         /\ UNCHANGED <<stage, backup, approved, cleared, disturbed>>
BY QuitFacts DEF Restore

LEMMA BreakOffFacts ==
  ASSUME TypeInv, NEW r \in Requests, BreakOff(r)
  PROVE  /\ Quits(r) /\ Trusts(r)
         /\ UNCHANGED <<stage, source, backup, approved, cleared, disturbed>>
BY QuitFacts DEF BreakOff

(***************************************************************************)
(* The file, a version of it that is about to replace it, or a test that   *)
(* was passed and not yet written down call f verified.  Only a scan that  *)
(* no longer finds f starts this.                                          *)
(***************************************************************************)
Believed(f) ==
  \/ stage[f] = "verified"
  \/ \E r \in Requests : job[r].items[f] = "verified"
  \/ \E r \in Requests : job[r].clear /\ job[r].item = f

\* The step of r passes on what was believed and adds nothing.
PassesOn(r) ==
  /\ \A q \in Requests \ {r} : job'[q] = job[q]
  /\ Trusts(r)
  /\ stage' = stage \/ stage' = job[r].items
  /\ job'[r].clear => job[r].clear /\ job'[r].item = job[r].item

LEMMA PassedOn ==
  ASSUME NEW r \in Requests, PassesOn(r), NEW f \in Findings, Believed(f)'
  PROVE  Believed(f)
<1>1. CASE stage'[f] = "verified"
  BY <1>1 DEF PassesOn, Believed
<1>2. ASSUME NEW q \in Requests, job'[q].items[f] = "verified"
      PROVE  Believed(f)
  BY <1>2 DEF PassesOn, Trusts, Believed
<1>3. ASSUME NEW q \in Requests, job'[q].clear, job'[q].item = f
      PROVE  Believed(f)
  BY <1>3 DEF PassesOn, Believed
<1> QED
  BY <1>1, <1>2, <1>3 DEF Believed

LEMMA BelievedStep ==
  ASSUME TypeInv, [Next]_vars, NEW f \in Findings, Believed(f)'
  PROVE  \/ Believed(f)
         \/ \E r \in Requests :
              Scan(r) /\ job[r].item = f /\ ~ StillPresent(f)
<1> USE PassedOn
<1>1. ASSUME NEW r \in Requests, Send(r) PROVE Believed(f)
  BY <1>1, SendFacts DEF Becomes, PassesOn
<1>2. ASSUME NEW r \in Requests, Save(r) PROVE Believed(f)
  BY <1>2, SaveFacts DEF Quits, Becomes, PassesOn
<1>3. ASSUME NEW r \in Requests, NEW g \in Findings, NEW yes \in BOOLEAN,
             Approve(r, g, yes)
      PROVE  Believed(f)
  BY <1>3, ApproveFacts DEF Quits, Becomes, PassesOn
<1>4. ASSUME NEW r \in Requests, NEW yes \in BOOLEAN, Secure(r, yes)
      PROVE  Believed(f)
  BY <1>4, SecureFacts DEF Quits, Becomes, PassesOn
<1>5. ASSUME NEW r \in Requests, Select(r) PROVE Believed(f)
  BY <1>5, SelectFacts DEF Quits, Becomes, PassesOn
<1>6. ASSUME NEW r \in Requests, NEW a \in Files, ReadSource(r, a)
      PROVE  Believed(f)
  BY <1>6, ReadSourceFacts DEF Moves, Quits, Becomes, PassesOn
<1>7. ASSUME NEW r \in Requests, BackupOpen(r) PROVE Believed(f)
  BY <1>7, BackupOpenFacts DEF Goes, Becomes, PassesOn
<1>8. ASSUME NEW r \in Requests, BackupCopy(r) PROVE Believed(f)
  BY <1>8, BackupCopyFacts DEF Goes, Becomes, PassesOn
<1>9. ASSUME NEW r \in Requests, SourceOpen(r) PROVE Believed(f)
  BY <1>9, SourceOpenFacts DEF Goes, Becomes, PassesOn
<1>10. ASSUME NEW r \in Requests, SourceWrite(r) PROVE Believed(f)
  BY <1>10, SourceWriteFacts DEF Moves, Quits, Becomes, PassesOn
<1>11. ASSUME NEW r \in Requests, TestGet(r) PROVE Believed(f)
  BY <1>11, TestGetFacts DEF Goes, Becomes, PassesOn
<1>12. ASSUME NEW r \in Requests, Scan(r)
       PROVE  Believed(f) \/ (job[r].item = f /\ ~ StillPresent(f))
  <2>1. /\ \A q \in Requests \ {r} : job'[q] = job[q]
        /\ Trusts(r) /\ stage' = stage /\ job'[r].item = job[r].item
        /\ job'[r].clear = ~ StillPresent(job[r].item)
    BY <1>12, ScanFacts DEF Becomes
  <2>2. CASE job'[r].clear /\ job[r].item = f
    BY <2>1, <2>2
  <2>3. CASE ~ (job'[r].clear /\ job[r].item = f)
    BY <2>1, <2>3 DEF Believed, Trusts
  <2> QED
    BY <2>2, <2>3
<1>13. ASSUME NEW r \in Requests, LoadTest(r) PROVE Believed(f)
  BY <1>13, LoadTestFacts DEF Goes, Becomes, PassesOn
<1>14. ASSUME NEW r \in Requests, SaveTest(r) PROVE Believed(f)
  BY <1>14, SaveTestFacts DEF Goes, Becomes, PassesOn
<1>15. ASSUME NEW r \in Requests, LoadFinal(r) PROVE Believed(f)
  BY <1>15, LoadFinalFacts DEF Quits, Becomes, PassesOn
<1>16. ASSUME NEW r \in Requests, NEW a \in Files, Rollback(r, a)
       PROVE  Believed(f)
  BY <1>16, RollbackFacts DEF Becomes, PassesOn
<1>17. ASSUME NEW r \in Requests, Restore(r) PROVE Believed(f)
  BY <1>17, RestoreFacts DEF Quits, Becomes, PassesOn
<1>18. ASSUME NEW r \in Requests, BreakOff(r) PROVE Believed(f)
  BY <1>18, BreakOffFacts DEF Quits, Becomes, PassesOn
<1>19. CASE UNCHANGED vars
  BY <1>19 DEF vars, Believed
<1> QED
  BY <1>1, <1>2, <1>3, <1>4, <1>5, <1>6, <1>7, <1>8, <1>9, <1>10, <1>11,
     <1>12, <1>13, <1>14, <1>15, <1>16, <1>17, <1>18, <1>19 DEF Next

\* Only a scan changes what was cleared, and it adds.
LEMMA ClearedGrows ==
  ASSUME TypeInv, [Next]_vars
  PROVE  cleared \subseteq cleared'
BY DEF Next, vars, Send, Save, Approve, Secure, Select, ReadSource, BackupOpen,
       BackupCopy, SourceOpen, SourceWrite, TestGet, Scan, LoadTest, SaveTest,
       LoadFinal, Rollback, Restore, BreakOff

TestedInv == TypeInv /\ \A f \in Findings : Believed(f) => f \in cleared

LEMMA InitBelief ==
  ASSUME Init, NEW f \in Findings
  PROVE  ~ Believed(f)
<1>1. \A r \in Requests : job[r] = Idle
  BY DEF Init
<1>2. stage[f] = "none" /\ NoItems[f] = "none"
  BY DEF Init, NoItems
<1> QED
  BY <1>1, <1>2, IdleFacts DEF Believed

\* Whatever requests run at once and wherever they end, an item that the
\* handoff file calls verified has passed a scan of its own.
THEOREM VerifiedTested == Spec => []VerifiedWasTested
<1>1. Init => TestedInv
  BY TypeInit, InitBelief DEF TestedInv
<1>2. TestedInv /\ [Next]_vars => TestedInv'
  <2> SUFFICES ASSUME TestedInv, [Next]_vars PROVE TestedInv'
    OBVIOUS
  <2>1. TypeInv'
    BY TypeStep DEF TestedInv
  <2>2. ASSUME NEW f \in Findings, Believed(f)' PROVE f \in cleared'
    <3>1. CASE Believed(f)
      BY <3>1, ClearedGrows DEF TestedInv
    <3>2. ASSUME NEW r \in Requests, Scan(r), job[r].item = f, ~ StillPresent(f)
          PROVE  f \in cleared'
      BY <3>2, ScanFacts DEF TestedInv
    <3> QED
      BY <2>2, <3>1, <3>2, BelievedStep DEF TestedInv
  <2> QED
    BY <2>1, <2>2 DEF TestedInv
<1>3. TestedInv => VerifiedWasTested
  BY DEF TestedInv, VerifiedWasTested, Believed
<1> QED
  BY <1>1, <1>2, <1>3, PTL DEF Spec

(***************************************************************************)
(* What a request still has to patch was approved with it.                 *)
(***************************************************************************)
ApprovedInv ==
  /\ TypeInv
  /\ ChangesAreApproved
  /\ \A r \in Requests : job[r].todo \subseteq approved

\* The step of r leaves only approved changes in its job.
KeepsToApproved(r) ==
  /\ \A q \in Requests \ {r} : job'[q] = job[q]
  /\ approved \subseteq approved'
  /\ job'[r].todo \subseteq approved'
  /\ job'[r].text \subseteq Covered'

LEMMA CoveredGrows ==
  ASSUME approved \subseteq approved'
  PROVE  Covered \subseteq Covered'
BY DEF Covered

LEMMA PatchIsCovered ==
  ASSUME NEW text \in Texts, text \subseteq Covered,
         NEW F \in Texts, F \subseteq approved
  PROVE  Patched(F, text) \subseteq Covered
<1> SUFFICES ASSUME NEW g \in Findings \ text,
                    Cardinality({h \in Twins(g) \ text : Line[h] <= Line[g]})
                      <= Cardinality(Twins(g) \cap F)
             PROVE  Twins(g) \cap F # {}
  BY DEF Patched, Covered
<1> DEFINE S == {h \in Twins(g) \ text : Line[h] <= Line[g]}
           T == Twins(g) \cap F
<1>1. IsFiniteSet(Findings) /\ Line[g] \in Nat
  BY HandoffAssumption
<1>2. g \in S
  BY <1>1 DEF Twins
<1>3. S \subseteq Findings /\ T \subseteq Findings
  BY DEF Twins
<1>4. Cardinality(S) <= Cardinality(T)
  OBVIOUS
<1> HIDE DEF S, T
<1>5. IsFiniteSet(S) /\ IsFiniteSet(T)
  BY <1>1, <1>3, FS_Subset
<1>6. Cardinality(S) \in Nat /\ Cardinality(S) # 0
  BY <1>2, <1>5, FS_CardinalityType, FS_EmptySet
<1>7. T # {}
  BY <1>4, <1>6, FS_EmptySet
<1> QED
  BY <1>7 DEF T

LEMMA ApprovedJobs ==
  ASSUME ApprovedInv, NEW r \in Requests, KeepsToApproved(r), NEW q \in Requests
  PROVE  job'[q].todo \subseteq approved' /\ job'[q].text \subseteq Covered'
<1>1. job[q].todo \subseteq approved /\ job[q].text \subseteq Covered
  BY DEF ApprovedInv, ChangesAreApproved
<1> QED
  BY <1>1, CoveredGrows DEF KeepsToApproved

LEMMA ApprovedSources ==
  ASSUME ApprovedInv, NEW r \in Requests, KeepsToApproved(r), source' = source,
         NEW a \in Files, source'[a] # Torn
  PROVE  source'[a] \subseteq Covered'
BY CoveredGrows DEF KeepsToApproved, ApprovedInv, ChangesAreApproved

LEMMA ApprovedBackups ==
  ASSUME ApprovedInv, NEW r \in Requests, KeepsToApproved(r), backup' = backup,
         NEW a \in Files, backup'[a] \notin {Torn, NoBackup}
  PROVE  backup'[a] \subseteq Covered'
BY CoveredGrows DEF KeepsToApproved, ApprovedInv, ChangesAreApproved

LEMMA ApprovedStep == ApprovedInv /\ [Next]_vars => ApprovedInv'
<1> SUFFICES ASSUME ApprovedInv, [Next]_vars PROVE ApprovedInv'
  OBVIOUS
<1>0. TypeInv /\ TypeInv'
  BY TypeStep DEF ApprovedInv
<1>a. \A r \in Requests : /\ job[r].todo \subseteq approved
                          /\ job[r].text \subseteq Covered
  BY DEF ApprovedInv, ChangesAreApproved
<1>b. \A a \in Files :
        /\ source[a] # Torn => source[a] \subseteq Covered
        /\ backup[a] \notin {Torn, NoBackup} => backup[a] \subseteq Covered
  BY DEF ApprovedInv, ChangesAreApproved
<1>c. ASSUME NEW r \in Requests, KeepsToApproved(r), UNCHANGED <<source, backup>>
      PROVE  ApprovedInv'
  BY <1>0, <1>c, ApprovedJobs, ApprovedSources, ApprovedBackups
  DEF ApprovedInv, ChangesAreApproved
<1>1. ASSUME NEW r \in Requests, Send(r) PROVE ApprovedInv'
  BY CoveredGrows, <1>0, <1>1, <1>c, SendFacts DEF Becomes, KeepsToApproved
<1>2. ASSUME NEW r \in Requests, Save(r) PROVE ApprovedInv'
  BY CoveredGrows, <1>0, <1>2, <1>c, SaveFacts DEF Quits, Becomes, KeepsToApproved
<1>3. ASSUME NEW r \in Requests, NEW f \in Findings, NEW yes \in BOOLEAN,
             Approve(r, f, yes)
      PROVE  ApprovedInv'
  <2> DEFINE one == {f}
  <2>0. /\ UNCHANGED <<source, backup>>
        /\ Quits(r) \/ (yes /\ Becomes(r, "patch", f, one, None, {}, FALSE))
        /\ approved' = IF yes THEN approved \cup one ELSE approved
    BY <1>0, <1>3, ApproveFacts
  <2> HIDE DEF one
  <2>1. approved \subseteq approved' /\ (yes => one \subseteq approved')
    BY <2>0
  <2>2. CASE Quits(r)
    BY CoveredGrows, <1>c, <2>0, <2>1, <2>2 DEF Quits, Becomes, KeepsToApproved
  <2>3. CASE yes /\ Becomes(r, "patch", f, one, None, {}, FALSE)
    <3>1. one \subseteq approved'
      BY <2>1, <2>3
    <3>2. Becomes(r, "patch", f, one, None, {}, FALSE)
      BY <2>3
    <3>3. KeepsToApproved(r)
      BY CoveredGrows, <2>1, <3>1, <3>2 DEF Becomes, KeepsToApproved
    <3> QED
      BY <1>c, <2>0, <3>3
  <2> QED
    BY <2>0, <2>2, <2>3
<1>4. ASSUME NEW r \in Requests, NEW yes \in BOOLEAN, Secure(r, yes)
      PROVE  ApprovedInv'
  <2> DEFINE found == {f \in Findings : Fires(f)}
  <2>0. /\ UNCHANGED <<source, backup>>
        /\ Quits(r) \/ (yes /\ Becomes(r, "select", None, found, None, {}, FALSE))
        /\ approved' = IF yes THEN approved \cup found ELSE approved
    BY <1>0, <1>4, SecureFacts
  <2> HIDE DEF found
  <2>1. approved \subseteq approved' /\ (yes => found \subseteq approved')
    BY <2>0
  <2>2. CASE Quits(r)
    BY CoveredGrows, <1>c, <2>0, <2>1, <2>2 DEF Quits, Becomes, KeepsToApproved
  <2>3. CASE yes /\ Becomes(r, "select", None, found, None, {}, FALSE)
    <3>1. found \subseteq approved'
      BY <2>1, <2>3
    <3>2. Becomes(r, "select", None, found, None, {}, FALSE)
      BY <2>3
    <3>3. KeepsToApproved(r)
      BY CoveredGrows, <2>1, <3>1, <3>2 DEF Becomes, KeepsToApproved
    <3> QED
      BY <1>c, <2>0, <3>3
  <2> QED
    BY <2>0, <2>2, <2>3
<1>5. ASSUME NEW r \in Requests, Select(r) PROVE ApprovedInv'
  <2>1. UNCHANGED <<source, backup, approved>>
    BY <1>0, <1>5, SelectFacts
  <2>2. CASE Quits(r)
    BY CoveredGrows, <1>c, <2>1, <2>2 DEF Quits, Becomes, KeepsToApproved
  <2>3. ASSUME NEW S \in SUBSET job[r].todo,
               Becomes(r, "patch", job[r].item, S, job[r].file, job[r].text,
                       job[r].clear)
        PROVE  ApprovedInv'
    <3>1. KeepsToApproved(r)
      BY CoveredGrows, <1>a, <2>1, <2>3 DEF Becomes, KeepsToApproved
    <3> QED
      BY <1>c, <2>1, <3>1
  <2> QED
    BY <1>0, <1>5, <2>2, <2>3, SelectFacts
<1>6. ASSUME NEW r \in Requests, NEW a \in Files, ReadSource(r, a)
      PROVE  ApprovedInv'
  <2>1. UNCHANGED <<source, backup, approved>>
    BY <1>0, <1>6, ReadSourceFacts
  <2>2. CASE Moves(r, In(a, job[r].todo))
    <3>1. KeepsToApproved(r)
      BY CoveredGrows, <1>a, <2>1, <2>2 DEF Moves, Quits, Becomes, KeepsToApproved
    <3> QED
      BY <1>c, <2>1, <3>1
  <2>3. CASE /\ source[a] # Torn
             /\ Becomes(r, "backup", job[r].item, job[r].todo, a,
                        Patched(In(a, job[r].todo), source[a]), job[r].clear)
    <3>1. source[a] \in Texts /\ In(a, job[r].todo) \in Texts
      BY <1>0, <2>3, HandoffAssumption DEF TypeInv, TypeOK, In, Jobs, Texts
    <3>2. Patched(In(a, job[r].todo), source[a]) \subseteq Covered
      BY <1>a, <1>b, <2>3, <3>1, PatchIsCovered DEF In
    <3>3. KeepsToApproved(r)
      BY <1>a, <2>1, <2>3, <3>2, CoveredGrows DEF Becomes, KeepsToApproved
    <3> QED
      BY <1>c, <2>1, <3>3
  <2> QED
    BY <1>0, <1>6, <2>2, <2>3, ReadSourceFacts
<1>7. ASSUME NEW r \in Requests, BackupOpen(r) PROVE ApprovedInv'
  <2>1. KeepsToApproved(r) /\ source' = source
    BY CoveredGrows, <1>0, <1>7, <1>a, BackupOpenFacts DEF Goes, Becomes, KeepsToApproved
  <2>2. \A a \in Files : backup'[a] \notin {Torn, NoBackup} =>
          backup'[a] \subseteq Covered'
    BY CoveredGrows, <1>0, <1>7, <1>b, <2>1, BackupOpenFacts
    DEF KeepsToApproved, TypeInv, TypeOK
  <2> QED
    BY <1>0, <2>1, <2>2, ApprovedJobs, ApprovedSources DEF ApprovedInv, ChangesAreApproved
<1>8. ASSUME NEW r \in Requests, BackupCopy(r) PROVE ApprovedInv'
  <2>1. KeepsToApproved(r) /\ source' = source
    BY CoveredGrows, <1>0, <1>8, <1>a, BackupCopyFacts DEF Goes, Becomes, KeepsToApproved
  <2>2. job[r].file \in Files
    BY <1>0, <1>8, BackupCopyFacts DEF TypeInv, PlaceOK, Writing
  <2>3. \A a \in Files : backup'[a] \notin {Torn, NoBackup} =>
          backup'[a] \subseteq Covered'
    BY CoveredGrows, <1>0, <1>8, <1>b, <2>1, <2>2, BackupCopyFacts
    DEF KeepsToApproved, TypeInv, TypeOK
  <2> QED
    BY <1>0, <2>1, <2>3, ApprovedJobs, ApprovedSources DEF ApprovedInv, ChangesAreApproved
<1>9. ASSUME NEW r \in Requests, SourceOpen(r) PROVE ApprovedInv'
  <2>1. KeepsToApproved(r) /\ backup' = backup
    BY CoveredGrows, <1>0, <1>9, <1>a, SourceOpenFacts DEF Goes, Becomes, KeepsToApproved
  <2>2. \A a \in Files : source'[a] # Torn => source'[a] \subseteq Covered'
    BY CoveredGrows, <1>0, <1>9, <1>b, <2>1, SourceOpenFacts
    DEF KeepsToApproved, TypeInv, TypeOK
  <2> QED
    BY <1>0, <2>1, <2>2, ApprovedJobs, ApprovedBackups DEF ApprovedInv, ChangesAreApproved
<1>10. ASSUME NEW r \in Requests, SourceWrite(r) PROVE ApprovedInv'
  <2>1. KeepsToApproved(r) /\ backup' = backup
    BY CoveredGrows, <1>0, <1>10, <1>a, SourceWriteFacts
    DEF Moves, Quits, Becomes, KeepsToApproved
  <2>2. \A a \in Files : source'[a] # Torn => source'[a] \subseteq Covered'
    BY CoveredGrows, <1>0, <1>10, <1>a, <1>b, <2>1, SourceWriteFacts
    DEF KeepsToApproved, TypeInv, TypeOK
  <2> QED
    BY <1>0, <2>1, <2>2, ApprovedJobs, ApprovedBackups DEF ApprovedInv, ChangesAreApproved
<1>11. ASSUME NEW r \in Requests, TestGet(r) PROVE ApprovedInv'
  BY CoveredGrows, <1>0, <1>11, <1>a, <1>c, TestGetFacts DEF Goes, Becomes, KeepsToApproved
<1>12. ASSUME NEW r \in Requests, Scan(r) PROVE ApprovedInv'
  BY CoveredGrows, <1>0, <1>12, <1>a, <1>c, ScanFacts DEF Becomes, KeepsToApproved
<1>13. ASSUME NEW r \in Requests, LoadTest(r) PROVE ApprovedInv'
  BY CoveredGrows, <1>0, <1>13, <1>a, <1>c, LoadTestFacts DEF Goes, Becomes, KeepsToApproved
<1>14. ASSUME NEW r \in Requests, SaveTest(r) PROVE ApprovedInv'
  BY CoveredGrows, <1>0, <1>14, <1>a, <1>c, SaveTestFacts DEF Goes, Becomes, KeepsToApproved
<1>15. ASSUME NEW r \in Requests, LoadFinal(r) PROVE ApprovedInv'
  BY CoveredGrows, <1>0, <1>15, <1>c, LoadFinalFacts DEF Quits, Becomes, KeepsToApproved
<1>16. ASSUME NEW r \in Requests, NEW b \in Files, Rollback(r, b)
       PROVE  ApprovedInv'
  <2>1. KeepsToApproved(r) /\ backup' = backup
    BY CoveredGrows, <1>0, <1>16, RollbackFacts DEF Becomes, KeepsToApproved
  <2>2. \A a \in Files : source'[a] # Torn => source'[a] \subseteq Covered'
    BY CoveredGrows, <1>0, <1>16, <1>b, <2>1, RollbackFacts
    DEF KeepsToApproved, TypeInv, TypeOK
  <2> QED
    BY <1>0, <2>1, <2>2, ApprovedJobs, ApprovedBackups DEF ApprovedInv, ChangesAreApproved
<1>17. ASSUME NEW r \in Requests, Restore(r) PROVE ApprovedInv'
  <2>1. KeepsToApproved(r) /\ backup' = backup
    BY CoveredGrows, <1>0, <1>17, RestoreFacts DEF Quits, Becomes, KeepsToApproved
  <2>2. job[r].file \in Files /\ backup[job[r].file] # NoBackup
    BY <1>0, <1>17, RestoreFacts DEF TypeInv, PlaceOK
  <2>3. \A a \in Files : source'[a] # Torn => source'[a] \subseteq Covered'
    BY CoveredGrows, <1>0, <1>17, <1>b, <2>1, <2>2, RestoreFacts
    DEF KeepsToApproved, TypeInv, TypeOK
  <2> QED
    BY <1>0, <2>1, <2>3, ApprovedJobs, ApprovedBackups DEF ApprovedInv, ChangesAreApproved
<1>18. ASSUME NEW r \in Requests, BreakOff(r) PROVE ApprovedInv'
  BY CoveredGrows, <1>0, <1>18, <1>c, BreakOffFacts DEF Quits, Becomes, KeepsToApproved
<1>19. CASE UNCHANGED vars
  BY <1>0, <1>19 DEF vars, ApprovedInv, ChangesAreApproved, Covered
<1> QED
  BY <1>1, <1>2, <1>3, <1>4, <1>5, <1>6, <1>7, <1>8, <1>9, <1>10, <1>11,
     <1>12, <1>13, <1>14, <1>15, <1>16, <1>17, <1>18, <1>19 DEF Next

\* No source file, backup or patch ever holds a change for code that nobody
\* approved: of each changed finding it or a twin was approved.
THEOREM ChangesApproved == Spec => []ChangesAreApproved
<1>1. Init => ApprovedInv
  <2> SUFFICES ASSUME Init PROVE ApprovedInv
    OBVIOUS
  <2>1. \A r \in Requests : job[r].todo = {} /\ job[r].text = {}
    BY IdleFacts DEF Init
  <2> QED
    BY <2>1, TypeInit DEF Init, ApprovedInv, ChangesAreApproved
<1>2. ApprovedInv => ChangesAreApproved
  BY DEF ApprovedInv
<1> QED
  BY <1>1, <1>2, ApprovedStep, PTL DEF Spec

(***************************************************************************)
(* The files two requests work on at once are disturbed: a request only    *)
(* gives files up once it has begun, and when it begins it meets all the   *)
(* others.  So is a file that is being restored.                           *)
(***************************************************************************)
Alone ==
  /\ \A q, r \in Requests :
       q # r => Scope(job[q]) \cap Scope(job[r]) \cap Files \subseteq disturbed
  /\ \A r \in Requests : job[r].at = "restore" => job[r].file \in disturbed

Narrows(r) ==
  /\ \A q \in Requests \ {r} : job'[q] = job[q]
  /\ job'[r].todo \subseteq job[r].todo
  /\ job'[r].item = None \/ job'[r].item = job[r].item
  /\ \/ job'[r].file = None
     \/ job'[r].file = job[r].file
     \/ \E f \in job[r].todo : job'[r].file = FileOf[f]
  /\ job'[r].at # "restore"
  /\ disturbed' = disturbed

LEMMA ScopeNarrows ==
  ASSUME NEW r \in Requests, Narrows(r)
  PROVE  Scope(job'[r]) \cap Files \subseteq Scope(job[r])
<1> SUFFICES ASSUME NEW a \in Files, a \in Scope(job'[r])
             PROVE  a \in Scope(job[r])
  OBVIOUS
<1>0. None \notin Files
  BY HandoffAssumption
<1>1. CASE a \in {FileOf[f] : f \in job'[r].todo}
  BY <1>1 DEF Narrows, Scope
<1>2. CASE a = job'[r].file
  BY <1>0, <1>2 DEF Narrows, Scope
<1>3. CASE a \in {FileOf[g] : g \in {h \in Findings :
                    job'[r].item # None /\ Kind[h] = Kind[job'[r].item]}}
  BY <1>3 DEF Narrows, Scope
<1> QED
  BY <1>1, <1>2, <1>3 DEF Scope

LEMMA AloneNarrows ==
  ASSUME Alone, NEW r \in Requests, Narrows(r)
  PROVE  Alone'
<1>1. ASSUME NEW p \in Requests, NEW q \in Requests, p # q,
             NEW a \in Files, a \in Scope(job'[p]), a \in Scope(job'[q])
      PROVE  a \in disturbed'
  <2>1. a \in Scope(job[p]) /\ a \in Scope(job[q])
    BY <1>1, ScopeNarrows DEF Narrows
  <2> QED
    BY <1>1, <2>1 DEF Alone, Narrows
<1>2. \A q \in Requests : job'[q].at = "restore" => job'[q].file \in disturbed'
  BY DEF Alone, Narrows
<1> QED
  BY <1>1, <1>2 DEF Alone, Scope

LEMMA AloneMeets ==
  ASSUME Alone, NEW r \in Requests, Meet(r, job'[r]), job'[r].at # "restore",
         \A q \in Requests \ {r} : job'[q] = job[q]
  PROVE  Alone' /\ disturbed \subseteq disturbed'
<1>1. ASSUME NEW q \in Requests \ {r}, NEW a \in Files,
             a \in Scope(job'[r]), a \in Scope(job[q])
      PROVE  a \in disturbed'
  BY <1>1 DEF Meet
<1>2. disturbed \subseteq disturbed'
  BY DEF Meet
<1>3. ASSUME NEW p \in Requests, NEW q \in Requests, p # q,
             NEW a \in Files, a \in Scope(job'[p]), a \in Scope(job'[q])
      PROVE  a \in disturbed'
  <2>1. CASE p = r
    BY <1>1, <1>3, <2>1
  <2>2. CASE q = r
    BY <1>1, <1>3, <2>2
  <2>3. CASE p # r /\ q # r
    BY <1>2, <1>3, <2>3 DEF Alone
  <2> QED
    BY <2>1, <2>2, <2>3
<1>4. \A q \in Requests : job'[q].at = "restore" => job'[q].file \in disturbed'
  BY <1>2 DEF Alone
<1> QED
  BY <1>2, <1>3, <1>4 DEF Alone, Scope

LEMMA AloneStep ==
  ASSUME TypeInv, Alone, [Next]_vars
  PROVE  Alone' /\ disturbed \subseteq disturbed'
<1> DEFINE Goal == Alone' /\ disturbed \subseteq disturbed'
<1> HIDE DEF Goal
<1> SUFFICES Goal
  BY DEF Goal
<1>b. ASSUME NEW r \in Requests, Narrows(r) PROVE Goal
  BY <1>b, AloneNarrows DEF Narrows, Goal
<1>m. ASSUME NEW r \in Requests, Meet(r, job'[r]), job'[r].at # "restore",
             \A q \in Requests \ {r} : job'[q] = job[q]
      PROVE  Goal
  BY <1>m, AloneMeets DEF Goal
<1>1. ASSUME NEW r \in Requests, Send(r) PROVE Goal
  BY <1>1, <1>b, SendFacts DEF Becomes, Narrows
<1>2. ASSUME NEW r \in Requests, Save(r) PROVE Goal
  BY <1>2, <1>b, SaveFacts DEF Quits, Becomes, Narrows
<1>3. ASSUME NEW r \in Requests, NEW f \in Findings, NEW yes \in BOOLEAN,
             Approve(r, f, yes)
      PROVE  Goal
  BY <1>3, <1>m, ApproveFacts DEF Quits, Becomes
<1>4. ASSUME NEW r \in Requests, NEW yes \in BOOLEAN, Secure(r, yes)
      PROVE  Goal
  BY <1>4, <1>m, SecureFacts DEF Quits, Becomes
<1>5. ASSUME NEW r \in Requests, Select(r) PROVE Goal
  BY <1>5, <1>b, SelectFacts DEF Quits, Becomes, Narrows
<1>6. ASSUME NEW r \in Requests, NEW a \in Files, ReadSource(r, a)
      PROVE  Goal
  <2>1. \E f \in job[r].todo : a = FileOf[f]
    BY <1>6, ReadSourceFacts DEF In
  <2> QED
    <3>1. UNCHANGED disturbed
      BY <1>6, ReadSourceFacts
    <3>2. CASE Moves(r, In(a, job[r].todo))
      BY <1>b, <3>1, <3>2 DEF Moves, Quits, Becomes, Narrows
    <3>3. CASE Becomes(r, "backup", job[r].item, job[r].todo, a,
                       Patched(In(a, job[r].todo), source[a]), job[r].clear)
      BY <1>b, <2>1, <3>1, <3>3 DEF Becomes, Narrows
    <3> QED
      BY <1>6, <3>2, <3>3, ReadSourceFacts
<1>7. ASSUME NEW r \in Requests, BackupOpen(r) PROVE Goal
  BY <1>7, <1>b, BackupOpenFacts DEF Goes, Becomes, Narrows
<1>8. ASSUME NEW r \in Requests, BackupCopy(r) PROVE Goal
  BY <1>8, <1>b, BackupCopyFacts DEF Goes, Becomes, Narrows
<1>9. ASSUME NEW r \in Requests, SourceOpen(r) PROVE Goal
  BY <1>9, <1>b, SourceOpenFacts DEF Goes, Becomes, Narrows
<1>10. ASSUME NEW r \in Requests, SourceWrite(r) PROVE Goal
  BY <1>10, <1>b, SourceWriteFacts DEF Moves, Quits, Becomes, Narrows
<1>11. ASSUME NEW r \in Requests, TestGet(r) PROVE Goal
  BY <1>11, <1>b, TestGetFacts DEF Goes, Becomes, Narrows
<1>12. ASSUME NEW r \in Requests, Scan(r) PROVE Goal
  BY <1>12, <1>b, ScanFacts DEF Becomes, Narrows
<1>13. ASSUME NEW r \in Requests, LoadTest(r) PROVE Goal
  BY <1>13, <1>b, LoadTestFacts DEF Goes, Becomes, Narrows
<1>14. ASSUME NEW r \in Requests, SaveTest(r) PROVE Goal
  BY <1>14, <1>b, SaveTestFacts DEF Goes, Becomes, Narrows
<1>15. ASSUME NEW r \in Requests, LoadFinal(r) PROVE Goal
  BY <1>15, <1>b, LoadFinalFacts DEF Quits, Becomes, Narrows
<1>16. ASSUME NEW r \in Requests, NEW b \in Files, Rollback(r, b)
       PROVE  Goal
  <2>1. /\ job'[r].todo = {} /\ job'[r].item = None /\ job'[r].file = b
        /\ \A q \in Requests \ {r} : job'[q] = job[q]
        /\ disturbed' = disturbed \cup {b}
    BY <1>16, RollbackFacts DEF Becomes
  <2>2. \A a \in Scope(job'[r]) : a = b
    BY <2>1 DEF Scope
  <2>3. ASSUME NEW p \in Requests, NEW q \in Requests, p # q,
               NEW a \in Files, a \in Scope(job'[p]), a \in Scope(job'[q])
        PROVE  a \in disturbed'
    <3>1. CASE p = r \/ q = r
      BY <2>1, <2>2, <2>3, <3>1
    <3>2. CASE p # r /\ q # r
      BY <2>1, <2>3, <3>2 DEF Alone
    <3> QED
      BY <3>1, <3>2
  <2>4. \A q \in Requests : job'[q].at = "restore" => job'[q].file \in disturbed'
    BY <2>1 DEF Alone
  <2> QED
    BY <2>1, <2>3, <2>4 DEF Alone, Scope, Goal
<1>17. ASSUME NEW r \in Requests, Restore(r) PROVE Goal
  BY <1>17, <1>b, RestoreFacts DEF Quits, Becomes, Narrows
<1>18. ASSUME NEW r \in Requests, BreakOff(r) PROVE Goal
  BY <1>18, <1>b, BreakOffFacts DEF Quits, Becomes, Narrows
<1>19. CASE UNCHANGED vars
  BY <1>19 DEF vars, Alone, Scope, Goal
<1> QED
  BY <1>1, <1>2, <1>3, <1>4, <1>5, <1>6, <1>7, <1>8, <1>9, <1>10, <1>11,
     <1>12, <1>13, <1>14, <1>15, <1>16, <1>17, <1>18, <1>19 DEF Next

(***************************************************************************)
(* What a step does to a file that stays undisturbed: nothing that         *)
(* matters, or a request starts to rewrite it from a whole text, or the    *)
(* one request that rewrites it takes its next step.                       *)
(***************************************************************************)
Holds(r, a) == job[r].file = a /\ job[r].at \in Writing

Untouched(a) ==
  /\ source'[a] = source[a] /\ backup'[a] = backup[a]
  /\ \A q \in Requests : job'[q].file = a /\ job'[q].at \in Writing =>
       Holds(q, a) /\ job'[q].at = job[q].at /\ job'[q].text = job[q].text

Reads(r, a) ==
  /\ source[a] # Torn /\ source'[a] = source[a] /\ backup'[a] = backup[a]
  /\ job'[r].at = "backup" /\ job'[r].file = a
  /\ source[a] \subseteq job'[r].text
  /\ \A q \in Requests \ {r} : job'[q] = job[q]

Rewrites(r, a) ==
  /\ \A q \in Requests \ {r} : job'[q] = job[q] /\ job[q].file # a
  /\ job[r].file = a
  /\ job'[r].at \in Writing => job'[r].text = job[r].text
  /\ \/ /\ job[r].at = "backup" /\ job'[r].at = "copy"
        /\ source'[a] = source[a] /\ backup'[a] = Torn
     \/ /\ job[r].at = "copy" /\ job'[r].at = "open"
        /\ source'[a] = source[a] /\ backup'[a] = source[a]
     \/ /\ job[r].at = "open" /\ job'[r].at = "write"
        /\ source'[a] = Torn /\ backup'[a] = backup[a]
     \/ /\ job[r].at = "write" /\ job'[r].at \notin Writing
        /\ source'[a] = job[r].text /\ backup'[a] = backup[a]

LEMMA OnlyOne ==
  ASSUME Alone, NEW r \in Requests, NEW q \in Requests \ {r},
         NEW a \in Files \ disturbed, job[r].file = a
  PROVE  job[q].file # a
BY DEF Alone, Scope

LEMMA FileStep ==
  ASSUME TypeInv, Alone, [Next]_vars, NEW a \in Files, a \notin disturbed'
  PROVE  \/ Untouched(a)
         \/ \E r \in Requests : Reads(r, a) \/ Rewrites(r, a)
<1> DEFINE Goal == Untouched(a) \/ \E r \in Requests : Reads(r, a) \/ Rewrites(r, a)
<1> HIDE DEF Goal
<1> SUFFICES Goal
  BY DEF Goal
<1>0. a \in Files \ disturbed
  BY AloneStep
<1>a. source \in [Files -> {Torn} \cup Texts]
      /\ backup \in [Files -> {Torn, NoBackup} \cup Texts]
  BY DEF TypeInv, TypeOK
<1>b. ASSUME NEW r \in Requests, source'[a] = source[a], backup'[a] = backup[a],
             \A q \in Requests \ {r} : job'[q] = job[q],
             job'[r].at \notin Writing
      PROVE  Goal
  BY <1>b DEF Untouched, Holds, Goal
<1>c. ASSUME NEW r \in Requests, source'[a] = source[a], backup'[a] = backup[a],
             \A q \in Requests \ {r} : job'[q] = job[q],
             job'[r].file # a
      PROVE  Goal
  BY <1>c DEF Untouched, Holds, Goal
<1>1. ASSUME NEW r \in Requests, Send(r) PROVE Goal
  BY <1>1, <1>b, SendFacts DEF Becomes, Writing
<1>2. ASSUME NEW r \in Requests, Save(r) PROVE Goal
  BY <1>2, <1>b, SaveFacts DEF Quits, Becomes, Writing
<1>3. ASSUME NEW r \in Requests, NEW f \in Findings, NEW yes \in BOOLEAN,
             Approve(r, f, yes)
      PROVE  Goal
  BY <1>3, <1>b, ApproveFacts DEF Quits, Becomes, Writing
<1>4. ASSUME NEW r \in Requests, NEW yes \in BOOLEAN, Secure(r, yes)
      PROVE  Goal
  BY <1>4, <1>b, SecureFacts DEF Quits, Becomes, Writing
<1>5. ASSUME NEW r \in Requests, Select(r) PROVE Goal
  BY <1>5, <1>b, SelectFacts DEF Quits, Becomes, Writing
<1>6. ASSUME NEW r \in Requests, NEW b \in Files, ReadSource(r, b)
      PROVE  Goal
  <2>1. UNCHANGED <<source, backup>>
    BY <1>6, ReadSourceFacts
  <2>2. CASE Moves(r, In(b, job[r].todo))
    BY <1>b, <2>1, <2>2 DEF Moves, Quits, Becomes, Writing
  <2>3. CASE /\ source[b] # Torn
             /\ Becomes(r, "backup", job[r].item, job[r].todo, b,
                        Patched(In(b, job[r].todo), source[b]), job[r].clear)
    <3>1. CASE a = b
      <4>1. source[a] \subseteq Patched(In(b, job[r].todo), source[b])
        BY <3>1 DEF Patched
      <4> QED
        BY <2>1, <2>3, <3>1, <4>1 DEF Becomes, Reads, Goal
    <3>2. CASE a # b
      BY <1>c, <2>1, <2>3, <3>2 DEF Becomes
    <3> QED
      BY <3>1, <3>2
  <2> QED
    BY <1>6, <2>2, <2>3, ReadSourceFacts
<1>7. ASSUME NEW r \in Requests, BackupOpen(r) PROVE Goal
  <2>1. /\ job[r].at = "backup" /\ Goes(r, "copy") /\ source' = source
        /\ backup' = [backup EXCEPT ![job[r].file] = Torn]
    BY <1>7, BackupOpenFacts
  <2>2. CASE job[r].file = a
    BY <1>0, <1>a, <2>1, <2>2, OnlyOne DEF Goes, Becomes, Rewrites, Goal
  <2>3. CASE job[r].file # a
    BY <1>a, <1>c, <2>1, <2>3 DEF Goes, Becomes
  <2> QED
    BY <2>2, <2>3
<1>8. ASSUME NEW r \in Requests, BackupCopy(r) PROVE Goal
  <2>1. /\ job[r].at = "copy" /\ Goes(r, "open") /\ source' = source
        /\ backup' = [backup EXCEPT ![job[r].file] = source[job[r].file]]
    BY <1>8, BackupCopyFacts
  <2>2. CASE job[r].file = a
    BY <1>0, <1>a, <2>1, <2>2, OnlyOne DEF Goes, Becomes, Rewrites, Goal
  <2>3. CASE job[r].file # a
    BY <1>a, <1>c, <2>1, <2>3 DEF Goes, Becomes
  <2> QED
    BY <2>2, <2>3
<1>9. ASSUME NEW r \in Requests, SourceOpen(r) PROVE Goal
  <2>1. /\ job[r].at = "open" /\ Goes(r, "write") /\ backup' = backup
        /\ source' = [source EXCEPT ![job[r].file] = Torn]
    BY <1>9, SourceOpenFacts
  <2>2. CASE job[r].file = a
    BY <1>0, <1>a, <2>1, <2>2, OnlyOne DEF Goes, Becomes, Rewrites, Goal
  <2>3. CASE job[r].file # a
    BY <1>a, <1>c, <2>1, <2>3 DEF Goes, Becomes
  <2> QED
    BY <2>2, <2>3
<1>10. ASSUME NEW r \in Requests, SourceWrite(r) PROVE Goal
  <2>1. /\ job[r].at = "write" /\ backup' = backup
        /\ source' = [source EXCEPT ![job[r].file] = job[r].text]
        /\ job'[r].at \notin Writing
        /\ \A q \in Requests \ {r} : job'[q] = job[q]
    BY <1>10, SourceWriteFacts DEF Moves, Quits, Becomes, Writing
  <2>2. CASE job[r].file = a
    BY <1>0, <1>a, <2>1, <2>2, OnlyOne DEF Rewrites, Goal
  <2>3. CASE job[r].file # a
    BY <1>a, <1>b, <2>1, <2>3
  <2> QED
    BY <2>2, <2>3
<1>11. ASSUME NEW r \in Requests, TestGet(r) PROVE Goal
  BY <1>11, <1>b, TestGetFacts DEF Goes, Becomes, Writing
<1>12. ASSUME NEW r \in Requests, Scan(r) PROVE Goal
  BY <1>12, <1>b, ScanFacts DEF Becomes, Writing
<1>13. ASSUME NEW r \in Requests, LoadTest(r) PROVE Goal
  BY <1>13, <1>b, LoadTestFacts DEF Goes, Becomes, Writing
<1>14. ASSUME NEW r \in Requests, SaveTest(r) PROVE Goal
  BY <1>14, <1>b, SaveTestFacts DEF Goes, Becomes, Writing
<1>15. ASSUME NEW r \in Requests, LoadFinal(r) PROVE Goal
  BY <1>15, <1>b, LoadFinalFacts DEF Quits, Becomes, Writing
<1>16. ASSUME NEW r \in Requests, NEW b \in Files, Rollback(r, b)
       PROVE  Goal
  <2>1. a # b
    BY <1>16, RollbackFacts
  <2> QED
    BY <1>16, <1>a, <1>b, <2>1, RollbackFacts DEF Becomes, Writing
<1>17. ASSUME NEW r \in Requests, Restore(r) PROVE Goal
  <2>1. job[r].file # a
    BY <1>0, <1>17, RestoreFacts DEF Alone
  <2> QED
    BY <1>17, <1>a, <1>b, <2>1, RestoreFacts DEF Quits, Becomes, Writing
<1>18. ASSUME NEW r \in Requests, BreakOff(r) PROVE Goal
  BY <1>18, <1>b, BreakOffFacts DEF Quits, Becomes, Writing
<1>19. CASE UNCHANGED vars
  BY <1>19 DEF vars, Untouched, Holds, Goal
<1> QED
  BY <1>1, <1>2, <1>3, <1>4, <1>5, <1>6, <1>7, <1>8, <1>9, <1>10, <1>11,
     <1>12, <1>13, <1>14, <1>15, <1>16, <1>17, <1>18, <1>19 DEF Next

(***************************************************************************)
(* An undisturbed file that is truncated has a whole backup, because the   *)
(* request that rewrites it takes the backup of a whole text first.        *)
(***************************************************************************)
Whole(b) == b # Torn /\ b # NoBackup

Guarded(a) ==
  /\ source[a] = Torn => Whole(backup[a])
  /\ \A r \in Requests : job[r].file = a =>
       /\ job[r].at \in {"backup", "copy", "open"} => source[a] # Torn
       /\ job[r].at \in {"open", "write"} => Whole(backup[a])

LEMMA GuardedStep ==
  ASSUME TypeInv, Alone, [Next]_vars, NEW a \in Files, a \notin disturbed',
         Guarded(a)
  PROVE  Guarded(a)'
<1>0. \A b \in Texts : b # Torn /\ b # NoBackup
  BY HandoffAssumption
<1>a. source[a] \in {Torn} \cup Texts
  BY DEF TypeInv, TypeOK
<1>1. CASE Untouched(a)
  BY <1>1 DEF Guarded, Untouched, Holds, Writing
<1>2. ASSUME NEW r \in Requests, Reads(r, a) PROVE Guarded(a)'
  <2>1. Guarded(a)' <=>
          /\ source'[a] = Torn => Whole(backup'[a])
          /\ \A q \in Requests : job'[q].file = a =>
               /\ job'[q].at \in {"backup", "copy", "open"} => source'[a] # Torn
               /\ job'[q].at \in {"open", "write"} => Whole(backup'[a])
    BY DEF Guarded, Whole
  <2> QED
    BY <1>2, <2>1 DEF Guarded, Reads
<1>3. ASSUME NEW r \in Requests, Rewrites(r, a) PROVE Guarded(a)'
  <2>0. \A q \in Requests \ {r} : job'[q].file # a
    BY <1>3 DEF Rewrites
  <2>1. CASE /\ job[r].at = "backup" /\ job'[r].at = "copy"
             /\ source'[a] = source[a] /\ backup'[a] = Torn
    BY <1>3, <2>0, <2>1 DEF Guarded, Whole, Rewrites
  <2>2. CASE /\ job[r].at = "copy" /\ job'[r].at = "open"
             /\ source'[a] = source[a] /\ backup'[a] = source[a]
    BY <1>0, <1>3, <1>a, <2>0, <2>2 DEF Guarded, Whole, Rewrites
  <2>3. CASE /\ job[r].at = "open" /\ job'[r].at = "write"
             /\ source'[a] = Torn /\ backup'[a] = backup[a]
    BY <1>3, <2>0, <2>3 DEF Guarded, Whole, Rewrites
  <2>4. CASE /\ job[r].at = "write" /\ job'[r].at \notin Writing
             /\ source'[a] = job[r].text /\ backup'[a] = backup[a]
    <3>1. source'[a] # Torn
      BY <1>0, <2>4 DEF TypeInv, TypeOK, Jobs
    <3> QED
      BY <2>0, <2>4, <3>1 DEF Guarded, Writing
  <2> QED
    BY <1>3, <2>1, <2>2, <2>3, <2>4 DEF Rewrites
<1> QED
  BY <1>1, <1>2, <1>3, FileStep

SafeInv == TypeInv /\ Alone /\ \A a \in Files \ disturbed : Guarded(a)

LEMMA SafeInit == Init => TypeInv /\ Alone
<1> SUFFICES ASSUME Init PROVE Alone
  BY TypeInit
<1>1. \A r \in Requests : /\ job[r].at = "idle" /\ job[r].item = None
                          /\ job[r].todo = {} /\ job[r].file = None
  BY IdleFacts DEF Init
<1>2. \A r \in Requests : Scope(job[r]) = {None}
  BY <1>1 DEF Scope
<1> QED
  BY <1>1, <1>2, HandoffAssumption DEF Alone

\* A request that breaks off while it rewrites a file leaves a backup of a
\* whole text, if no other request worked on the file.
THEOREM NothingLost == Spec => []NothingIsLost
<1>1. Init => SafeInv
  <2> SUFFICES ASSUME Init, NEW a \in Files PROVE Guarded(a)
    BY SafeInit DEF SafeInv
  <2>1. source[a] = {} /\ \A r \in Requests : job[r].at = "idle"
    BY IdleFacts DEF Init
  <2>2. {} \in Texts
    BY DEF Texts
  <2> QED
    BY <2>1, <2>2, HandoffAssumption DEF Guarded
<1>2. SafeInv /\ [Next]_vars => SafeInv'
  <2> SUFFICES ASSUME SafeInv, [Next]_vars PROVE SafeInv'
    OBVIOUS
  <2>1. TypeInv' /\ Alone' /\ disturbed \subseteq disturbed'
    BY TypeStep, AloneStep DEF SafeInv
  <2>2. ASSUME NEW a \in Files \ disturbed' PROVE Guarded(a)'
    BY <2>1, GuardedStep DEF SafeInv
  <2> QED
    BY <2>1, <2>2 DEF SafeInv
<1>3. SafeInv => NothingIsLost
  BY DEF SafeInv, Guarded, Whole, NothingIsLost
<1> QED
  BY <1>1, <1>2, <1>3, PTL DEF Spec

(***************************************************************************)
(* In an undisturbed file, a finding whose rule is believed to be gone is  *)
(* gone, and no text about to be written brings it back.                   *)
(***************************************************************************)
Settled(g) ==
  /\ source[FileOf[g]] = Torn \/ g \in source[FileOf[g]]
  /\ \A r \in Requests : Holds(r, FileOf[g]) => g \in job[r].text

LEMMA SettledStep ==
  ASSUME TypeInv, Alone, [Next]_vars, NEW g \in Findings,
         FileOf[g] \notin disturbed', Settled(g)
  PROVE  Settled(g)'
<1> DEFINE a == FileOf[g]
<1>0. a \in Files
  BY HandoffAssumption
<1>1. CASE Untouched(a)
  BY <1>1 DEF Settled, Untouched, Holds
<1>2. ASSUME NEW r \in Requests, Reads(r, a) PROVE Settled(g)'
  BY <1>2 DEF Settled, Reads, Holds
<1>3. ASSUME NEW r \in Requests, Rewrites(r, a) PROVE Settled(g)'
  <2>1. job[r].at \in Writing /\ job[r].file = a
    BY <1>3 DEF Rewrites, Writing
  <2>2. g \in job[r].text
    BY <2>1 DEF Settled, Holds
  <2>3. source'[a] \in {source[a], Torn, job[r].text}
    BY <1>3 DEF Rewrites
  <2>4. source'[a] = Torn \/ g \in source'[a]
    BY <2>2, <2>3 DEF Settled
  <2>5. \A q \in Requests : job'[q].file = a /\ job'[q].at \in Writing =>
          g \in job'[q].text
    BY <1>3, <2>2 DEF Rewrites
  <2> QED
    BY <2>4, <2>5 DEF Settled, Holds
<1> HIDE DEF a
<1>4. Untouched(a) \/ \E r \in Requests : Reads(r, a) \/ Rewrites(r, a)
  BY <1>0, FileStep DEF a
<1> QED
  BY <1>1, <1>2, <1>3, <1>4 DEF a

\* The files that a test of f looks at are in its scope.
LEMMA TestedScope ==
  ASSUME TypeInv, NEW r \in Requests, Scan(r), NEW g \in Findings,
         Kind[g] = Kind[job[r].item]
  PROVE  FileOf[g] \in Scope(job[r])
<1>1. job[r].item \in Findings
  BY ScanFacts
<1>2. job[r].item # None
  BY <1>1, HandoffAssumption
<1> QED
  BY <1>2 DEF Scope

LEMMA ScanSettles ==
  ASSUME TypeInv, Alone, NEW r \in Requests, Scan(r),
         ~ StillPresent(job[r].item), NEW g \in Findings,
         Kind[g] = Kind[job[r].item], FileOf[g] \notin disturbed
  PROVE  Settled(g)
<1>0. FileOf[g] \in Files
  BY HandoffAssumption
<1>1. source[FileOf[g]] = Torn \/ g \in source[FileOf[g]]
  BY DEF StillPresent, Fires
<1>2. ASSUME NEW q \in Requests, Holds(q, FileOf[g]) PROVE FALSE
  <2>1. q # r
    BY <1>2, ScanFacts DEF Holds, Writing
  <2>2. FileOf[g] \in Scope(job[q])
    BY <1>2 DEF Holds, Scope
  <2>3. FileOf[g] \in Scope(job[r])
    BY TestedScope
  <2> QED
    BY <1>0, <2>1, <2>2, <2>3 DEF Alone
<1> QED
  BY <1>1, <1>2 DEF Settled

FixedInv ==
  /\ TypeInv /\ Alone
  /\ \A f, g \in Findings :
       Believed(f) /\ Kind[g] = Kind[f] /\ FileOf[g] \notin disturbed
         => Settled(g)

\* In files that were not rolled back nor worked on by two requests at once, a
\* verified finding is gone with every finding of its rule, whatever was
\* approved, secured, sent again or broken off since.
THEOREM VerifiedFixed == Spec => []VerifiedIsFixed
<1>1. Init => FixedInv
  BY SafeInit, InitBelief DEF FixedInv
<1>2. FixedInv /\ [Next]_vars => FixedInv'
  <2> SUFFICES ASSUME FixedInv, [Next]_vars PROVE FixedInv'
    OBVIOUS
  <2>1. TypeInv' /\ Alone' /\ disturbed \subseteq disturbed'
    BY TypeStep, AloneStep DEF FixedInv
  <2>2. ASSUME NEW f \in Findings, NEW g \in Findings, Believed(f)',
               Kind[g] = Kind[f], FileOf[g] \notin disturbed'
        PROVE  Settled(g)'
    <3>1. Settled(g)
      <4>1. FileOf[g] \notin disturbed
        BY <2>1, <2>2
      <4>2. CASE Believed(f)
        BY <2>2, <4>1, <4>2 DEF FixedInv
      <4>3. ASSUME NEW r \in Requests, Scan(r), job[r].item = f,
                   ~ StillPresent(f)
            PROVE  Settled(g)
        BY <2>2, <4>1, <4>3, ScanSettles DEF FixedInv
      <4> QED
        BY <2>2, <4>2, <4>3, BelievedStep DEF FixedInv
    <3> QED
      BY <2>2, <3>1, SettledStep DEF FixedInv
  <2> QED
    BY <2>1, <2>2 DEF FixedInv
<1>3. FixedInv => VerifiedIsFixed
  BY DEF FixedInv, Believed, Settled, Fires, VerifiedIsFixed
<1> QED
  BY <1>1, <1>2, <1>3, PTL DEF Spec

=============================================================================
