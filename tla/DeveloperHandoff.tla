-------------------------- MODULE DeveloperHandoff --------------------------
(***************************************************************************)
(* The product's own loop from a finding to a verified fix: findings are   *)
(* handed to the developer in reports/..._handoff.json, a human approves   *)
(* one (or secures the whole project), the source is backed up and         *)
(* patched, scanned again, and the verdict is written back                 *)
(* (security_workforce/developer_handoff.py, scanner/remediation/          *)
(* workflow.py, scanner/developer/session.py, api/server.py, main.py).     *)
(*                                                                         *)
(* Every request of the threaded API and every command line runs alongside *)
(* the others.  None takes a lock: the handoff file is loaded, changed and *)
(* replaced as a whole; a source file is truncated and then written.       *)
(*                                                                         *)
(* The text of a source file is the set of findings fixed in it, or Torn:  *)
(* opened for writing and still empty.  A patch replaces the first         *)
(* occurrence of a finding's code, so it may rewrite the line of another.  *)
(***************************************************************************)
EXTENDS Naturals, FiniteSets

CONSTANTS
  Findings,   \* the vulnerabilities of the target, named by fingerprint
  Files,      \* source files of the target
  Requests,   \* API requests and commands that may be active at once
  FileOf,     \* the file each finding is in
  Line,       \* its line
  Code,       \* its rule and code, all that a patch looks for in the file
  Kind,       \* rule and base name, all that a re-test looks at
  Batches,    \* sets of findings the store may list when it is handed over
  Patchable,  \* findings for which a patch can be generated
  Torn,       \* the text of a file that is truncated
  NoBackup,   \* no .purpleguard.bak exists
  None

Texts == SUBSET Findings

ASSUME HandoffAssumption ==
  /\ IsFiniteSet(Findings)
  /\ FileOf \in [Findings -> Files] /\ Line \in [Findings -> Nat]
  /\ \A f, g \in Findings : FileOf[f] = FileOf[g] /\ Code[f] = Code[g] =>
       Kind[f] = Kind[g] /\ (Line[f] = Line[g] => f = g)
  /\ Patchable \subseteq Findings
  /\ Batches \subseteq Texts
  /\ DOMAIN Kind = Findings /\ DOMAIN Code = Findings
  /\ \A text \in Texts : Torn # text /\ NoBackup # text
  /\ Torn # NoBackup
  /\ None \notin Findings \cup Files

VARIABLES
  stage,      \* handoff.json: the stage of each item, "none" if there is none
  source,     \* the text of each source file
  backup,     \* the text of its .purpleguard.bak
  job,        \* what each request is doing
  approved,   \* history: findings a caller approved the remediation of
  cleared,    \* history: findings a re-test found to be gone
  disturbed   \* history: files rolled back, or worked on by two requests

vars == <<stage, source, backup, job, approved, cleared, disturbed>>

Stages == {"none", "awaiting_approval", "verified", "not_verified",
           "remediated_not_verified", "remediation_unavailable"}

Places == {"idle", "save", "select", "patch", "backup", "copy", "open",
           "write", "get", "scan", "loadTest", "saveTest", "loadFinal", "restore"}

NoItems == [f \in Findings |-> "none"]

\* item: the finding of an approve request; todo: findings still to patch;
\* file, text: the file being rewritten, and what will be written; items: the
\* handoff file as this request loaded and changed it.
Idle == [at |-> "idle", item |-> None, todo |-> {},
         file |-> None, text |-> {}, applied |-> FALSE, clear |-> FALSE,
         items |-> NoItems]

Jobs == [at : Places, item : {None} \cup Findings, todo : Texts,
         file : {None} \cup Files, text : Texts, applied : BOOLEAN,
         clear : BOOLEAN, items : [Findings -> Stages]]

Init ==
  /\ stage = NoItems
  /\ source = [a \in Files |-> {}]
  /\ backup = [a \in Files |-> NoBackup]
  /\ job = [r \in Requests |-> Idle]
  /\ approved = {}
  /\ cleared = {}
  /\ disturbed = {}

-----------------------------------------------------------------------------
(* Scanning and patching *)

\* The scanner reads the file as it is; nothing is found in an empty one.
Fires(f) == source[FileOf[f]] # Torn /\ f \notin source[FileOf[f]]

\* A re-test looks for the rule in every file of that base name.
StillPresent(f) == \E g \in Findings : Kind[g] = Kind[f] /\ Fires(g)

\* Findings of one rule whose code reads the same.
Twins(f) == {g \in Findings : FileOf[g] = FileOf[f] /\ Code[g] = Code[f]}

\* For each finding the code to replace must still be somewhere in the file.
CanPatch(F, text) ==
  /\ text # Torn /\ F \subseteq Patchable
  /\ \A f \in F : Cardinality(Twins(f) \cap F) <= Cardinality(Twins(f) \ text)

\* _replace_exact: each patch goes to the first of the twins that is still as
\* it was, whichever of them was meant.
Patched(F, text) ==
  text \cup {g \in Findings \ text :
               Cardinality({h \in Twins(g) \ text : Line[h] <= Line[g]})
                 <= Cardinality(Twins(g) \cap F)}

In(a, S) == {f \in S : FileOf[f] = a}

\* The files whose text a request reads or writes until it ends.
Scope(j) == {FileOf[f] : f \in j.todo} \cup {j.file} \cup
            {FileOf[g] : g \in {h \in Findings :
                                  j.item # None /\ Kind[h] = Kind[j.item]}}

Goto(r, j) == job' = [job EXCEPT ![r] = j]

Begin(r, j) == job[r].at = "idle" /\ Goto(r, j)

\* A request that works on source files meets those already at work.
Meet(r, j) ==
  disturbed' = disturbed \cup
    (Files \cap Scope(j) \cap UNION {Scope(job[q]) : q \in Requests \ {r}})

-----------------------------------------------------------------------------
(* Handing findings over *)

Delivered(F) ==
  [f \in Findings |-> IF f \in F /\ stage[f] # "verified"
                      THEN "awaiting_approval" ELSE stage[f]]

\* POST /workforce/handoff: the file is loaded and the items are set in it.
Send(r) ==
  \E F \in Batches :
    /\ Begin(r, [Idle EXCEPT !.at = "save", !.items = Delivered(F)])
    /\ UNCHANGED <<stage, source, backup, approved, cleared, disturbed>>

\* The last step of a request: os.replace puts its version in place.
Save(r) ==
  /\ job[r].at = "save"
  /\ stage' = job[r].items
  /\ Goto(r, Idle)
  /\ UNCHANGED <<source, backup, approved, cleared, disturbed>>

-----------------------------------------------------------------------------
(* Approval *)

\* Mutant: approve is read and never looked at.
ApproveUnasked(r, f, yes) ==
  LET j == [Idle EXCEPT !.at = "patch", !.item = f, !.todo = {f}]
  IN /\ stage[f] # "none"
     /\ Begin(r, j)
     /\ approved' = IF yes THEN approved \cup {f} ELSE approved
     /\ Meet(r, j)
     /\ UNCHANGED <<stage, source, backup, cleared>>

\* POST /workforce/approve: the item must exist, whatever its stage.  Without
\* approval the request ends here.
Approve(r, f, yes) ==
  LET j == [Idle EXCEPT !.at = "patch", !.item = f, !.todo = {f}]
  IN /\ stage[f] # "none"
     /\ Begin(r, IF yes THEN j ELSE Idle)
     /\ approved' = IF yes THEN approved \cup {f} ELSE approved
     /\ Meet(r, IF yes THEN j ELSE Idle)
     /\ UNCHANGED <<stage, source, backup, cleared>>

\* main.py secure: the project is scanned, and nothing is to do if it is clean.
\* With approval the caller approves whatever the scan finds.
Secure(r, yes) ==
  LET found == {f \in Findings : Fires(f)}
      j == IF yes THEN [Idle EXCEPT !.at = "select", !.todo = found] ELSE Idle
  IN /\ found # {}
     /\ Begin(r, j)
     /\ approved' = IF yes THEN approved \cup found ELSE approved
     /\ Meet(r, j)
     /\ UNCHANGED <<stage, source, backup, cleared>>

\* secure_all keeps what can_auto_fix can patch now.
Select(r) ==
  LET j == job[r]
      fixable == {f \in j.todo : CanPatch({f}, source[FileOf[f]])}
  IN /\ j.at = "select"
     /\ Goto(r, IF fixable = {} THEN Idle
                ELSE [j EXCEPT !.at = "patch", !.todo = fixable])
     /\ UNCHANGED <<stage, source, backup, approved, cleared, disturbed>>

-----------------------------------------------------------------------------
(* apply_patches: one file after the other *)

\* After the last file an approval is tested again; secure_all only reports.
NextFile(j, done) ==
  LET left == j.todo \ done
      rest == [j EXCEPT !.todo = left, !.file = None, !.text = {}]
  IN IF left # {} THEN [rest EXCEPT !.at = "patch"]
     ELSE IF j.item # None THEN [rest EXCEPT !.at = "get"]
     ELSE Idle

\* Mutant: the source is rewritten without a backup.
ReadSourceNoBackup(r, a) ==
  LET j == job[r]
      batch == In(a, j.todo)
  IN /\ j.at = "patch"
     /\ batch # {}
     /\ Goto(r, IF CanPatch(batch, source[a])
                THEN [j EXCEPT !.at = "open", !.file = a,
                               !.text = Patched(batch, source[a])]
                ELSE NextFile(j, batch))
     /\ UNCHANGED <<stage, source, backup, approved, cleared, disturbed>>

\* A file is read, and all its findings are patched in memory, or none.
ReadSource(r, a) ==
  LET j == job[r]
      batch == In(a, j.todo)
  IN /\ j.at = "patch"
     /\ batch # {}
     /\ Goto(r, IF CanPatch(batch, source[a])
                THEN [j EXCEPT !.at = "backup", !.file = a,
                               !.text = Patched(batch, source[a])]
                ELSE NextFile(j, batch))
     /\ UNCHANGED <<stage, source, backup, approved, cleared, disturbed>>

\* shutil.copy2 truncates the backup, then fills it with what it reads.
BackupOpen(r) ==
  LET j == job[r]
  IN /\ j.at = "backup"
     /\ backup' = [backup EXCEPT ![j.file] = Torn]
     /\ Goto(r, [j EXCEPT !.at = "copy"])
     /\ UNCHANGED <<stage, source, approved, cleared, disturbed>>

BackupCopy(r) ==
  LET j == job[r]
  IN /\ j.at = "copy"
     /\ backup' = [backup EXCEPT ![j.file] = source[j.file]]
     /\ Goto(r, [j EXCEPT !.at = "open"])
     /\ UNCHANGED <<stage, source, approved, cleared, disturbed>>

\* open(file_path, "w") ...
SourceOpen(r) ==
  LET j == job[r]
  IN /\ j.at = "open"
     /\ source' = [source EXCEPT ![j.file] = Torn]
     /\ Goto(r, [j EXCEPT !.at = "write"])
     /\ UNCHANGED <<stage, backup, approved, cleared, disturbed>>

\* ... file.write(current)
SourceWrite(r) ==
  LET j == job[r]
  IN /\ j.at = "write"
     /\ source' = [source EXCEPT ![j.file] = j.text]
     /\ Goto(r, NextFile([j EXCEPT !.applied = TRUE], In(j.file, j.todo)))
     /\ UNCHANGED <<stage, backup, approved, cleared, disturbed>>

-----------------------------------------------------------------------------
(* Re-test and verdict of an approved finding *)

\* re_test gets the item; without it there is no test.
TestGet(r) ==
  LET j == job[r]
  IN /\ j.at = "get"
     /\ Goto(r, [j EXCEPT !.at = IF stage[j.item] = "none"
                                 THEN "loadFinal" ELSE "scan"])
     /\ UNCHANGED <<stage, source, backup, approved, cleared, disturbed>>

\* A fresh scan of the target.
Scan(r) ==
  LET j == job[r]
      gone == ~ StillPresent(j.item)
  IN /\ j.at = "scan"
     /\ cleared' = IF gone THEN cleared \cup {j.item} ELSE cleared
     /\ Goto(r, [j EXCEPT !.at = "loadTest", !.clear = gone])
     /\ UNCHANGED <<stage, source, backup, approved, disturbed>>

\* The handoff file is loaded; an item that has gone is not written.
LoadTest(r) ==
  LET j == job[r]
      verdict == IF j.clear THEN "verified" ELSE "not_verified"
  IN /\ j.at = "loadTest"
     /\ Goto(r, IF stage[j.item] = "none" THEN [j EXCEPT !.at = "loadFinal"]
                ELSE [j EXCEPT !.at = "saveTest",
                               !.items = [stage EXCEPT ![j.item] = verdict]])
     /\ UNCHANGED <<stage, source, backup, approved, cleared, disturbed>>

SaveTest(r) ==
  LET j == job[r]
  IN /\ j.at = "saveTest"
     /\ stage' = j.items
     /\ Goto(r, [j EXCEPT !.at = "loadFinal", !.items = NoItems])
     /\ UNCHANGED <<source, backup, approved, cleared, disturbed>>

\* Mutant: an applied patch counts as a fix.
OutcomeTrustsPatch(j) ==
  IF j.applied THEN "verified" ELSE "remediation_unavailable"

\* The verdict on the item: no patch, no verdict; a patch is not enough.
Outcome(j) ==
  IF ~ j.applied THEN "remediation_unavailable"
  ELSE IF j.clear THEN "verified"
  ELSE "remediated_not_verified"

\* approve_and_remediate loads the file once more for the outcome.
LoadFinal(r) ==
  LET j == job[r]
  IN /\ j.at = "loadFinal"
     /\ Goto(r, IF stage[j.item] = "none" THEN Idle
                ELSE [Idle EXCEPT !.at = "save",
                                  !.items = [stage EXCEPT ![j.item] = Outcome(j)]])
     /\ UNCHANGED <<stage, source, backup, approved, cleared, disturbed>>

-----------------------------------------------------------------------------
(* Rollback, and requests that break off *)

\* main.py rollback: the backup, if there is one, is copied over the source.
Rollback(r, a) ==
  /\ backup[a] # NoBackup
  /\ Begin(r, [Idle EXCEPT !.at = "restore", !.file = a])
  /\ source' = [source EXCEPT ![a] = Torn]
  /\ disturbed' = disturbed \cup {a}
  /\ UNCHANGED <<stage, backup, approved, cleared>>

Restore(r) ==
  /\ job[r].at = "restore"
  /\ source' = [source EXCEPT ![job[r].file] = backup[job[r].file]]
  /\ Goto(r, Idle)
  /\ UNCHANGED <<stage, backup, approved, cleared, disturbed>>

\* An exception becomes an error response, and a process can be killed:
\* either way the request ends where it is, and nothing is undone.
BreakOff(r) ==
  /\ job[r].at # "idle"
  /\ Goto(r, Idle)
  /\ UNCHANGED <<stage, source, backup, approved, cleared, disturbed>>

Next ==
  \E r \in Requests :
    \/ Send(r) \/ Save(r)
    \/ \E f \in Findings, yes \in BOOLEAN : Approve(r, f, yes)
    \/ \E yes \in BOOLEAN : Secure(r, yes)
    \/ Select(r)
    \/ \E a \in Files : ReadSource(r, a)
    \/ BackupOpen(r) \/ BackupCopy(r) \/ SourceOpen(r) \/ SourceWrite(r)
    \/ TestGet(r) \/ Scan(r)
    \/ LoadTest(r) \/ SaveTest(r) \/ LoadFinal(r)
    \/ \E a \in Files : Rollback(r, a)
    \/ Restore(r) \/ BreakOff(r)

Spec == Init /\ [][Next]_vars

-----------------------------------------------------------------------------
(* Properties *)

\* Every variable has its type.
TypeOK ==
  /\ stage \in [Findings -> Stages]
  /\ source \in [Files -> {Torn} \cup Texts]
  /\ backup \in [Files -> {Torn, NoBackup} \cup Texts]
  /\ job \in [Requests -> Jobs]
  /\ approved \in Texts
  /\ cleared \in Texts
  /\ disturbed \in SUBSET Files

\* "verified is set only when a genuine re-test shows the original rule no
\* longer fires" (developer_handoff.py:17-19): whatever requests run at once
\* and wherever they break off, an item the file calls verified has passed a
\* scan of its own.
VerifiedWasTested ==
  \A f \in Findings : stage[f] = "verified" => f \in cleared

\* The findings that were approved, or a twin of theirs was.
Covered == {f \in Findings : Twins(f) \cap approved # {}}

\* "Approval is a real gate" (developer_handoff.py:15), but one for code and not
\* for lines: no source file, no backup that a rollback would bring back and no
\* patch about to be written holds a change for a finding unless somebody
\* approved its remediation, or that of a twin, in whose place it was changed.
ChangesAreApproved ==
  /\ \A a \in Files : source[a] # Torn => source[a] \subseteq Covered
  /\ \A a \in Files : backup[a] \notin {Torn, NoBackup} => backup[a] \subseteq Covered
  /\ \A r \in Requests : job[r].text \subseteq Covered

\* As long as its files were not rolled back and never worked on by two
\* requests at once, a verified finding is gone, and with it every finding of
\* its rule in files of that name, whatever else is approved, sent again or
\* broken off.
VerifiedIsFixed ==
  \A f, g \in Findings :
    (stage[f] = "verified" /\ Kind[g] = Kind[f] /\ FileOf[g] \notin disturbed)
      => ~ Fires(g)

\* workflow.py:136-146: a request that breaks off between the truncation of a
\* source file and the write leaves a backup with a whole text.
NothingIsLost ==
  \A a \in Files \ disturbed : source[a] = Torn => backup[a] \notin {Torn, NoBackup}
=============================================================================
