--------------------------- MODULE MemoryConnector ---------------------------
(***************************************************************************)
(* Memory connectors of ecc2: a sync imports the records of files that     *)
(* others write, and remembers of each the signature (length and time of   *)
(* change) it had, to pass the file over while that stays the same.        *)
(*                                                                         *)
(* A file is written over in place or replaced by another of its name; a   *)
(* reader that holds it open sees the first and not the second.  What      *)
(* becomes of an imported record is ContextMemory's; a record that cannot  *)
(* be used counts as imported.                                             *)
(***************************************************************************)
EXTENDS Naturals, Sequences, FiniteSets

CONSTANTS
  Processes,
  Kinds,      \* of the connectors to consider
  Files,      \* 1..n, in the order of their paths
  Records,
  Limit,      \* records a sync may read
  MaxRecords, \* bound: records of a file
  MaxChanges, \* bound: changes of files
  Failures    \* whether a sync may end with an error, or be killed

AllKinds == {"jsonl_file", "jsonl_directory", "markdown", "dotenv_file"}

Inodes == 1..(Cardinality(Files) + MaxChanges)
Contents == UNION {[1..n -> Records] : n \in 0..MaxRecords}

VARIABLES
  kind,
  inode,    \* the file that each path names
  lines,    \* what is in it
  time,     \* the signature of each path, a new one with every change
  imported, \* the records that came in, and of which file
  check,    \* the signature remembered of each file, 0 for none
  op        \* what each process is doing

vars == <<kind, inode, lines, time, imported, check, op>>
files == <<kind, inode, lines, time>>

Idle ==
  [at |-> "idle", file |-> 1, left |-> Limit,
   signature |-> 0,
   inode |-> 1, body |-> <<>>, \* the file as it was opened
   read |-> 0]                 \* records read of it

Init ==
  /\ kind \in Kinds
  /\ inode = [f \in Files |-> f]
  /\ lines \in [Inodes -> Contents]
  /\ \A i \in Inodes \ Files : lines[i] = <<>>
  /\ time = [f \in Files |-> 1]
  /\ imported = {} /\ check = [f \in Files |-> 0]
  /\ op = [p \in Processes |-> Idle]

At(p, l) == op[p].at = l
Go(p, o) == op' = [op EXCEPT ![p] = o]
Path(p) == op[p].file

\* Whether the file is opened, or read, before its signature is taken.
OpensFirst == kind \in {"jsonl_file", "dotenv_file"}
\* Whether it is read line by line, or as a whole when it is opened.
Streams == kind \in {"jsonl_file", "jsonl_directory"}

Source(p) == IF Streams THEN lines[op[p].inode] ELSE op[p].body

Changes == Cardinality({c \in Files \X (2..(MaxChanges + 1)) : c[2] <= time[c[1]]})

WriteOver(f, c) ==
  /\ Changes < MaxChanges /\ c # lines[inode[f]]
  /\ lines' = [lines EXCEPT ![inode[f]] = c] /\ time' = [time EXCEPT ![f] = @ + 1]
  /\ UNCHANGED <<kind, inode, imported, check, op>>

Replace(f, c) ==
  LET new == Cardinality(Files) + Changes + 1 IN
  /\ Changes < MaxChanges
  /\ lines' = [lines EXCEPT ![new] = c] /\ inode' = [inode EXCEPT ![f] = new]
  /\ time' = [time EXCEPT ![f] = @ + 1]
  /\ UNCHANGED <<kind, imported, check, op>>

(***************************************************************************)
(* The sync of one connector.                                              *)
(***************************************************************************)
Start(o) == [o EXCEPT !.at = IF OpensFirst THEN "open" ELSE "sign", !.read = 0]

Begin(p) ==
  /\ At(p, "idle") /\ Limit > 0
  /\ Go(p, Start(Idle))
  /\ UNCHANGED <<files, imported, check>>

Open(p) ==
  /\ At(p, "open")
  /\ Go(p, [op[p] EXCEPT !.at = IF OpensFirst THEN "sign" ELSE "read",
              !.inode = inode[Path(p)], !.body = lines[inode[Path(p)]]])
  /\ UNCHANGED <<files, imported, check>>

Sign(p) ==
  /\ At(p, "sign")
  /\ Go(p, [op[p] EXCEPT !.at = "compare", !.signature = time[Path(p)]])
  /\ UNCHANGED <<files, imported, check>>

\* On to the next file, when there is one and something may still be read.
Advance(p, left) ==
  Go(p, IF Path(p) + 1 \in Files /\ left > 0
        THEN Start([op[p] EXCEPT !.file = @ + 1, !.left = left]) ELSE Idle)

Compare(p) ==
  /\ At(p, "compare")
  /\ IF check[Path(p)] = op[p].signature
     THEN Advance(p, op[p].left)
     ELSE Go(p, [op[p] EXCEPT !.at = IF OpensFirst THEN "read" ELSE "open"])
  /\ UNCHANGED <<files, imported, check>>

\* Mutant: no limit.
AllToRead(p) == op[p].read < Len(Source(p))
MoreToRead(p) == op[p].read < op[p].left /\ op[p].read < Len(Source(p))

ImportRecord(p) ==
  /\ At(p, "read") /\ MoreToRead(p)
  /\ imported' = imported \cup {<<Path(p), Source(p)[op[p].read + 1]>>}
  /\ Go(p, [op[p] EXCEPT !.read = @ + 1])
  /\ UNCHANGED <<files, check>>

\* Mutant: the signature is that of the file after it was read.
CheckpointLate(p) ==
  /\ At(p, "read") /\ ~MoreToRead(p)
  /\ check' = IF op[p].read < op[p].left
              THEN [check EXCEPT ![Path(p)] = time[Path(p)]] ELSE check
  /\ Advance(p, op[p].left - op[p].read)
  /\ UNCHANGED <<files, imported>>

Checkpoint(p) ==
  /\ At(p, "read") /\ ~MoreToRead(p)
  /\ check' = IF op[p].read < op[p].left
              THEN [check EXCEPT ![Path(p)] = op[p].signature] ELSE check
  /\ Advance(p, op[p].left - op[p].read)
  /\ UNCHANGED <<files, imported>>

\* A record is refused by the store, a file is gone, or the process is killed.
Fail(p) ==
  /\ Failures /\ ~At(p, "idle")
  /\ Go(p, Idle)
  /\ UNCHANGED <<files, imported, check>>

Step(p) ==
  Begin(p) \/ Open(p) \/ Sign(p) \/ Compare(p) \/ ImportRecord(p) \/ Checkpoint(p)

Next ==
  \/ \E f \in Files, c \in Contents : WriteOver(f, c) \/ Replace(f, c)
  \/ \E p \in Processes : Step(p) \/ Fail(p)

Spec == Init /\ [][Next]_vars

\* Somebody syncs again and again.
FairSpec == Spec /\ \A p \in Processes : WF_vars(Step(p))

-----------------------------------------------------------------------------
\* No sync reads more than its limit.
TypeOK ==
  /\ kind \in Kinds
  /\ inode \in [Files -> Inodes] /\ lines \in [Inodes -> Contents]
  /\ time \in [Files -> 1..(MaxChanges + 1)]
  /\ imported \subseteq Files \X Records
  /\ check \in [Files -> 0..(MaxChanges + 1)]
  /\ op \in [Processes ->
       [at : {"idle", "open", "sign", "compare", "read"}, file : Files, left : 0..Limit,
        signature : 0..(MaxChanges + 1), inode : Inodes, body : Contents,
        read : 0..Limit]]
  /\ \A p \in Processes : op[p].read <= op[p].left

Within(f) == {<<f, lines[inode[f]][i]>> : i \in DOMAIN lines[inode[f]]}

\* A file that the next sync would pass over has come in as it is now, however it
\* was written to while it was read.
CheckpointMeansImported ==
  \A f \in Files : check[f] = time[f] => Within(f) \subseteq imported

\* What repeated syncs come to, though each reads no more than the limit over all
\* files and starts with the same one: every file is in that is shorter than the
\* limit.
EveryFileIsIn == \A f \in Files : Within(f) \subseteq imported
=============================================================================
