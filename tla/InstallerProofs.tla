--------------------------- MODULE InstallerProofs ---------------------------
(***************************************************************************)
(* Proofs about Installer, for any runtimes and versions and any number of *)
(* attempts and failures: the original runtime survives, an installation   *)
(* that fails rolls back, a registered frontend stays restorable, and a    *)
(* restoration is exact.                                                   *)
(*                                                                         *)
(* An Effect lemma per operation says where the process goes and which     *)
(* parts of the folder change.  The invariants relate the step the process *)
(* is at to what is where in the folder; each is preserved by every        *)
(* operation.  Types is needed by all, RollbackInv by RestorableInv, and   *)
(* all three by ExactInv.                                                  *)
(***************************************************************************)
EXTENDS Installer, TLAPS

-----------------------------------------------------------------------------
(* Types. *)

Forward ==
  {"backUp", "helperAway", "helperIn", "helperBack", "writeBackup", "publish",
   "select", "wineAway", "wineIn", "wineBack", "activate", "complete", "installed"}
Rollback ==
  {"undoWine", "undoMove", "undoSelection", "dropBackups", "undoFront", "undoHelper"}
Restoring ==
  {"restoreFront", "restoreSelection", "restoreAway", "restoreIn", "restoreBack",
   "restoreDrop", "removeHelper", "removeBackups", "restored"}

Steps == Forward \cup Rollback \cup Restoring \cup {"idle", "failed"}
Run ==
  [at : Steps,
   file : Files, op : {"none", "install", "restore"},
   result : {"none", "installed", "restored", "failed", "crashed"},
   faults : 0..MaxFaults, previous : Disk \cup {None},
   oldHelper : (SUBSET Versions) \cup {None}, created : SUBSET Files,
   selection : [Files -> Content] \cup {None}, hadBak : BOOLEAN]

Saved == [wine : Directory, sel : [Files -> Content]]
Past ==
  [saved : Saved \cup {None},
   mixed : BOOLEAN, original : Directory, broken : BOOLEAN, attempts : Nat]

OfInstall == run.at \in Forward \cup Rollback => run.op = "install"
OfRestore == run.at \in Restoring => run.op = "restore"
Begun == run.at # "idle" => run.op # "none"
Remembered ==
  /\ run.op # "none" => run.previous \in Disk
  /\ run.at \in {"wineAway", "wineIn", "wineBack", "activate", "complete",
                 "undoWine", "undoMove", "undoSelection"} =>
       run.selection \in [Files -> Content]

CreatedThere ==
  run.at \in (Forward \ {"installed"})
             \cup {"undoWine", "undoMove", "undoSelection", "dropBackups"} =>
    \A f \in run.created :
      \/ disk.selBak[f] # Absent
      \/ run.at = "dropBackups" /\ run.file = "state" /\ f = "tag"

HelperThere ==
  run.at \in {"writeBackup", "publish", "select", "wineAway", "wineIn", "wineBack",
             "activate", "complete", "installed"} =>
    disk.helper # None

Types ==
  /\ disk \in Disk
  /\ run \in Run
  /\ past \in Past
  /\ OfInstall
  /\ OfRestore
  /\ Begun
  /\ Remembered
  /\ CreatedThere
  /\ HelperThere

USE NamesAssumption, BoundAssumption

(* A process that differs from another in where it is only. *)
Moved(r, s) ==
  /\ r \in Run
  /\ r.op = s.op /\ r.result = s.result /\ r.previous = s.previous
  /\ r.oldHelper = s.oldHelper /\ r.created = s.created
  /\ r.selection = s.selection /\ r.hadBak = s.hadBak

(* Going to a step changes where the process is, and nothing else. *)
LEMMA GoingFacts ==
  ASSUME run \in Run, NEW h \in Steps
  PROVE  /\ Moved(Going(h), run)
         /\ Going(h).at = h /\ Going(h).file = "tag"
         /\ Going(h).faults = run.faults
BY DEF Going, Run, Files, Moved

(* Counting a failure changes nothing else. *)
LEMMA FaultFacts ==
  ASSUME run \in Run, NEW r \in Run, Moved(r, run), r.faults < MaxFaults
  PROVE  LET s == [r EXCEPT !.faults = @ + 1]
         IN /\ Moved(s, run)
            /\ s.at = r.at /\ s.file = r.file
            /\ s.faults = r.faults + 1
BY DEF Run, Moved

(* Going to the second file changes nothing else. *)
LEMMA FileFacts ==
  ASSUME run \in Run
  PROVE  LET s == [run EXCEPT !.file = "state"]
         IN /\ Moved(s, run)
            /\ s.at = run.at /\ s.file = "state"
            /\ s.faults = run.faults
BY DEF Run, Moved, Files

(* An operation that works takes the process to the next step. *)
LEMMA Goes ==
  ASSUME run \in Run, NEW a, NEW d, NEW h \in Steps, Works(a, d, Going(h))
  PROVE  /\ run.at = a /\ disk' = d /\ past' = past
         /\ Moved(run', run) /\ run'.at = h /\ run'.file = "tag"
         /\ run'.faults = run.faults
BY GoingFacts DEF Works

(* In a loop over the files it takes it to the next file, or out of the loop. *)
LEMMA GoesOn ==
  ASSUME run \in Run, NEW a, NEW d, NEW h \in Steps, Works(a, d, NextFile(h))
  PROVE  /\ run.at = a /\ disk' = d /\ past' = past
         /\ Moved(run', run)
         /\ \/ run.file = "tag" /\ run'.at = a /\ run'.file = "state"
            \/ run.file = "state" /\ run'.at = h /\ run'.file = "tag"
         /\ run'.faults = run.faults
<1>1. run.file \in {"tag", "state"}
  BY DEF Run, Files
<1> QED BY <1>1, GoingFacts, FileFacts DEF Works, NextFile

(* An operation that throws takes the process to the handler, and is counted. *)
LEMMA Fails ==
  ASSUME run \in Run, NEW a, NEW d, NEW h \in Steps, Throws(a, d, h)
  PROVE  /\ run.at = a /\ disk' = d /\ past' = past
         /\ Moved(run', run) /\ run'.at = h /\ run'.file = "tag"
         /\ run'.faults = run.faults + 1
<1>1. Going(h) \in Run
  BY GoingFacts DEF Moved
<1> QED BY <1>1, GoingFacts, FaultFacts DEF Works, Throws

(* A backup file is made, and recorded as made. *)
LEMMA Records ==
  ASSUME run \in Run, NEW a, NEW d, NEW h \in Steps, NEW f \in Files,
         Works(a, d, [NextFile(h) EXCEPT !.created = @ \cup {f}])
  PROVE  /\ run.at = a /\ disk' = d /\ past' = past /\ run' \in Run
         /\ \/ run.file = "tag" /\ run'.at = a /\ run'.file = "state"
            \/ run.file = "state" /\ run'.at = h /\ run'.file = "tag"
         /\ run'.faults = run.faults
         /\ run'.op = run.op /\ run'.result = run.result
         /\ run'.previous = run.previous /\ run'.oldHelper = run.oldHelper
         /\ run'.created = run.created \cup {f}
         /\ run'.selection = run.selection /\ run'.hadBak = run.hadBak
<1> DEFINE n == NextFile(h)
<1>1. /\ Moved(n, run) /\ n.faults = run.faults
      /\ \/ run.file = "tag" /\ n.at = run.at /\ n.file = "state"
         \/ run.file = "state" /\ n.at = h /\ n.file = "tag"
  <2>1. run.file \in {"tag", "state"}
    BY DEF Run, Files
  <2> QED BY <2>1, GoingFacts, FileFacts DEF NextFile
<1>2. n \in Run
  BY <1>1 DEF Moved
<1>3. run.at = a /\ disk' = d /\ past' = past
      /\ run' = [n EXCEPT !.created = @ \cup {f}]
  BY DEF Works
<1> HIDE DEF n
<1> QED BY <1>1, <1>2, <1>3 DEF Moved, Run

(* The process goes to a step and remembers something in one field. *)
LEMMA Remembers ==
  ASSUME run \in Run, NEW h \in Steps
  PROVE  /\ \A x \in (SUBSET Versions) \cup {None} :
              LET r == [Going(h) EXCEPT !.oldHelper = x]
              IN /\ r \in Run /\ r.at = h /\ r.file = "tag" /\ r.faults = run.faults
                 /\ r.op = run.op /\ r.result = run.result /\ r.previous = run.previous
                 /\ r.oldHelper = x /\ r.created = run.created
                 /\ r.selection = run.selection /\ r.hadBak = run.hadBak
         /\ \A x \in [Files -> Content] :
              LET r == [Going(h) EXCEPT !.selection = x]
              IN /\ r \in Run /\ r.at = h /\ r.file = "tag" /\ r.faults = run.faults
                 /\ r.op = run.op /\ r.result = run.result /\ r.previous = run.previous
                 /\ r.oldHelper = run.oldHelper /\ r.created = run.created
                 /\ r.selection = x /\ r.hadBak = run.hadBak
         /\ \A x \in BOOLEAN :
              LET r == [Going(h) EXCEPT !.hadBak = x]
              IN /\ r \in Run /\ r.at = h /\ r.file = "tag" /\ r.faults = run.faults
                 /\ r.op = run.op /\ r.result = run.result /\ r.previous = run.previous
                 /\ r.oldHelper = run.oldHelper /\ r.created = run.created
                 /\ r.selection = run.selection /\ r.hadBak = x
<1> DEFINE g == Going(h)
<1>1. g \in Run /\ Moved(g, run) /\ g.at = h /\ g.file = "tag" /\ g.faults = run.faults
  BY GoingFacts DEF Moved
<1> HIDE DEF g
<1>2. \A x \in (SUBSET Versions) \cup {None} :
        LET r == [g EXCEPT !.oldHelper = x]
        IN /\ r \in Run /\ r.at = h /\ r.file = "tag" /\ r.faults = run.faults
           /\ r.op = run.op /\ r.result = run.result /\ r.previous = run.previous
           /\ r.oldHelper = x /\ r.created = run.created
           /\ r.selection = run.selection /\ r.hadBak = run.hadBak
  BY <1>1 DEF Moved, Run
<1>3. \A x \in [Files -> Content] :
        LET r == [g EXCEPT !.selection = x]
        IN /\ r \in Run /\ r.at = h /\ r.file = "tag" /\ r.faults = run.faults
           /\ r.op = run.op /\ r.result = run.result /\ r.previous = run.previous
           /\ r.oldHelper = run.oldHelper /\ r.created = run.created
           /\ r.selection = x /\ r.hadBak = run.hadBak
  BY <1>1 DEF Moved, Run
<1>4. \A x \in BOOLEAN :
        LET r == [g EXCEPT !.hadBak = x]
        IN /\ r \in Run /\ r.at = h /\ r.file = "tag" /\ r.faults = run.faults
           /\ r.op = run.op /\ r.result = run.result /\ r.previous = run.previous
           /\ r.oldHelper = run.oldHelper /\ r.created = run.created
           /\ r.selection = run.selection /\ r.hadBak = x
  BY <1>1 DEF Moved, Run
<1> QED BY <1>2, <1>3, <1>4 DEF g

(* DropBackups goes on whether or not it has worked. *)
LEMMA GoesOnFailed ==
  ASSUME run \in Run, NEW a, NEW d, NEW h \in Steps, run.faults < MaxFaults,
         Works(a, d, [NextFile(h) EXCEPT !.faults = @ + 1])
  PROVE  /\ run.at = a /\ disk' = d /\ past' = past
         /\ Moved(run', run)
         /\ \/ run.file = "tag" /\ run'.at = a /\ run'.file = "state"
            \/ run.file = "state" /\ run'.at = h /\ run'.file = "tag"
         /\ run'.faults = run.faults + 1
<1> DEFINE n == NextFile(h)
<1>1. /\ Moved(n, run) /\ n.faults = run.faults
      /\ \/ run.file = "tag" /\ n.at = run.at /\ n.file = "state"
         \/ run.file = "state" /\ n.at = h /\ n.file = "tag"
  <2>1. run.file \in {"tag", "state"}
    BY DEF Run, Files
  <2> QED BY <2>1, GoingFacts, FileFacts DEF NextFile
<1>2. n \in Run
  BY <1>1 DEF Moved
<1> HIDE DEF n
<1>3. Works(a, d, [n EXCEPT !.faults = @ + 1])
  BY DEF n
<1> QED BY <1>1, <1>2, <1>3, FaultFacts DEF Works

(* The names are in the sets they are to be in. *)
LEMMA NamesFacts ==
  /\ None \in Directory /\ Ours \in Directory /\ "damaged" \in Directory
  /\ None \in Content /\ Ours \in Content /\ "ready" \in Content
  /\ Absent \notin Content
  /\ "tag" \in Files /\ "state" \in Files
BY DEF Directory, Content, Files

(* What the process remembers. *)
LEMMA RunFacts ==
  ASSUME run \in Run
  PROVE  /\ run.at \in Steps /\ run.file \in Files /\ run.faults \in Nat
         /\ run.created \subseteq Files /\ run.hadBak \in BOOLEAN
         /\ run.oldHelper \in (SUBSET Versions) \cup {None}
BY DEF Run

(* A folder with another selection or another backup of it. *)
SameButSelection(d, e) ==
  /\ d \in Disk
  /\ d.wine = e.wine /\ d.bak = e.bak /\ d.aside = e.aside /\ d.orphans = e.orphans
  /\ d.version = e.version /\ d.registered = e.registered /\ d.helper = e.helper

(* The selection of one file changes. *)
LEMMA SelectionFacts ==
  ASSUME disk \in Disk, NEW f \in Files, NEW c \in Content
  PROVE  LET d == [disk EXCEPT !.sel[f] = c]
         IN /\ SameButSelection(d, disk)
            /\ d.sel = [disk.sel EXCEPT ![f] = c]
            /\ d.selBak = disk.selBak
BY DEF Disk, SameButSelection

(* The backup of one file changes. *)
LEMMA BackupFacts ==
  ASSUME disk \in Disk, NEW f \in Files, NEW c \in Content \cup {Absent}
  PROVE  LET d == [disk EXCEPT !.selBak[f] = c]
         IN /\ SameButSelection(d, disk)
            /\ d.sel = disk.sel
            /\ d.selBak = [disk.selBak EXCEPT ![f] = c]
BY DEF Disk, SameButSelection

(* The steps of the installation that change the selection or its backup. *)
LEMMA BackUpEffect ==
  ASSUME Types, BackUp
  PROVE  /\ run.at = "backUp" /\ past' = past /\ run' \in Run
         /\ SameButSelection(disk', disk) /\ disk'.sel = disk.sel
         /\ run'.op = run.op /\ run'.result = run.result
         /\ run'.previous = run.previous
         /\ \/ /\ run.file = "tag" /\ run'.at = "backUp" /\ run'.file = "state"
               /\ run'.faults = run.faults
            \/ /\ run.file = "state" /\ run'.at = "helperAway" /\ run'.file = "tag"
               /\ run'.faults = run.faults
            \/ /\ run'.at = "failed" /\ run'.faults = run.faults + 1
         /\ \/ /\ disk.selBak[run.file] = Absent
               /\ run'.at # "failed"
               /\ disk'.selBak = [disk.selBak EXCEPT ![run.file] = disk.sel[run.file]]
               /\ run'.created = run.created \cup {run.file}
            \/ /\ disk.selBak[run.file] # Absent \/ run'.at = "failed"
               /\ disk' = disk /\ run'.created = run.created
<1> DEFINE f == run.file
<1>0. /\ run \in Run /\ disk \in Disk /\ f \in Files
      /\ disk.sel[f] \in Content
      /\ "helperAway" \in Steps /\ "failed" \in Steps
  BY RunFacts DEF Types, Disk, Steps, Forward
<1>1. CASE /\ Missing(f)
           /\ Works("backUp", [disk EXCEPT !.selBak[f] = disk.sel[f]],
                 [NextFile("helperAway") EXCEPT !.created = @ \cup {f}])
  <2> DEFINE d == [disk EXCEPT !.selBak[f] = disk.sel[f]]
  <2>1. /\ SameButSelection(d, disk) /\ d.sel = disk.sel
        /\ d.selBak = [disk.selBak EXCEPT ![f] = disk.sel[f]]
    BY <1>0, BackupFacts
  <2> HIDE DEF d
  <2>2. Works("backUp", d, [NextFile("helperAway") EXCEPT !.created = @ \cup {f}])
    BY <1>1 DEF d
  <2>3. /\ run.at = "backUp" /\ disk' = d /\ past' = past /\ run' \in Run
        /\ \/ run.file = "tag" /\ run'.at = "backUp" /\ run'.file = "state"
           \/ run.file = "state" /\ run'.at = "helperAway" /\ run'.file = "tag"
        /\ run'.faults = run.faults
        /\ run'.op = run.op /\ run'.result = run.result
        /\ run'.previous = run.previous
        /\ run'.created = run.created \cup {f}
    BY <1>0, <2>2, Records, Zenon
  <2>4. disk.selBak[f] = Absent
    BY <1>1 DEF Missing
  <2> QED BY <2>1, <2>3, <2>4
<1>2. CASE ~Missing(f) /\ Works("backUp", disk, NextFile("helperAway"))
  BY <1>0, <1>2, GoesOn DEF Missing, Moved, SameButSelection
<1>3. CASE Missing(f) /\ Throws("backUp", disk, "failed")
  BY <1>0, <1>3, Fails DEF Missing, Moved, SameButSelection
<1> QED BY <1>1, <1>2, <1>3 DEF BackUp

(* activateRegisteredRuntime, file by file. *)
LEMMA ActivateEffect ==
  ASSUME Types, Activate
  PROVE  /\ run.at = "activate" /\ past' = past /\ Moved(run', run)
         /\ SameButSelection(disk', disk) /\ disk'.selBak = disk.selBak
         /\ \/ /\ run.file = "tag" /\ run'.at = "activate" /\ run'.file = "state"
               /\ run'.faults = run.faults
            \/ /\ run.file = "state" /\ run'.at = "complete" /\ run'.file = "tag"
               /\ run'.faults = run.faults
            \/ /\ run'.at = "undoWine" /\ run'.faults = run.faults + 1
<1> DEFINE f == run.file
           c == IF f = "tag" THEN Ours ELSE "ready"
<1>0. /\ run \in Run /\ disk \in Disk /\ f \in Files /\ c \in Content
      /\ "complete" \in Steps /\ "undoWine" \in Steps
  BY RunFacts, NamesFacts DEF Types, Steps, Forward, Rollback
<1>1. CASE Works("activate", [disk EXCEPT !.sel[f] = c], NextFile("complete"))
  <2>1. disk' = [disk EXCEPT !.sel[f] = c]
    BY <1>0, <1>1, GoesOn
  <2> HIDE DEF c
  <2> QED BY <1>0, <1>1, <2>1, GoesOn, SelectionFacts
<1>2. CASE Throws("activate", disk, "undoWine")
  BY <1>0, <1>2, Fails DEF SameButSelection
<1> QED BY <1>1, <1>2 DEF Activate

(* restoreActiveWineSelection, file by file. *)
LEMMA UndoSelectionEffect ==
  ASSUME Types, UndoSelection
  PROVE  /\ run.at = "undoSelection" /\ past' = past /\ Moved(run', run)
         /\ SameButSelection(disk', disk) /\ disk'.selBak = disk.selBak
         /\ \/ /\ \/ run.file = "tag" /\ run'.at = "undoSelection" /\ run'.file = "state"
                  \/ run.file = "state" /\ run'.at = "dropBackups" /\ run'.file = "tag"
               /\ run'.faults = run.faults
               /\ disk'.sel = [disk.sel EXCEPT ![run.file] = run.selection[run.file]]
            \/ /\ run'.at = "dropBackups" /\ run'.file = "tag"
               /\ run'.faults = run.faults + 1
<1> DEFINE f == run.file
<1>0. /\ run \in Run /\ disk \in Disk /\ f \in Files
      /\ disk.sel[f] \in Content /\ None \in Content
      /\ "dropBackups" \in Steps
  BY RunFacts, NamesFacts DEF Types, Disk, Steps, Rollback
<1>1. CASE Works("undoSelection", UndoneSelection, NextFile("dropBackups"))
  <2>1. run.selection[f] \in Content
    BY <1>0, <1>1, GoesOn DEF Types, Remembered
  <2> DEFINE d == [disk EXCEPT !.sel[f] = run.selection[f]]
  <2>2. /\ SameButSelection(d, disk) /\ d.selBak = disk.selBak
        /\ d.sel = [disk.sel EXCEPT ![f] = run.selection[f]]
    BY <1>0, <2>1, SelectionFacts
  <2> HIDE DEF d
  <2>3. Works("undoSelection", d, NextFile("dropBackups"))
    BY <1>1 DEF d, UndoneSelection
  <2> QED BY <1>0, <2>2, <2>3, GoesOn
<1>2. ASSUME NEW c \in {disk.sel[f], None},
             Throws("undoSelection", [disk EXCEPT !.sel[f] = c], "dropBackups")
      PROVE  /\ run.at = "undoSelection" /\ past' = past /\ Moved(run', run)
             /\ SameButSelection(disk', disk) /\ disk'.selBak = disk.selBak
             /\ run'.at = "dropBackups" /\ run'.file = "tag"
             /\ run'.faults = run.faults + 1
  <2> DEFINE d == [disk EXCEPT !.sel[f] = c]
  <2>1. SameButSelection(d, disk) /\ d.selBak = disk.selBak
    BY <1>0, SelectionFacts
  <2> HIDE DEF d
  <2>2. Throws("undoSelection", d, "dropBackups")
    BY <1>2 DEF d
  <2> QED BY <1>0, <2>1, <2>2, Fails
<1> QED BY <1>1, <1>2 DEF UndoSelection

(* restoreNewlyCreatedBackups: only backups this attempt made are used up. *)
LEMMA DropBackupsEffect ==
  ASSUME Types, DropBackups
  PROVE  /\ run.at = "dropBackups" /\ past' = past /\ Moved(run', run)
         /\ SameButSelection(disk', disk)
         /\ \/ run.file = "tag" /\ run'.at = "dropBackups" /\ run'.file = "state"
            \/ run.file = "state" /\ run'.at = "undoFront" /\ run'.file = "tag"
         /\ \A g \in Files \ {run.file} : disk'.sel[g] = disk.sel[g]
                                          /\ disk'.selBak[g] = disk.selBak[g]
         /\ \/ run.file \notin run.created /\ disk' = disk /\ run'.faults = run.faults
            \/ /\ run.file \in run.created /\ run'.faults = run.faults
               /\ disk'.sel = [disk.sel EXCEPT ![run.file] = disk.selBak[run.file]]
            \/ run.file \in run.created /\ run'.faults = run.faults + 1
<1> DEFINE f == run.file
<1>0. /\ run \in Run /\ disk \in Disk /\ f \in Files
      /\ disk.sel[f] \in Content /\ None \in Content
      /\ disk.sel \in [Files -> Content]
      /\ disk.selBak \in [Files -> Content \cup {Absent}]
      /\ "undoFront" \in Steps
  BY RunFacts, NamesFacts DEF Types, Disk, Steps, Rollback
<1>1. CASE f \notin run.created /\ Works("dropBackups", disk, NextFile("undoFront"))
  BY <1>0, <1>1, GoesOn DEF SameButSelection
<1>2. run.at = "dropBackups" /\ f \in run.created => disk.selBak[f] \in Content
  BY <1>0, RunFacts DEF Types, CreatedThere, Files
<1>3. CASE /\ f \in run.created
           /\ Works("dropBackups",
                    [disk EXCEPT !.sel[f] = disk.selBak[f], !.selBak[f] = Absent],
                    NextFile("undoFront"))
  <2> DEFINE d == [disk EXCEPT !.sel[f] = disk.selBak[f], !.selBak[f] = Absent]
  <2>1. run.at = "dropBackups"
    BY <1>3 DEF Works
  <2>2. /\ SameButSelection(d, disk)
        /\ d.sel = [disk.sel EXCEPT ![f] = disk.selBak[f]]
        /\ d.selBak = [disk.selBak EXCEPT ![f] = Absent]
    <3>1. disk.selBak[f] \in Content /\ Absent \in Content \cup {Absent}
      BY <1>2, <1>3, <2>1
    <3>2. disk \in Disk /\ f \in Files
      BY <1>0
    <3> QED BY <3>1, <3>2 DEF Disk, SameButSelection
  <2> HIDE DEF d
  <2>3. Works("dropBackups", d, NextFile("undoFront"))
    BY <1>3 DEF d
  <2> QED BY <1>0, <1>3, <2>2, <2>3, GoesOn
<1>4. CASE /\ f \in run.created
           /\ run.faults < MaxFaults
           /\ \E d \in {[disk EXCEPT !.sel[f] = None, !.selBak[f] = Absent],
                        [disk EXCEPT !.selBak[f] = Absent],
                        [disk EXCEPT !.sel[f] = disk.selBak[f]]} :
                Works("dropBackups", d, [NextFile("undoFront") EXCEPT !.faults = @ + 1])
  <2>1. PICK d \in {[disk EXCEPT !.sel[f] = None, !.selBak[f] = Absent],
                    [disk EXCEPT !.selBak[f] = Absent],
                    [disk EXCEPT !.sel[f] = disk.selBak[f]]} :
          Works("dropBackups", d, [NextFile("undoFront") EXCEPT !.faults = @ + 1])
    BY <1>4
  <2>2. /\ run.at = "dropBackups" /\ past' = past /\ Moved(run', run) /\ disk' = d
        /\ \/ run.file = "tag" /\ run'.at = "dropBackups" /\ run'.file = "state"
           \/ run.file = "state" /\ run'.at = "undoFront" /\ run'.file = "tag"
        /\ run'.faults = run.faults + 1
    BY <1>0, <1>4, <2>1, GoesOnFailed
  <2>3. CASE d = [disk EXCEPT !.sel[f] = None, !.selBak[f] = Absent]
    <3>1. /\ SameButSelection(d, disk)
          /\ d.sel = [disk.sel EXCEPT ![f] = None]
          /\ d.selBak = [disk.selBak EXCEPT ![f] = Absent]
      <4>1. None \in Content /\ Absent \in Content \cup {Absent}
        BY <1>0
      <4>2. disk \in Disk /\ f \in Files
        BY <1>0
      <4> QED BY <2>3, <4>1, <4>2 DEF Disk, SameButSelection
    <3> QED BY <1>0, <1>4, <2>2, <3>1
  <2>4. CASE d = [disk EXCEPT !.selBak[f] = Absent]
    BY <1>0, <1>4, <2>2, <2>4, BackupFacts
  <2>5. CASE d = [disk EXCEPT !.sel[f] = disk.selBak[f]]
    BY <1>0, <1>2, <1>4, <2>2, <2>5, SelectionFacts
  <2> QED BY <2>1, <2>3, <2>4, <2>5
<1> QED BY <1>1, <1>3, <1>4 DEF DropBackups

(* The ones of the restoration. *)
LEMMA RestoreSelectionEffect ==
  ASSUME Types, RestoreSelection
  PROVE  /\ run.at = "restoreSelection" /\ past' = past /\ Moved(run', run)
         /\ SameButSelection(disk', disk) /\ disk'.selBak = disk.selBak
         /\ \/ /\ \/ run.file = "tag" /\ run'.at = "restoreSelection" /\ run'.file = "state"
                  \/ run.file = "state" /\ run'.at = "restoreAway" /\ run'.file = "tag"
               /\ run'.faults = run.faults
               /\ disk'.sel = [disk.sel EXCEPT ![run.file] =
                                 IF disk.selBak[run.file] = Absent THEN @
                                 ELSE disk.selBak[run.file]]
            \/ run'.at = "failed" /\ run'.faults = run.faults + 1
<1> DEFINE f == run.file
           b == IF disk.selBak[f] = Absent THEN disk.sel[f] ELSE disk.selBak[f]
<1>0. /\ run \in Run /\ disk \in Disk /\ f \in Files
      /\ disk.sel[f] \in Content /\ None \in Content
      /\ b \in Content
      /\ "restoreAway" \in Steps /\ "failed" \in Steps
  BY RunFacts, NamesFacts DEF Types, Disk, Steps, Restoring
<1>1. CASE Works("restoreSelection",
              [disk EXCEPT !.sel[f] = IF disk.selBak[f] = Absent THEN @ ELSE disk.selBak[f]],
              NextFile("restoreAway"))
  <2>1. disk' = [disk EXCEPT !.sel[f] = b]
    BY <1>0, <1>1, GoesOn
  <2>2. [disk.sel EXCEPT ![f] = b] =
        [disk.sel EXCEPT ![f] = IF disk.selBak[f] = Absent THEN @ ELSE disk.selBak[f]]
    OBVIOUS
  <2> HIDE DEF b
  <2>3. /\ SameButSelection(disk', disk)
        /\ disk'.sel = [disk.sel EXCEPT ![f] = b]
        /\ disk'.selBak = disk.selBak
    BY <1>0, <2>1, SelectionFacts
  <2> QED BY <1>0, <1>1, <2>2, <2>3, GoesOn
<1>2. ASSUME NEW c \in {disk.sel[f], None},
             Throws("restoreSelection", [disk EXCEPT !.sel[f] = c], "failed")
      PROVE  /\ run.at = "restoreSelection" /\ past' = past /\ Moved(run', run)
             /\ SameButSelection(disk', disk) /\ disk'.selBak = disk.selBak
             /\ run'.at = "failed" /\ run'.faults = run.faults + 1
  <2> DEFINE d == [disk EXCEPT !.sel[f] = c]
  <2>1. SameButSelection(d, disk) /\ d.selBak = disk.selBak
    BY <1>0, SelectionFacts
  <2> HIDE DEF d
  <2>2. Throws("restoreSelection", d, "failed")
    BY <1>2 DEF d
  <2> QED BY <1>0, <2>1, <2>2, Fails
<1> QED BY <1>1, <1>2 DEF RestoreSelection

(* The end of restore: the backups of the selection are removed. *)
LEMMA RemoveBackupsEffect ==
  ASSUME Types, RemoveBackups
  PROVE  /\ run.at = "removeBackups" /\ past' = past /\ Moved(run', run)
         /\ SameButSelection(disk', disk) /\ disk'.sel = disk.sel
         /\ \/ /\ run.file = "tag" /\ run'.at = "removeBackups" /\ run'.file = "state"
               /\ run'.faults = run.faults
            \/ /\ run.file = "state" /\ run'.at = "restored" /\ run'.file = "tag"
               /\ run'.faults = run.faults
            \/ /\ run'.at = "failed" /\ run'.faults = run.faults + 1
<1>0. /\ run \in Run /\ disk \in Disk /\ run.file \in Files
      /\ "restored" \in Steps /\ "failed" \in Steps
  BY RunFacts DEF Types, Steps, Restoring
<1>1. CASE Works("removeBackups", [disk EXCEPT !.selBak[run.file] = Absent],
                 NextFile("restored"))
  <2> DEFINE d == [disk EXCEPT !.selBak[run.file] = Absent]
  <2>1. SameButSelection(d, disk) /\ d.sel = disk.sel
    BY <1>0, BackupFacts
  <2> HIDE DEF d
  <2>2. Works("removeBackups", d, NextFile("restored"))
    BY <1>1 DEF d
  <2> QED BY <1>0, <2>1, <2>2, GoesOn
<1>2. CASE Throws("removeBackups", disk, "failed")
  BY <1>0, <1>2, Fails DEF SameButSelection
<1> QED BY <1>1, <1>2 DEF RemoveBackups

(* The steps that leave the selection and its backups alone, and remember  *)
(* nothing.                                                                *)
SimpleStep ==
  \/ HelperIn \/ HelperBack \/ WriteBackup \/ Publish \/ WineIn \/ WineBack \/ Complete
  \/ UndoWine \/ UndoMove \/ UndoFront \/ UndoHelper
  \/ RestoreFront \/ RestoreAway \/ RestoreIn \/ RestoreBack \/ RestoreDrop \/ RemoveHelper

Quiet ==
  /\ Moved(run', run) /\ past' = past
  /\ disk' \in Disk
  /\ disk'.sel = disk.sel /\ disk'.selBak = disk.selBak
  /\ disk'.orphans = disk.orphans

(* They leave the selection and its backups alone. *)
LEMMA SimpleQuiet ==
  ASSUME Types, SimpleStep
  PROVE  Quiet
<1> USE DEF Quiet
<1>0. run \in Run /\ disk \in Disk
  BY DEF Types
<1>1. CASE HelperIn
  <2>1. Moved(run', run) /\ past' = past
    BY <1>0, <1>1, Goes, Fails DEF HelperIn, Steps, Forward, Rollback, Restoring
  <2>2. run.oldHelper \in (SUBSET Versions) \cup {None}
    BY <1>0, RunFacts
  <2>3. \/ disk' = disk
        \/ disk' = [disk EXCEPT !.helper = IF run.oldHelper = None THEN {} ELSE run.oldHelper]
    BY <1>1 DEF HelperIn, Works, Throws
  <2> QED BY <1>0, <2>1, <2>2, <2>3 DEF Disk
<1>2. CASE HelperBack
  <2>1. Moved(run', run) /\ past' = past
    BY <1>0, <1>2, Goes, Fails DEF HelperBack, Steps, Forward, Rollback,
      Restoring
  <2> QED BY <1>0, <1>2, <2>1, NamesFacts, RunFacts DEF HelperBack, Works,
        Throws, Disk
<1>3. CASE WriteBackup
  <2>1. Moved(run', run) /\ past' = past
    BY <1>0, <1>3, Goes, Fails DEF WriteBackup, Steps, Forward, Rollback,
      Restoring
  <2>2. run.at = "writeBackup"
    BY <1>3 DEF WriteBackup, Works, Throws
  <2>3. disk.helper \cup {disk.version} \in SUBSET Versions
    BY <2>2 DEF Types, HelperThere, Disk
  <2> QED BY <1>0, <1>3, <2>1, <2>3 DEF WriteBackup, Works, Throws, Disk
<1>4. CASE Publish
  <2>1. Moved(run', run) /\ past' = past
    BY <1>0, <1>4, Goes, Fails DEF Publish, Steps, Forward, Rollback, Restoring
  <2> QED BY <1>0, <1>4, <2>1, NamesFacts, RunFacts DEF Publish, Works, Throws,
        Disk
<1>5. CASE WineIn
  <2>1. Moved(run', run) /\ past' = past
    BY <1>0, <1>5, Goes, Fails DEF WineIn, Steps, Forward, Rollback, Restoring
  <2> QED BY <1>0, <1>5, <2>1, NamesFacts, RunFacts DEF WineIn, Works, Throws,
        Disk
<1>6. CASE WineBack
  <2>1. Moved(run', run) /\ past' = past
    BY <1>0, <1>6, Goes, Fails DEF WineBack, Steps, Forward, Rollback, Restoring
  <2> QED BY <1>0, <1>6, <2>1, NamesFacts, RunFacts DEF WineBack, Works,
        Throws, Disk
<1>7. CASE Complete
  <2>1. Moved(run', run) /\ past' = past
    BY <1>0, <1>7, Goes, Fails DEF Complete, Steps, Forward, Rollback, Restoring
  <2> QED BY <1>0, <1>7, <2>1, NamesFacts, RunFacts DEF Complete, Works,
        Throws, Disk, Completed
<1>8. CASE UndoWine
  <2>1. Moved(run', run) /\ past' = past
    BY <1>0, <1>8, Goes, Fails DEF UndoWine, Steps, Forward, Rollback, Restoring
  <2> QED BY <1>0, <1>8, <2>1, NamesFacts, RunFacts DEF UndoWine, Works,
        Throws, Disk
<1>9. CASE UndoMove
  <2>1. Moved(run', run) /\ past' = past
    BY <1>0, <1>9, Goes, Fails DEF UndoMove, Steps, Forward, Rollback, Restoring
  <2> QED BY <1>0, <1>9, <2>1, NamesFacts, RunFacts DEF UndoMove, Works,
        Throws, Disk
<1>10. CASE UndoFront
  <2>1. Moved(run', run) /\ past' = past
    BY <1>0, <1>10, Goes, Fails DEF UndoFront, Steps, Forward, Rollback,
      Restoring
  <2>2. run.at = "undoFront"
    BY <1>10 DEF UndoFront, Works, Throws
  <2>3. run.previous.version \in Versions /\ run.previous.registered \in BOOLEAN
    BY <2>2 DEF Types, Remembered, OfInstall, Rollback, Disk
  <2> QED BY <1>0, <1>10, <2>1, <2>3 DEF UndoFront, Works, Throws, Disk
<1>11. CASE UndoHelper
  <2>1. Moved(run', run) /\ past' = past
    BY <1>0, <1>11, Goes, Fails DEF UndoHelper, Steps, Forward, Rollback,
      Restoring
  <2> QED BY <1>0, <1>11, <2>1, NamesFacts, RunFacts DEF UndoHelper, Works,
        Throws, Disk
<1>12. CASE RestoreFront
  <2>1. Moved(run', run) /\ past' = past
    BY <1>0, <1>12, Goes, Fails DEF RestoreFront, Steps, Forward, Rollback,
      Restoring
  <2>2. disk' \in {disk, [disk EXCEPT !.registered = FALSE]}
    BY <1>12 DEF RestoreFront, Works, Throws
  <2> QED BY <1>0, <2>1, <2>2 DEF Disk
<1>13. CASE RestoreAway
  <2>1. Moved(run', run) /\ past' = past
    BY <1>0, <1>13, Goes, Fails DEF RestoreAway, Steps, Forward, Rollback,
      Restoring
  <2> QED BY <1>0, <1>13, <2>1, NamesFacts, RunFacts DEF RestoreAway, Works,
        Throws, Disk
<1>14. CASE RestoreIn
  <2>1. Moved(run', run) /\ past' = past
    BY <1>0, <1>14, Goes, Fails DEF RestoreIn, Steps, Forward, Rollback,
      Restoring
  <2> QED BY <1>0, <1>14, <2>1, NamesFacts, RunFacts DEF RestoreIn, Works,
        Throws, Disk
<1>15. CASE RestoreBack
  <2>1. Moved(run', run) /\ past' = past
    BY <1>0, <1>15, Goes, Fails DEF RestoreBack, Steps, Forward, Rollback,
      Restoring
  <2> QED BY <1>0, <1>15, <2>1, NamesFacts, RunFacts DEF RestoreBack, Works,
        Throws, Disk
<1>16. CASE RestoreDrop
  <2>1. Moved(run', run) /\ past' = past
    BY <1>0, <1>16, Goes, Fails DEF RestoreDrop, Steps, Forward, Rollback,
      Restoring
  <2> QED BY <1>0, <1>16, <2>1, NamesFacts, RunFacts DEF RestoreDrop, Works,
        Throws, Disk
<1>17. CASE RemoveHelper
  <2>1. Moved(run', run) /\ past' = past
    BY <1>0, <1>17, Goes, Fails DEF RemoveHelper, Steps, Forward, Rollback,
      Restoring
  <2> QED BY <1>0, <1>17, <2>1, NamesFacts, RunFacts DEF RemoveHelper, Works,
        Throws, Disk
<1> QED BY <1>1, <1>2, <1>3, <1>4, <1>5, <1>6, <1>7, <1>8, <1>9, <1>10, <1>11,
      <1>12, <1>13, <1>14, <1>15, <1>16, <1>17 DEF SimpleStep

(* Where they go, and what they do to the folder. *)
LEMMA HelperInEffect ==
  ASSUME Types, HelperIn
  PROVE  /\ Quiet
         /\ run.at = "helperIn" /\ run'.file = "tag"
         /\ \/ /\ run'.at = "writeBackup" /\ run'.faults = run.faults
               /\ disk' = [disk EXCEPT !.helper =
                            IF run.oldHelper = None THEN {} ELSE run.oldHelper]
            \/ /\ run'.at = "helperBack" /\ run'.faults = run.faults + 1
               /\ disk' = disk
<1>1. Quiet /\ run \in Run /\ "helperBack" \in Steps /\ "writeBackup" \in Steps
  BY SimpleQuiet DEF SimpleStep, Types, Steps, Forward, Rollback, Restoring
<1> QED BY <1>1, Goes, Fails DEF HelperIn

(* The old helper is moved back. *)
LEMMA HelperBackEffect ==
  ASSUME Types, HelperBack
  PROVE  /\ Quiet
         /\ run.at = "helperBack" /\ run'.file = "tag"
         /\ \/ /\ run'.at = "dropBackups" /\ run'.faults = run.faults
               /\ disk' = [disk EXCEPT !.helper = run.oldHelper]
            \/ /\ run'.at = "dropBackups" /\ run'.faults = run.faults + 1
               /\ run.oldHelper # None
               /\ disk' = disk
<1>1. Quiet /\ run \in Run /\ "dropBackups" \in Steps
  BY SimpleQuiet DEF SimpleStep, Types, Steps, Forward, Rollback, Restoring
<1> QED BY <1>1, Goes, Fails DEF HelperBack

(* The pristine resource is kept in the helper. *)
LEMMA WriteBackupEffect ==
  ASSUME Types, WriteBackup
  PROVE  /\ Quiet
         /\ run.at = "writeBackup" /\ run'.file = "tag"
         /\ \/ /\ run'.at = "publish" /\ run'.faults = run.faults
               /\ disk' = [disk EXCEPT !.helper = @ \cup {disk.version}]
            \/ /\ run'.at = "dropBackups" /\ run'.faults = run.faults + 1
               /\ disk' = disk
<1>1. Quiet /\ run \in Run /\ "dropBackups" \in Steps /\ "publish" \in Steps
  BY SimpleQuiet DEF SimpleStep, Types, Steps, Forward, Rollback, Restoring
<1> QED BY <1>1, Goes, Fails DEF WriteBackup

(* The registered frontend is published. *)
LEMMA PublishEffect ==
  ASSUME Types, Publish
  PROVE  /\ Quiet
         /\ run.at = "publish" /\ run'.file = "tag"
         /\ \/ /\ run'.at = "select" /\ run'.faults = run.faults
               /\ disk' = [disk EXCEPT !.registered = TRUE]
            \/ /\ run'.at = "dropBackups" /\ run'.faults = run.faults + 1
               /\ disk' = disk
<1>1. Quiet /\ run \in Run /\ "dropBackups" \in Steps /\ "select" \in Steps
  BY SimpleQuiet DEF SimpleStep, Types, Steps, Forward, Rollback, Restoring
<1> QED BY <1>1, Goes, Fails DEF Publish

(* The new runtime is moved in. *)
LEMMA WineInEffect ==
  ASSUME Types, WineIn
  PROVE  /\ Quiet
         /\ run.at = "wineIn" /\ run'.file = "tag"
         /\ \/ /\ run'.at = "activate" /\ run'.faults = run.faults
               /\ disk' = [disk EXCEPT !.wine = Ours]
            \/ /\ run'.at = "wineBack" /\ run'.faults = run.faults + 1
               /\ disk' = disk
<1>1. Quiet /\ run \in Run /\ "activate" \in Steps /\ "wineBack" \in Steps
  BY SimpleQuiet DEF SimpleStep, Types, Steps, Forward, Rollback, Restoring
<1> QED BY <1>1, Goes, Fails DEF WineIn

(* The old runtime is moved back at once. *)
LEMMA WineBackEffect ==
  ASSUME Types, WineBack
  PROVE  /\ Quiet
         /\ run.at = "wineBack" /\ run'.file = "tag"
         /\ \/ /\ run'.at = "dropBackups" /\ run'.faults = run.faults
               /\ disk'.wine = disk.aside /\ disk'.bak = disk.bak
               /\ disk'.aside = None /\ disk'.version = disk.version
               /\ disk'.registered = disk.registered /\ disk'.helper = disk.helper
            \/ /\ run'.at = "dropBackups" /\ run'.faults = run.faults + 1
               /\ disk.aside # None
               /\ disk' = disk
<1>1. Quiet /\ run \in Run /\ "dropBackups" \in Steps
  BY SimpleQuiet DEF SimpleStep, Types, Steps, Forward, Rollback, Restoring
<1>2. CASE Works("wineBack", [disk EXCEPT !.wine = disk.aside, !.aside = None], Going("dropBackups"))
  <2>1. /\ run.at = "wineBack" /\ run'.at = "dropBackups" /\ run'.file = "tag"
        /\ run'.faults = run.faults
    BY <1>1, <1>2, Goes
  <2>2. disk' = [disk EXCEPT !.wine = disk.aside, !.aside = None]
    BY <1>2 DEF Works
  <2> QED BY <1>1, <2>1, <2>2 DEF Types, Disk
<1>3. CASE disk.aside # None /\ Throws("wineBack", disk, "dropBackups")
  BY <1>1, <1>3, Fails
<1> QED BY <1>2, <1>3 DEF WineBack

(* The displaced runtime is dropped, or becomes the backup. *)
LEMMA CompleteEffect ==
  ASSUME Types, Complete
  PROVE  /\ Quiet
         /\ run.at = "complete" /\ run'.file = "tag"
         /\ \/ /\ run'.at = "installed" /\ run'.faults = run.faults
               /\ disk' = Completed
            \/ /\ run'.at = "undoWine" /\ run'.faults = run.faults + 1
               /\ disk.aside # None
               /\ disk' = IF run.hadBak THEN [disk EXCEPT !.aside = "damaged"] ELSE disk
<1>1. Quiet /\ run \in Run /\ "installed" \in Steps /\ "undoWine" \in Steps
  BY SimpleQuiet DEF SimpleStep, Types, Steps, Forward, Rollback, Restoring
<1> QED BY <1>1, Goes, Fails DEF Complete

(* The rollback removes the new runtime. *)
LEMMA UndoWineEffect ==
  ASSUME Types, UndoWine
  PROVE  /\ Quiet
         /\ run.at = "undoWine" /\ run'.file = "tag"
         /\ \/ /\ run'.at = "undoMove" /\ run'.faults = run.faults
               /\ disk' = [disk EXCEPT !.wine = None]
            \/ /\ run'.at = "undoSelection" /\ run'.faults = run.faults + 1
               /\ disk' = [disk EXCEPT !.wine = "damaged"]
<1>1. Quiet /\ run \in Run /\ "undoMove" \in Steps /\ "undoSelection" \in Steps
  BY SimpleQuiet DEF SimpleStep, Types, Steps, Forward, Rollback, Restoring
<1> QED BY <1>1, Goes, Fails DEF UndoWine

(* The rollback moves the old runtime back. *)
LEMMA UndoMoveEffect ==
  ASSUME Types, UndoMove
  PROVE  /\ Quiet
         /\ run.at = "undoMove" /\ run'.file = "tag"
         /\ \/ /\ run'.at = "undoSelection" /\ run'.faults = run.faults
               /\ disk'.wine = disk.aside /\ disk'.bak = disk.bak
               /\ disk'.aside = None /\ disk'.version = disk.version
               /\ disk'.registered = disk.registered /\ disk'.helper = disk.helper
            \/ /\ run'.at = "undoSelection" /\ run'.faults = run.faults + 1
               /\ disk.aside # None
               /\ disk' = disk
<1>1. Quiet /\ run \in Run /\ "undoSelection" \in Steps
  BY SimpleQuiet DEF SimpleStep, Types, Steps, Forward, Rollback, Restoring
<1>2. CASE Works("undoMove", [disk EXCEPT !.wine = disk.aside, !.aside = None], Going("undoSelection"))
  <2>1. /\ run.at = "undoMove" /\ run'.at = "undoSelection" /\ run'.file = "tag"
        /\ run'.faults = run.faults
    BY <1>1, <1>2, Goes
  <2>2. disk' = [disk EXCEPT !.wine = disk.aside, !.aside = None]
    BY <1>2 DEF Works
  <2> QED BY <1>1, <2>1, <2>2 DEF Types, Disk
<1>3. CASE disk.aside # None /\ Throws("undoMove", disk, "undoSelection")
  BY <1>1, <1>3, Fails
<1> QED BY <1>2, <1>3 DEF UndoMove

(* The rollback writes the frontend of before. *)
LEMMA UndoFrontEffect ==
  ASSUME Types, UndoFront
  PROVE  /\ Quiet
         /\ run.at = "undoFront" /\ run'.file = "tag"
         /\ \/ /\ run'.at = "undoHelper" /\ run'.faults = run.faults
               /\ disk'.wine = disk.wine /\ disk'.bak = disk.bak
               /\ disk'.aside = disk.aside /\ disk'.version = run.previous.version
               /\ disk'.registered = run.previous.registered /\ disk'.helper = disk.helper
            \/ /\ run'.at = "failed" /\ run'.faults = run.faults + 1
               /\ disk' = disk
<1>1. Quiet /\ run \in Run /\ "failed" \in Steps /\ "undoHelper" \in Steps
  BY SimpleQuiet DEF SimpleStep, Types, Steps, Forward, Rollback, Restoring
<1>2. CASE Works("undoFront", [disk EXCEPT !.version = run.previous.version,
                             !.registered = run.previous.registered], Going("undoHelper"))
  <2>1. /\ run.at = "undoFront" /\ run'.at = "undoHelper" /\ run'.file = "tag"
        /\ run'.faults = run.faults
    BY <1>1, <1>2, Goes
  <2>2. disk' = [disk EXCEPT !.version = run.previous.version,
                             !.registered = run.previous.registered]
    BY <1>2 DEF Works
  <2> QED BY <1>1, <2>1, <2>2 DEF Types, Disk
<1>3. CASE Throws("undoFront", disk, "failed")
  BY <1>1, <1>3, Fails
<1> QED BY <1>2, <1>3 DEF UndoFront

(* The rollback removes a helper that was not there before. *)
LEMMA UndoHelperEffect ==
  ASSUME Types, UndoHelper
  PROVE  /\ Quiet
         /\ run.at = "undoHelper" /\ run'.file = "tag"
         /\ \/ /\ run'.at = "failed" /\ run'.faults = run.faults
               /\ disk' = [disk EXCEPT !.helper =
                            IF run.previous.helper = None THEN None ELSE @]
            \/ /\ run'.at = "failed" /\ run'.faults = run.faults + 1
               /\ run.previous.helper = None
               /\ disk' = disk
<1>1. Quiet /\ run \in Run /\ "failed" \in Steps
  BY SimpleQuiet DEF SimpleStep, Types, Steps, Forward, Rollback, Restoring
<1> QED BY <1>1, Goes, Fails DEF UndoHelper

(* The restoration moves the runtime aside. *)
LEMMA RestoreAwayEffect ==
  ASSUME Types, RestoreAway
  PROVE  /\ Quiet
         /\ run.at = "restoreAway" /\ run'.file = "tag"
         /\ \/ /\ run'.at = "restoreIn" /\ run'.faults = run.faults
               /\ disk'.wine = None /\ disk'.bak = disk.bak
               /\ disk'.aside = disk.wine /\ disk'.version = disk.version
               /\ disk'.registered = disk.registered /\ disk'.helper = disk.helper
            \/ /\ run'.at = "failed" /\ run'.faults = run.faults + 1
               /\ disk.wine # None
               /\ disk' = disk
<1>1. Quiet /\ run \in Run /\ "failed" \in Steps /\ "restoreIn" \in Steps
  BY SimpleQuiet DEF SimpleStep, Types, Steps, Forward, Rollback, Restoring
<1>2. CASE Works("restoreAway", [disk EXCEPT !.wine = None, !.aside = disk.wine], Going("restoreIn"))
  <2>1. /\ run.at = "restoreAway" /\ run'.at = "restoreIn" /\ run'.file = "tag"
        /\ run'.faults = run.faults
    BY <1>1, <1>2, Goes
  <2>2. disk' = [disk EXCEPT !.wine = None, !.aside = disk.wine]
    BY <1>2 DEF Works
  <2> QED BY <1>1, <2>1, <2>2 DEF Types, Disk
<1>3. CASE disk.wine # None /\ Throws("restoreAway", disk, "failed")
  BY <1>1, <1>3, Fails
<1> QED BY <1>2, <1>3 DEF RestoreAway

(* The backup becomes the runtime. *)
LEMMA RestoreInEffect ==
  ASSUME Types, RestoreIn
  PROVE  /\ Quiet
         /\ run.at = "restoreIn" /\ run'.file = "tag"
         /\ \/ /\ run'.at = "restoreDrop" /\ run'.faults = run.faults
               /\ disk'.wine = disk.bak /\ disk'.bak = None
               /\ disk'.aside = disk.aside /\ disk'.version = disk.version
               /\ disk'.registered = disk.registered /\ disk'.helper = disk.helper
            \/ /\ run'.at = "restoreBack" /\ run'.faults = run.faults + 1
               /\ disk' = disk
<1>1. Quiet /\ run \in Run /\ "restoreBack" \in Steps /\ "restoreDrop" \in Steps
  BY SimpleQuiet DEF SimpleStep, Types, Steps, Forward, Rollback, Restoring
<1>2. CASE Works("restoreIn", [disk EXCEPT !.wine = disk.bak, !.bak = None], Going("restoreDrop"))
  <2>1. /\ run.at = "restoreIn" /\ run'.at = "restoreDrop" /\ run'.file = "tag"
        /\ run'.faults = run.faults
    BY <1>1, <1>2, Goes
  <2>2. disk' = [disk EXCEPT !.wine = disk.bak, !.bak = None]
    BY <1>2 DEF Works
  <2> QED BY <1>1, <2>1, <2>2 DEF Types, Disk
<1>3. CASE Throws("restoreIn", disk, "restoreBack")
  BY <1>1, <1>3, Fails
<1> QED BY <1>2, <1>3 DEF RestoreIn

(* The runtime is moved back when that fails. *)
LEMMA RestoreBackEffect ==
  ASSUME Types, RestoreBack
  PROVE  /\ Quiet
         /\ run.at = "restoreBack" /\ run'.file = "tag"
         /\ \/ /\ run'.at = "failed" /\ run'.faults = run.faults
               /\ disk'.wine = disk.aside /\ disk'.bak = disk.bak
               /\ disk'.aside = None /\ disk'.version = disk.version
               /\ disk'.registered = disk.registered /\ disk'.helper = disk.helper
            \/ /\ run'.at = "failed" /\ run'.faults = run.faults + 1
               /\ disk.aside # None
               /\ disk' = disk
<1>1. Quiet /\ run \in Run /\ "failed" \in Steps
  BY SimpleQuiet DEF SimpleStep, Types, Steps, Forward, Rollback, Restoring
<1>2. CASE Works("restoreBack", [disk EXCEPT !.wine = disk.aside, !.aside = None], Going("failed"))
  <2>1. /\ run.at = "restoreBack" /\ run'.at = "failed" /\ run'.file = "tag"
        /\ run'.faults = run.faults
    BY <1>1, <1>2, Goes
  <2>2. disk' = [disk EXCEPT !.wine = disk.aside, !.aside = None]
    BY <1>2 DEF Works
  <2> QED BY <1>1, <2>1, <2>2 DEF Types, Disk
<1>3. CASE disk.aside # None /\ Throws("restoreBack", disk, "failed")
  BY <1>1, <1>3, Fails
<1> QED BY <1>2, <1>3 DEF RestoreBack

(* The displaced runtime is deleted. *)
LEMMA RestoreDropEffect ==
  ASSUME Types, RestoreDrop
  PROVE  /\ Quiet
         /\ run.at = "restoreDrop" /\ run'.file = "tag"
         /\ \/ /\ run'.at = "removeHelper" /\ run'.faults = run.faults
               /\ disk' = [disk EXCEPT !.aside = None]
            \/ /\ run'.at = "failed" /\ run'.faults = run.faults + 1
               /\ disk.aside # None
               /\ disk' = [disk EXCEPT !.aside = "damaged"]
<1>1. Quiet /\ run \in Run /\ "failed" \in Steps /\ "removeHelper" \in Steps
  BY SimpleQuiet DEF SimpleStep, Types, Steps, Forward, Rollback, Restoring
<1> QED BY <1>1, Goes, Fails DEF RestoreDrop

(* The helper is removed; failures are ignored. *)
LEMMA RemoveHelperEffect ==
  ASSUME Types, RemoveHelper
  PROVE  /\ Quiet
         /\ run.at = "removeHelper" /\ run'.file = "tag"
         /\ \/ /\ run'.at = "removeBackups" /\ run'.faults = run.faults
               /\ disk' = [disk EXCEPT !.helper = None]
            \/ /\ run'.at = "removeBackups" /\ run'.faults = run.faults + 1
               /\ disk.helper # None
               /\ disk' = disk
<1>1. Quiet /\ run \in Run /\ "removeBackups" \in Steps
  BY SimpleQuiet DEF SimpleStep, Types, Steps, Forward, Rollback, Restoring
<1> QED BY <1>1, Goes, Fails DEF RemoveHelper

(* ResourceRegistration.restore: refused, done, or done and then failed. *)
LEMMA RestoreFrontEffect ==
  ASSUME Types, RestoreFront
  PROVE  /\ Quiet
         /\ run.at = "restoreFront"
         /\ \/ /\ run'.at = "restoreSelection" /\ run'.file = "tag"
               /\ run'.faults = run.faults
               /\ disk' = [disk EXCEPT !.registered = FALSE]
            \/ /\ run'.at = "failed" /\ run'.file = "tag"
               /\ run'.faults \in {run.faults, run.faults + 1}
               /\ disk' = disk
            \/ /\ run'.at = "failed" /\ run'.file = "tag"
               /\ run'.faults = run.faults + 1
               /\ disk' = [disk EXCEPT !.registered = FALSE]
<1>1. Quiet /\ run \in Run /\ "restoreSelection" \in Steps /\ "failed" \in Steps
  BY SimpleQuiet DEF SimpleStep, Types, Steps, Restoring
<1> QED BY <1>1, Goes, Fails DEF RestoreFront

(* The remaining steps of the installation. *)
LEMMA HelperAwayEffect ==
  ASSUME Types, HelperAway
  PROVE  /\ run.at = "helperAway" /\ past' = past /\ run' \in Run /\ disk' \in Disk
         /\ run'.op = run.op /\ run'.result = run.result
         /\ run'.previous = run.previous /\ run'.created = run.created
         /\ run'.selection = run.selection /\ run'.hadBak = run.hadBak
         /\ \/ /\ run'.at = "helperIn" /\ run'.faults = run.faults
               /\ run'.oldHelper = disk.helper
               /\ disk' = [disk EXCEPT !.helper = None]
            \/ /\ run'.at = "dropBackups" /\ run'.file = "tag"
               /\ run'.faults = run.faults + 1
               /\ disk' = disk
<1>0. /\ run \in Run /\ disk \in Disk
      /\ disk.helper \in (SUBSET Versions) \cup {None}
      /\ "helperIn" \in Steps /\ "dropBackups" \in Steps
  BY DEF Types, Disk, Steps, Forward, Rollback
<1>1. CASE Works("helperAway", [disk EXCEPT !.helper = None],
                 [Going("helperIn") EXCEPT !.oldHelper = disk.helper])
  <2>1. /\ run.at = "helperAway" /\ past' = past
        /\ disk' = [disk EXCEPT !.helper = None]
        /\ run' = [Going("helperIn") EXCEPT !.oldHelper = disk.helper]
    BY <1>1 DEF Works
  <2>2. disk' \in Disk
    BY <1>0, <2>1 DEF Disk
  <2> QED BY <1>0, <2>1, <2>2, Remembers
<1>2. CASE Throws("helperAway", disk, "dropBackups")
  BY <1>0, <1>2, Fails DEF Moved
<1> QED BY <1>1, <1>2 DEF HelperAway

(* activeWineSelection is remembered. *)
LEMMA ReadSelectionEffect ==
  ASSUME Types, ReadSelection
  PROVE  /\ run.at = "select" /\ past' = past /\ run' \in Run /\ disk' = disk
         /\ run'.op = run.op /\ run'.result = run.result
         /\ run'.previous = run.previous /\ run'.created = run.created
         /\ run'.oldHelper = run.oldHelper /\ run'.hadBak = run.hadBak
         /\ \/ /\ run'.at = "wineAway" /\ run'.faults = run.faults
               /\ run'.selection = disk.sel
            \/ /\ run'.at = "dropBackups" /\ run'.file = "tag"
               /\ run'.faults = run.faults + 1
<1>0. /\ run \in Run /\ disk.sel \in [Files -> Content]
      /\ "wineAway" \in Steps /\ "dropBackups" \in Steps
  BY DEF Types, Disk, Steps, Forward, Rollback
<1>1. CASE Works("select", disk, [Going("wineAway") EXCEPT !.selection = disk.sel])
  <2>1. /\ run.at = "select" /\ past' = past /\ disk' = disk
        /\ run' = [Going("wineAway") EXCEPT !.selection = disk.sel]
    BY <1>1 DEF Works
  <2> QED BY <1>0, <2>1, Remembers
<1>2. CASE Throws("select", disk, "dropBackups")
  BY <1>0, <1>2, Fails DEF Moved
<1> QED BY <1>1, <1>2 DEF ReadSelection, ActiveWineSelection

(* The runtime is moved aside; whether there was a backup is remembered. *)
LEMMA WineAwayEffect ==
  ASSUME Types, WineAway
  PROVE  /\ run.at = "wineAway" /\ past' = past /\ run' \in Run /\ disk' \in Disk
         /\ run'.op = run.op /\ run'.result = run.result
         /\ run'.previous = run.previous /\ run'.created = run.created
         /\ run'.oldHelper = run.oldHelper /\ run'.selection = run.selection
         /\ \/ /\ run'.at = "wineIn" /\ run'.faults = run.faults
               /\ run'.hadBak = (disk.bak # None)
               /\ disk' = [disk EXCEPT !.wine = None, !.aside = disk.wine]
            \/ /\ run'.at = "dropBackups" /\ run'.file = "tag"
               /\ run'.faults = run.faults + 1
               /\ disk' = disk
<1>0. /\ run \in Run /\ disk \in Disk /\ None \in Directory
      /\ (disk.bak # None) \in BOOLEAN
      /\ "wineIn" \in Steps /\ "dropBackups" \in Steps
  BY NamesFacts DEF Types, Steps, Forward, Rollback
<1>1. CASE Works("wineAway", [disk EXCEPT !.wine = None, !.aside = disk.wine],
                 [Going("wineIn") EXCEPT !.hadBak = disk.bak # None])
  <2>1. /\ run.at = "wineAway" /\ past' = past
        /\ disk' = [disk EXCEPT !.wine = None, !.aside = disk.wine]
        /\ run' = [Going("wineIn") EXCEPT !.hadBak = disk.bak # None]
    BY <1>1 DEF Works
  <2>2. disk' \in Disk
    BY <1>0, <2>1 DEF Disk
  <2> DEFINE b == disk.bak # None
  <2>3. b \in BOOLEAN /\ run' = [Going("wineIn") EXCEPT !.hadBak = b]
    BY <2>1
  <2> HIDE DEF b
  <2>4. /\ run' \in Run /\ run'.at = "wineIn" /\ run'.faults = run.faults
        /\ run'.op = run.op /\ run'.result = run.result
        /\ run'.previous = run.previous /\ run'.created = run.created
        /\ run'.oldHelper = run.oldHelper /\ run'.selection = run.selection
        /\ run'.hadBak = b
    BY <1>0, <2>3, Remembers
  <2> QED BY <2>1, <2>2, <2>4, Zenon DEF b
<1>2. CASE Throws("wineAway", disk, "dropBackups")
  BY <1>0, <1>2, Fails DEF Moved
<1> QED BY <1>1, <1>2 DEF WineAway

(* The process at rest, and at the start of an attempt. *)
LEMMA NoRunFacts ==
  /\ NoRun \in Run
  /\ NoRun.at = "idle" /\ NoRun.op = "none" /\ NoRun.result = "none"
  /\ NoRun.faults = 0 /\ NoRun.created = {}
BY NamesFacts DEF NoRun, Run, Steps

(* An installation starts: what the backup is to hold is recorded. *)
LEMMA InstallEffect ==
  ASSUME Types, Install
  PROVE  /\ run.at = "idle" /\ disk' = disk /\ run' \in Run /\ past' \in Past
         /\ run'.at = "backUp" /\ run'.file = "tag" /\ run'.op = "install"
         /\ run'.result = "none" /\ run'.faults = 0 /\ run'.previous = disk
         /\ run'.created = {}
         /\ past'.broken = past.broken
         /\ past'.original = IF past.original = None THEN disk.wine ELSE past.original
         /\ past'.saved = IF disk.bak = None THEN [wine |-> disk.wine, sel |-> disk.sel]
                          ELSE past.saved
         /\ past'.mixed = IF disk.bak = None THEN \E f \in Files : disk.selBak[f] # Absent
                          ELSE past.mixed
<1>1. /\ run' \in Run
      /\ run'.at = "backUp" /\ run'.file = "tag" /\ run'.op = "install"
      /\ run'.result = "none" /\ run'.faults = 0 /\ run'.previous = disk
      /\ run'.created = {}
  <2>1. run' = [at |-> "backUp", file |-> "tag", op |-> "install", result |-> "none",
                faults |-> 0, previous |-> disk, oldHelper |-> None, created |-> {},
                selection |-> None, hadBak |-> FALSE]
    BY DEF Install, NoRun
  <2> QED BY <2>1, NamesFacts DEF Types, Run, Steps, Forward
<1> DEFINE sv == IF disk.bak = None THEN [wine |-> disk.wine, sel |-> disk.sel]
                 ELSE past.saved
           mx == IF disk.bak = None THEN \E f \in Files : disk.selBak[f] # Absent
                 ELSE past.mixed
           og == IF past.original = None THEN disk.wine ELSE past.original
<1>2. /\ sv \in Saved \cup {None}
      /\ og \in Directory
  BY DEF Types, Disk, Past, Saved
<1>3. mx \in BOOLEAN
  <2>1. past.mixed \in BOOLEAN
    BY DEF Types, Past
  <2>2. (\E f \in Files : disk.selBak[f] # Absent) \in BOOLEAN
    BY Zenon
  <2> QED BY <2>1, <2>2
<1>4. past' = [past EXCEPT !.attempts = past.attempts + 1, !.saved = sv, !.mixed = mx,
                           !.original = og]
  BY DEF Install
<1> HIDE DEF sv, mx, og
<1>5. /\ past' \in Past /\ past'.broken = past.broken /\ past'.original = og
      /\ past'.saved = sv /\ past'.mixed = mx
  <2>1. past \in Past
    BY DEF Types
  <2>2. past' = [saved |-> sv, mixed |-> mx, original |-> og,
                 broken |-> past.broken, attempts |-> past.attempts + 1]
    BY <1>4, <2>1 DEF Past
  <2>3. past.attempts + 1 \in Nat /\ past.broken \in BOOLEAN
    BY <2>1 DEF Past
  <2>4. past' \in Past
    BY <1>2, <1>3, <2>2, <2>3 DEF Past
  <2> QED BY <2>2, <2>4
<1>6. run.at = "idle" /\ disk' = disk
  BY DEF Install
<1> QED BY <1>1, <1>5, <1>6, Zenon DEF sv, mx, og

(* A restoration starts, if there is a backup. *)
LEMMA RestoreEffect ==
  ASSUME Types, Restore
  PROVE  /\ run.at = "idle" /\ disk' = disk /\ run' \in Run /\ past' \in Past
         /\ disk.bak # None
         /\ run'.at = "restoreFront" /\ run'.file = "tag" /\ run'.op = "restore"
         /\ run'.result = "none" /\ run'.faults = 0 /\ run'.previous = disk
         /\ run'.created = {}
         /\ past'.broken = past.broken /\ past'.original = past.original
         /\ past'.saved = past.saved /\ past'.mixed = past.mixed
<1>1. run' = [at |-> "restoreFront", file |-> "tag", op |-> "restore", result |-> "none",
              faults |-> 0, previous |-> disk, oldHelper |-> None, created |-> {},
              selection |-> None, hadBak |-> FALSE]
  BY DEF Restore, NoRun
<1>2. /\ run' \in Run
      /\ run'.at = "restoreFront" /\ run'.file = "tag" /\ run'.op = "restore"
      /\ run'.result = "none" /\ run'.faults = 0 /\ run'.previous = disk
      /\ run'.created = {}
  BY <1>1, NamesFacts DEF Types, Run, Steps, Restoring
<1> QED BY <1>2 DEF Restore, Types, Past

(* A directory still moved away becomes an orphan. *)
LEMMA AbandonedFacts ==
  ASSUME disk \in Disk
  PROVE  LET d == Abandoned(disk)
         IN /\ d \in Disk
            /\ d.wine = disk.wine /\ d.bak = disk.bak /\ d.aside = None
            /\ d.orphans = disk.orphans \cup ({disk.aside} \ {None})
            /\ d.sel = disk.sel /\ d.selBak = disk.selBak
            /\ d.version = disk.version /\ d.registered = disk.registered
            /\ d.helper = disk.helper
BY NamesFacts DEF Abandoned, Disk

(* An attempt ends. *)
LEMMA EndEffect ==
  ASSUME Types, End
  PROVE  /\ run.at \in {"installed", "restored", "failed"} /\ disk' = Abandoned(disk)
         /\ run' \in Run /\ run'.at = "idle" /\ run'.result = run.at
         /\ run'.op = run.op /\ run'.faults = run.faults
         /\ run'.previous = run.previous /\ run'.oldHelper = run.oldHelper
         /\ run'.created = run.created /\ run'.selection = run.selection
         /\ run'.hadBak = run.hadBak
         /\ past' \in Past
         /\ past'.saved = past.saved /\ past'.mixed = past.mixed
         /\ ~past'.broken => run.faults <= 1 /\ (run.at = "failed" => ~past.broken)
         /\ past'.original = IF run.at = "restored" /\ disk.wine = past.original THEN None
                             ELSE past.original
<1> DEFINE g == Going("idle")
           bk == IF run.at = "failed" THEN past.broken \/ run.faults > 1
                 ELSE run.faults > 1
           og == IF run.at = "restored" /\ disk.wine = past.original THEN None
                 ELSE past.original
<1>0. /\ run \in Run /\ run.at \in {"installed", "restored", "failed"}
      /\ "idle" \in Steps
      /\ run.faults \in Nat /\ past \in Past /\ past.broken \in BOOLEAN
  BY RunFacts DEF Types, End, Steps, Past
<1>1. g \in Run /\ Moved(g, run) /\ g.at = "idle" /\ g.faults = run.faults
  BY <1>0, GoingFacts DEF Moved
<1>2. run' = [g EXCEPT !.result = run.at] /\ disk' = Abandoned(disk)
  BY DEF End
<1>3. past' = [past EXCEPT !.broken = bk, !.original = og]
  BY DEF End
<1>4. bk \in BOOLEAN /\ og \in Directory
  <2>1. (run.faults > 1) \in BOOLEAN
    BY <1>0, SMT
  <2>2. (past.broken \/ run.faults > 1) \in BOOLEAN
    BY Zenon
  <2>a. bk \in BOOLEAN
    BY <2>1, <2>2, Zenon
  <2>3. og \in Directory
    BY <1>0, NamesFacts DEF Past
  <2> QED BY <2>a, <2>3
<1>5. ~bk => run.faults <= 1 /\ (run.at = "failed" => ~past.broken)
  BY <1>0
<1> HIDE DEF g, bk, og
<1>6. /\ past' \in Past /\ past'.broken = bk /\ past'.original = og
      /\ past'.saved = past.saved /\ past'.mixed = past.mixed
  BY <1>0, <1>3, <1>4 DEF Past
<1>7. /\ run' \in Run /\ run'.at = "idle" /\ run'.result = run.at
      /\ run'.op = run.op /\ run'.faults = run.faults
      /\ run'.previous = run.previous /\ run'.oldHelper = run.oldHelper
      /\ run'.created = run.created /\ run'.selection = run.selection
      /\ run'.hadBak = run.hadBak
  BY <1>0, <1>1, <1>2 DEF Run, Moved
<1>8. og = IF run.at = "restored" /\ disk.wine = past.original THEN None ELSE past.original
  BY DEF og
<1> QED BY <1>0, <1>2, <1>5, <1>6, <1>7, <1>8

(* The process dies. *)
LEMMA CrashEffect ==
  ASSUME Types, Crash
  PROVE  /\ run.at # "idle" /\ disk' = Abandoned(disk)
         /\ run' \in Run /\ run'.at = "idle" /\ run'.op = "none"
         /\ run'.result = "crashed" /\ run'.created = {}
         /\ past' \in Past /\ past'.broken = TRUE
         /\ past'.saved = past.saved /\ past'.mixed = past.mixed
         /\ past'.original = past.original
<1>1. /\ run' \in Run /\ run'.at = "idle" /\ run'.op = "none"
      /\ run'.result = "crashed" /\ run'.created = {}
  BY NoRunFacts DEF Crash, Run
<1> QED BY <1>1 DEF Crash, Types, Past

(* What the user does with Yaagl between attempts. *)
LEMMA SelectRuntimeEffect ==
  ASSUME Types, NEW r \in Stock \cup {Ours}, SelectRuntime(r)
  PROVE  /\ run.at = "idle" /\ run' = NoRun /\ disk' \in Disk /\ past' \in Past
         /\ disk'.wine = r /\ disk'.bak = disk.bak /\ disk'.aside = disk.aside
         /\ disk'.orphans = disk.orphans /\ disk'.selBak = disk.selBak
         /\ disk'.version = disk.version /\ disk'.registered = disk.registered
         /\ disk'.helper = disk.helper
         /\ past'.saved = past.saved /\ past'.mixed = past.mixed
         /\ past'.broken = past.broken
         /\ past'.original = IF past.original \in {disk.bak} \cup disk.orphans
                             THEN past.original ELSE None
<1> DEFINE t == [f \in Files |-> IF f = "tag" THEN r ELSE "ready"]
<1>1. t \in [Files -> Content] /\ r \in Directory
  BY DEF Content, Directory
<1>2. disk' = [disk EXCEPT !.wine = r, !.sel = t]
  BY DEF SelectRuntime
<1> HIDE DEF t
<1>3. /\ disk' \in Disk
      /\ disk'.wine = r /\ disk'.bak = disk.bak /\ disk'.aside = disk.aside
      /\ disk'.orphans = disk.orphans /\ disk'.selBak = disk.selBak
      /\ disk'.version = disk.version /\ disk'.registered = disk.registered
      /\ disk'.helper = disk.helper
  BY <1>1, <1>2 DEF Types, Disk
<1>4. /\ past' \in Past
      /\ past'.saved = past.saved /\ past'.mixed = past.mixed
      /\ past'.broken = past.broken
      /\ past'.original = IF past.original \in {disk.bak} \cup disk.orphans
                          THEN past.original ELSE None
  BY NamesFacts DEF SelectRuntime, Types, Past
<1> QED BY <1>3, <1>4 DEF SelectRuntime

(* The frontend is replaced, or updated with its pristine resource kept. *)
LEMMA FrontendEffect ==
  ASSUME Types, NEW v \in Versions, ReplaceFrontend(v) \/ UpdateFrontend(v)
  PROVE  /\ run.at = "idle" /\ run' = NoRun /\ past' = past /\ disk' \in Disk
         /\ disk'.wine = disk.wine /\ disk'.bak = disk.bak /\ disk'.aside = disk.aside
         /\ disk'.orphans = disk.orphans
         /\ disk'.sel = disk.sel /\ disk'.selBak = disk.selBak
         /\ \/ ~disk'.registered
            \/ /\ disk'.version \in {disk.version, v}
               /\ disk'.registered = disk.registered
               /\ disk.helper # None
               /\ disk'.helper = disk.helper \cup {v} /\ disk'.helper # None
<1>1. CASE ReplaceFrontend(v)
  BY <1>1 DEF ReplaceFrontend, Types, Disk
<1>2. CASE UpdateFrontend(v)
  <2>1. PICK w \in {disk.version, v} :
          disk' = [disk EXCEPT !.helper = disk.helper \cup {v}, !.version = w]
    BY <1>2 DEF UpdateFrontend
  <2>2. /\ disk.helper \cup {v} \in SUBSET Versions /\ w \in Versions
        /\ run.at = "idle" /\ run' = NoRun /\ past' = past /\ disk.helper # None
    BY <1>2 DEF UpdateFrontend, Types, Disk
  <2> QED BY <2>1, <2>2 DEF Types, Disk
<1> QED BY <1>1, <1>2

-----------------------------------------------------------------------------
(* The types are invariant. *)
LEMMA TypesInit == Init => Types
<1> SUFFICES ASSUME Init PROVE Types
  OBVIOUS
<1>1. disk \in Disk
  <2>1. PICK r \in Stock \cup {None}, v \in Versions :
          disk = [wine |-> r, bak |-> None, aside |-> None, orphans |-> {},
                  sel |-> [f \in Files |-> IF r = None THEN None
                                           ELSE IF f = "tag" THEN r ELSE "ready"],
                  selBak |-> [f \in Files |-> Absent], version |-> v,
                  registered |-> FALSE, helper |-> None]
    BY DEF Init
  <2> DEFINE t == [f \in Files |-> IF r = None THEN None
                                   ELSE IF f = "tag" THEN r ELSE "ready"]
             b == [f \in Files |-> Absent]
  <2>2. t \in [Files -> Content] /\ b \in [Files -> Content \cup {Absent}]
    BY DEF Content
  <2>3. disk = [wine |-> r, bak |-> None, aside |-> None, orphans |-> {}, sel |-> t,
                selBak |-> b, version |-> v, registered |-> FALSE, helper |-> None]
    BY <2>1
  <2> HIDE DEF t, b
  <2> QED BY <2>2, <2>3 DEF Disk, Directory
<1>2. past \in Past
  BY NamesFacts DEF Init, Past
<1> QED BY <1>1, <1>2, NoRunFacts DEF Init, OfInstall, OfRestore, Begun,
      Remembered, CreatedThere,
    HelperThere, Types, Forward, Rollback, Restoring

(* Every step preserves the types. *)
LEMMA TypesStep ==
  Types /\ [Next]_vars => Types'
<1> SUFFICES ASSUME Types, [Next]_vars PROVE Types'
  OBVIOUS
<1>0. /\ run \in Run /\ disk \in Disk
      /\ disk.selBak \in [Files -> Content \cup {Absent}]
      /\ disk.sel \in [Files -> Content]
  BY DEF Types, Disk
<1> USE DEF Forward, Rollback, Restoring
<1>1. CASE Install
  BY <1>1, InstallEffect DEF Types, OfInstall, OfRestore, Begun, Remembered,
    CreatedThere, HelperThere
<1>2. CASE Restore
  BY <1>2, RestoreEffect DEF Types, OfInstall, OfRestore, Begun, Remembered,
    CreatedThere, HelperThere
<1>3. CASE HelperIn
  <2>1. disk.helper # None \/ run.at = "helperIn"
    BY <1>3, HelperInEffect DEF Types, HelperThere
  <2>2. disk'.helper # None \/ run'.at \in Rollback \cup {"helperBack"}
    BY <1>0, <1>3, <2>1, HelperInEffect DEF Disk
  <2>3. HelperThere'
    BY <2>2 DEF HelperThere
  <2> QED
    BY <1>0, <1>3, <2>3, HelperInEffect DEF Quiet, Moved, Types, OfInstall,
      OfRestore,
      Begun, Remembered, CreatedThere
<1>4. CASE HelperBack
  BY <1>0, <1>4, HelperBackEffect DEF Quiet, Moved, Disk, Types, OfInstall,
    OfRestore, Begun, Remembered, CreatedThere, HelperThere
<1>5. CASE WriteBackup
  <2>1. disk.helper # None \/ run.at = "helperIn"
    BY <1>5, WriteBackupEffect DEF Types, HelperThere
  <2>2. disk'.helper # None \/ run'.at \in Rollback \cup {"helperBack"}
    BY <1>0, <1>5, <2>1, WriteBackupEffect DEF Disk
  <2>3. HelperThere'
    BY <2>2 DEF HelperThere
  <2> QED
    BY <1>0, <1>5, <2>3, WriteBackupEffect DEF Quiet, Moved, Types, OfInstall,
      OfRestore,
      Begun, Remembered, CreatedThere
<1>6. CASE Publish
  <2>1. disk.helper # None \/ run.at = "helperIn"
    BY <1>6, PublishEffect DEF Types, HelperThere
  <2>2. disk'.helper # None \/ run'.at \in Rollback \cup {"helperBack"}
    BY <1>0, <1>6, <2>1, PublishEffect DEF Disk
  <2>3. HelperThere'
    BY <2>2 DEF HelperThere
  <2> QED
    BY <1>0, <1>6, <2>3, PublishEffect DEF Quiet, Moved, Types, OfInstall,
      OfRestore,
      Begun, Remembered, CreatedThere
<1>7. CASE WineIn
  <2>1. disk.helper # None \/ run.at = "helperIn"
    BY <1>7, WineInEffect DEF Types, HelperThere
  <2>2. disk'.helper # None \/ run'.at \in Rollback \cup {"helperBack"}
    BY <1>0, <1>7, <2>1, WineInEffect DEF Disk
  <2>3. HelperThere'
    BY <2>2 DEF HelperThere
  <2> QED
    BY <1>0, <1>7, <2>3, WineInEffect DEF Quiet, Moved, Types, OfInstall,
      OfRestore,
      Begun, Remembered, CreatedThere
<1>8. CASE WineBack
  BY <1>0, <1>8, WineBackEffect DEF Quiet, Moved, Disk, Types, OfInstall,
    OfRestore, Begun, Remembered, CreatedThere, HelperThere
<1>9. CASE Complete
  <2>1. disk.helper # None \/ run.at = "helperIn"
    BY <1>9, CompleteEffect DEF Types, HelperThere
  <2>2. disk'.helper # None \/ run'.at \in Rollback \cup {"helperBack"}
    BY <1>0, <1>9, <2>1, CompleteEffect DEF Disk, Completed
  <2>3. HelperThere'
    BY <2>2 DEF HelperThere
  <2> QED
    BY <1>0, <1>9, <2>3, CompleteEffect DEF Quiet, Moved, Types, OfInstall,
      OfRestore,
      Begun, Remembered, CreatedThere
<1>10. CASE UndoWine
  BY <1>0, <1>10, UndoWineEffect DEF Quiet, Moved, Disk, Types, OfInstall,
    OfRestore, Begun, Remembered, CreatedThere, HelperThere
<1>11. CASE UndoMove
  BY <1>0, <1>11, UndoMoveEffect DEF Quiet, Moved, Disk, Types, OfInstall,
    OfRestore, Begun, Remembered, CreatedThere, HelperThere
<1>12. CASE UndoFront
  BY <1>0, <1>12, UndoFrontEffect DEF Quiet, Moved, Disk, Types, OfInstall,
    OfRestore, Begun, Remembered, CreatedThere, HelperThere
<1>13. CASE UndoHelper
  BY <1>0, <1>13, UndoHelperEffect DEF Quiet, Moved, Disk, Types, OfInstall,
    OfRestore, Begun, Remembered, CreatedThere, HelperThere
<1>14. CASE RestoreFront
  BY <1>0, <1>14, RestoreFrontEffect DEF Quiet, Moved, Disk, Types, OfInstall,
    OfRestore, Begun, Remembered, CreatedThere, HelperThere
<1>15. CASE RestoreAway
  BY <1>0, <1>15, RestoreAwayEffect DEF Quiet, Moved, Disk, Types, OfInstall,
    OfRestore, Begun, Remembered, CreatedThere, HelperThere
<1>16. CASE RestoreIn
  BY <1>0, <1>16, RestoreInEffect DEF Quiet, Moved, Disk, Types, OfInstall,
    OfRestore, Begun, Remembered, CreatedThere, HelperThere
<1>17. CASE RestoreBack
  BY <1>0, <1>17, RestoreBackEffect DEF Quiet, Moved, Disk, Types, OfInstall,
    OfRestore, Begun, Remembered, CreatedThere, HelperThere
<1>18. CASE RestoreDrop
  BY <1>0, <1>18, RestoreDropEffect DEF Quiet, Moved, Disk, Types, OfInstall,
    OfRestore, Begun, Remembered, CreatedThere, HelperThere
<1>19. CASE RemoveHelper
  BY <1>0, <1>19, RemoveHelperEffect DEF Quiet, Moved, Disk, Types, OfInstall,
    OfRestore, Begun, Remembered, CreatedThere, HelperThere
<1>20. CASE BackUp
  <2>1. disk' \in Disk /\ run' \in Run /\ past' \in Past
    BY <1>20, BackUpEffect DEF SameButSelection, Types
  <2>2. /\ run'.at \in Forward \cup {"dropBackups", "failed"}
        /\ run.op = "install" /\ run'.op = run.op
    BY <1>20, BackUpEffect DEF Types, OfInstall
  <2>3. OfInstall' /\ OfRestore' /\ Begun'
    BY <2>2 DEF OfInstall, OfRestore, Begun
  <2>4. Remembered'
    BY <1>0, <1>20, BackUpEffect DEF Types, Remembered, Disk
  <2>5. CreatedThere'
    BY <1>0, <1>20, BackUpEffect, RunFacts, NamesFacts DEF Types, CreatedThere,
      Disk
  <2>6. HelperThere'
    BY <1>0, <1>20, BackUpEffect DEF Types, HelperThere, SameButSelection, Disk
  <2> QED BY <2>1, <2>3, <2>4, <2>5, <2>6 DEF Types
<1>21. CASE HelperAway
  <2>1. disk' \in Disk /\ run' \in Run /\ past' \in Past
    BY <1>21, HelperAwayEffect DEF SameButSelection, Types
  <2>2. /\ run'.at \in Forward \cup {"dropBackups", "failed"}
        /\ run.op = "install" /\ run'.op = run.op
    BY <1>21, HelperAwayEffect DEF Types, OfInstall
  <2>3. OfInstall' /\ OfRestore' /\ Begun'
    BY <2>2 DEF OfInstall, OfRestore, Begun
  <2>4. Remembered'
    BY <1>0, <1>21, HelperAwayEffect DEF Types, Remembered, Disk
  <2>5. CreatedThere'
    BY <1>0, <1>21, HelperAwayEffect, RunFacts, NamesFacts DEF Types,
      CreatedThere, Disk
  <2>6. HelperThere'
    BY <1>0, <1>21, HelperAwayEffect DEF Types, HelperThere, SameButSelection,
      Disk
  <2> QED BY <2>1, <2>3, <2>4, <2>5, <2>6 DEF Types
<1>22. CASE ReadSelection
  <2>1. disk' \in Disk /\ run' \in Run /\ past' \in Past
    BY <1>22, ReadSelectionEffect DEF SameButSelection, Types
  <2>2. /\ run'.at \in Forward \cup {"dropBackups", "failed"}
        /\ run.op = "install" /\ run'.op = run.op
    BY <1>22, ReadSelectionEffect DEF Types, OfInstall
  <2>3. OfInstall' /\ OfRestore' /\ Begun'
    BY <2>2 DEF OfInstall, OfRestore, Begun
  <2>4. Remembered'
    BY <1>0, <1>22, ReadSelectionEffect DEF Types, Remembered, Disk
  <2>5. CreatedThere'
    BY <1>0, <1>22, ReadSelectionEffect, RunFacts, NamesFacts DEF Types,
      CreatedThere, Disk
  <2>6. HelperThere'
    BY <1>0, <1>22, ReadSelectionEffect DEF Types, HelperThere,
      SameButSelection, Disk
  <2> QED BY <2>1, <2>3, <2>4, <2>5, <2>6 DEF Types
<1>23. CASE WineAway
  <2>1. disk' \in Disk /\ run' \in Run /\ past' \in Past
    BY <1>23, WineAwayEffect DEF SameButSelection, Types
  <2>2. /\ run'.at \in Forward \cup {"dropBackups", "failed"}
        /\ run.op = "install" /\ run'.op = run.op
    BY <1>23, WineAwayEffect DEF Types, OfInstall
  <2>3. OfInstall' /\ OfRestore' /\ Begun'
    BY <2>2 DEF OfInstall, OfRestore, Begun
  <2>4. Remembered'
    BY <1>0, <1>23, WineAwayEffect DEF Types, Remembered, Disk
  <2>5. CreatedThere'
    BY <1>0, <1>23, WineAwayEffect, RunFacts, NamesFacts DEF Types,
      CreatedThere, Disk
  <2>6. HelperThere'
    BY <1>0, <1>23, WineAwayEffect DEF Types, HelperThere, SameButSelection,
      Disk
  <2> QED BY <2>1, <2>3, <2>4, <2>5, <2>6 DEF Types
<1>24. CASE Activate
  BY <1>0, <1>24, ActivateEffect, RunFacts DEF Moved, SameButSelection, Files,
    Types, OfInstall, OfRestore, Begun, Remembered, CreatedThere, HelperThere
<1>25. CASE UndoSelection
  BY <1>0, <1>25, UndoSelectionEffect, RunFacts DEF Moved, SameButSelection,
    Files, Types, OfInstall, OfRestore, Begun, Remembered, CreatedThere,
    HelperThere
<1>26. CASE DropBackups
  BY <1>0, <1>26, DropBackupsEffect, RunFacts DEF Moved, SameButSelection,
    Files,
    Types, OfInstall, OfRestore, Begun, Remembered, CreatedThere, HelperThere
<1>27. CASE RestoreSelection
  BY <1>0, <1>27, RestoreSelectionEffect, RunFacts DEF Moved, SameButSelection,
    Files, Types, OfInstall, OfRestore, Begun, Remembered, CreatedThere,
    HelperThere
<1>28. CASE RemoveBackups
  BY <1>0, <1>28, RemoveBackupsEffect, RunFacts DEF Moved, SameButSelection,
    Files, Types, OfInstall, OfRestore, Begun, Remembered, CreatedThere,
    HelperThere
<1>29. CASE End
  BY <1>0, <1>29, EndEffect, AbandonedFacts DEF Types, OfInstall, OfRestore,
    Begun, Remembered, CreatedThere, HelperThere
<1>30. CASE Crash
  BY <1>0, <1>30, CrashEffect, AbandonedFacts DEF Types, OfInstall, OfRestore,
    Begun, Remembered, CreatedThere, HelperThere
<1>31. CASE \E r \in Stock \cup {Ours} : SelectRuntime(r)
  BY <1>31, SelectRuntimeEffect, NoRunFacts DEF Types, OfInstall, OfRestore,
    Begun, Remembered, CreatedThere, HelperThere
<1>32. CASE \E v \in Versions : ReplaceFrontend(v) \/ UpdateFrontend(v)
  BY <1>32, FrontendEffect, NoRunFacts DEF Types, OfInstall, OfRestore, Begun,
    Remembered, CreatedThere, HelperThere
<1>33. CASE UNCHANGED vars
  BY <1>33 DEF vars, Types, OfInstall, OfRestore, Begun, Remembered,
    CreatedThere,
    HelperThere
<1> QED BY <1>1, <1>2, <1>3, <1>4, <1>5, <1>6, <1>7, <1>8, <1>9, <1>10,
      <1>11, <1>12, <1>13, <1>14, <1>15, <1>16, <1>17, <1>18, <1>19, <1>20,
      <1>21, <1>22, <1>23, <1>24, <1>25, <1>26, <1>27, <1>28, <1>29, <1>30,
      <1>31, <1>32, <1>33
  DEF Next, InstallStep, RollbackStep, RestoreStep

-----------------------------------------------------------------------------
(* The inductive invariant. *)

(* Where the process is before it has touched the runtime. *)
BeforeWine ==
  {"backUp", "helperAway", "helperIn", "helperBack", "writeBackup", "publish",
   "select", "wineAway"}
(* Where the runtime of before the attempt is aside. *)
WineMoved == {"wineIn", "wineBack", "activate", "complete", "undoWine", "undoMove"}
(* Where the rollback has dealt with the runtime. *)
WineUndone == {"undoSelection", "dropBackups", "undoFront", "undoHelper"}

AsideFree ==
  run.at \in BeforeWine \cup {"idle", "restoreFront", "restoreSelection", "restoreAway"} =>
    disk.aside = None
BackupIsOriginal ==
  disk.bak # None =>
    past.original # None /\ past.original \in {disk.bak} \cup disk.orphans
OriginalNamed ==
  /\ run.at \in BeforeWine => (disk.wine # None => past.original # None)
  /\ run.at \in WineMoved => (disk.aside # None => past.original # None)
OriginalAside ==
  run.at \in WineMoved =>
    /\ past.original # None => past.original \in {disk.aside, disk.bak} \cup disk.orphans
    /\ run.hadBak <=> disk.bak # None
BackupUntilRestored ==
  /\ run.at \in {"restoreFront", "restoreSelection", "restoreAway", "restoreIn", "restoreBack"} =>
       disk.bak # None
  /\ run.at \in {"restoreDrop", "removeHelper", "removeBackups", "restored"} => disk.bak = None
  /\ run.at = "restoreDrop" =>
       (past.original # None => past.original \in {disk.wine} \cup disk.orphans)

SurvivalInv ==
  /\ AsideFree
  /\ BackupIsOriginal
  /\ OriginalNamed
  /\ OriginalAside
  /\ BackupUntilRestored
  /\ OriginalSurvives

(* The installation in progress, or the one that has just ended. *)
Installing == run.op = "install"
Single == run.faults <= 1
RolledBack == run.at = "failed" \/ (run.at = "idle" /\ run.result = "failed")

FaultsCounted ==
  /\ run.at \in Rollback \cup {"helperBack", "wineBack"} => run.faults > 0
  /\ Installing /\ RolledBack => run.faults > 0
  /\ Installing /\ run.at = "idle" => run.result \in {"installed", "failed"}
BackupAsBefore ==
  Installing /\ run.at # "installed" /\ ~(run.at = "idle" /\ run.result = "installed") =>
    disk.bak = run.previous.bak
WineAsBefore ==
  Installing =>
    /\ run.at \in BeforeWine => disk.wine = run.previous.wine
    /\ run.at \in WineMoved =>
         \/ disk.aside = run.previous.wine
         \/ run.at \in {"undoWine", "undoMove"} /\ run.hadBak /\ disk.aside = "damaged"
    /\ Single /\ (run.at \in WineUndone \/ RolledBack) =>
         disk.wine = run.previous.wine \/ (run.hadBak /\ disk.wine = "damaged")
SelectionAsBefore ==
  Installing =>
    /\ run.at \in {"wineAway", "wineIn", "wineBack", "activate", "complete",
                   "undoWine", "undoMove", "undoSelection"} =>
         run.selection = run.previous.sel
    /\ run.at \in BeforeWine \cup {"wineIn", "wineBack"} => disk.sel = run.previous.sel
    /\ Single /\ run.at = "undoSelection" /\ run.file = "state" =>
         disk.sel["tag"] = run.previous.sel["tag"]
    /\ Single /\ (run.at \in {"dropBackups", "undoFront", "undoHelper"} \/ RolledBack) =>
         disk.sel = run.previous.sel
CreatedAsBefore ==
  Installing =>
    /\ run.at \in BeforeWine \cup WineMoved \cup {"undoSelection"} =>
         \A f \in run.created : disk.selBak[f] = run.previous.sel[f]
    /\ run.at = "dropBackups" =>
         \A f \in run.created :
           (f = "tag" /\ run.file = "state") \/ disk.selBak[f] = run.previous.sel[f]
FrontAsBefore ==
  Installing =>
    /\ disk.version = run.previous.version
    /\ run.at \in {"backUp", "helperAway", "helperIn", "helperBack", "writeBackup", "publish"} =>
         disk.registered = run.previous.registered
    /\ Single /\ (run.at = "undoHelper" \/ RolledBack) =>
         disk.registered = run.previous.registered
HelperAsBefore ==
  Installing =>
    /\ run.at \in {"backUp", "helperAway"} => disk.helper = run.previous.helper
    /\ run.at \in {"helperIn", "helperBack"} => run.oldHelper = run.previous.helper
    /\ run.at \in {"writeBackup", "publish", "select", "wineAway", "wineIn", "wineBack",
                   "activate", "complete"} \/ (Single /\ run.at \in Rollback) \/ (Single /\ RolledBack) =>
         /\ run.previous.helper # None =>
              disk.helper # None /\ run.previous.helper \subseteq disk.helper
    /\ Single /\ RolledBack => (run.previous.helper = None => disk.helper = None)

RollbackInv ==
  /\ FaultsCounted
  /\ BackupAsBefore
  /\ WineAsBefore
  /\ SelectionAsBefore
  /\ CreatedAsBefore
  /\ FrontAsBefore
  /\ HelperAsBefore

(* The frontend of a folder can be restored. *)
Pristine(d) == d.registered => d.helper # None /\ d.version \in d.helper

RestorableInv ==
  /\ run.at \in {"publish", "select", "wineAway", "wineIn", "wineBack",
                 "activate", "complete", "installed"} =>
       disk.version \in disk.helper
  /\ run.at # "idle" /\ ~past.broken => Pristine(run.previous)
  /\ run.at \in Restoring \ {"restoreFront"} => ~disk.registered
  /\ (run.at = "restoreFront" \/ (run.op = "restore" /\ run.at = "failed")) /\ ~past.broken =>
       Pristine(disk)
  /\ Restorable

(* wine.bak and its companions hold what they are to hold. *)
BackupExact ==
  disk.bak # None /\ ~past.mixed =>
    /\ past.saved \in Saved
    /\ disk.bak = past.saved.wine
    /\ \A f \in Files : disk.selBak[f] = past.saved.sel[f]
BackingUp ==
  Installing /\ run.at \in Forward \cup Rollback /\ ~past.mixed =>
    /\ run.previous.bak # None => run.created = {}
    /\ run.previous.bak = None /\ run.at \in Forward \ {"installed"} =>
         /\ past.saved = [wine |-> run.previous.wine, sel |-> run.previous.sel]
         /\ \A f \in Files :
              disk.selBak[f] = IF run.at = "backUp" /\ (f = "state" \/ run.file = "tag")
                               THEN Absent ELSE run.previous.sel[f]
RestoringExact ==
  ~past.mixed =>
    /\ run.at = "restoreSelection" /\ run.file = "state" =>
         disk.sel["tag"] = past.saved.sel["tag"]
    /\ run.at \in {"restoreAway", "restoreIn", "restoreBack", "restoreDrop",
                   "removeHelper", "removeBackups", "restored"} =>
         disk.sel = past.saved.sel
    /\ run.at \in {"restoreDrop", "removeHelper", "removeBackups", "restored"} =>
         disk.wine = past.saved.wine

ExactInv ==
  /\ BackupExact
  /\ BackingUp
  /\ RestoringExact
  /\ RestoreExact

-----------------------------------------------------------------------------
(* The user's runtime is kept by every step. *)
LEMMA SurvivalInvStep ==
  Types /\ SurvivalInv /\ [Next]_vars => SurvivalInv'
<1> SUFFICES ASSUME Types, SurvivalInv, [Next]_vars PROVE SurvivalInv'
  OBVIOUS
<1>0. run \in Run /\ disk \in Disk /\ past \in Past /\ run.faults \in Nat
  BY RunFacts DEF Types
<1> USE DEF SurvivalInv, AsideFree, BackupIsOriginal, OriginalNamed,
      OriginalAside, BackupUntilRestored, OriginalSurvives, BeforeWine, WineMoved,
      Restoring
<1>1. CASE Install
  BY <1>1, InstallEffect
<1>2. CASE Restore
  BY <1>2, RestoreEffect
<1>3. CASE HelperIn
  BY <1>0, <1>3, HelperInEffect DEF Quiet, Moved, Disk
<1>4. CASE HelperBack
  BY <1>0, <1>4, HelperBackEffect DEF Quiet, Moved, Disk
<1>5. CASE WriteBackup
  BY <1>0, <1>5, WriteBackupEffect DEF Quiet, Moved, Disk
<1>6. CASE Publish
  BY <1>0, <1>6, PublishEffect DEF Quiet, Moved, Disk
<1>7. CASE WineIn
  BY <1>0, <1>7, WineInEffect DEF Quiet, Moved, Disk
<1>8. CASE WineBack
  BY <1>0, <1>8, WineBackEffect DEF Quiet, Moved, Disk
<1>9. CASE Complete
  BY <1>0, <1>9, CompleteEffect DEF Quiet, Moved, Disk, Completed
<1>10. CASE UndoWine
  BY <1>0, <1>10, UndoWineEffect DEF Quiet, Moved, Disk
<1>11. CASE UndoMove
  BY <1>0, <1>11, UndoMoveEffect DEF Quiet, Moved, Disk
<1>12. CASE UndoFront
  BY <1>0, <1>12, UndoFrontEffect DEF Quiet, Moved, Disk
<1>13. CASE UndoHelper
  BY <1>0, <1>13, UndoHelperEffect DEF Quiet, Moved, Disk
<1>14. CASE RestoreFront
  BY <1>0, <1>14, RestoreFrontEffect DEF Quiet, Moved, Disk
<1>15. CASE RestoreAway
  BY <1>0, <1>15, RestoreAwayEffect DEF Quiet, Moved, Disk
<1>16. CASE RestoreIn
  BY <1>0, <1>16, RestoreInEffect DEF Quiet, Moved, Disk
<1>17. CASE RestoreBack
  BY <1>0, <1>17, RestoreBackEffect DEF Quiet, Moved, Disk
<1>18. CASE RestoreDrop
  BY <1>0, <1>18, RestoreDropEffect DEF Quiet, Moved, Disk
<1>19. CASE RemoveHelper
  BY <1>0, <1>19, RemoveHelperEffect DEF Quiet, Moved, Disk
<1>20. CASE BackUp
  BY <1>0, <1>20, BackUpEffect DEF Moved, SameButSelection, Disk
<1>21. CASE HelperAway
  BY <1>0, <1>21, HelperAwayEffect DEF Moved, SameButSelection, Disk
<1>22. CASE ReadSelection
  BY <1>0, <1>22, ReadSelectionEffect DEF Moved, SameButSelection, Disk
<1>23. CASE WineAway
  BY <1>0, <1>23, WineAwayEffect DEF Moved, SameButSelection, Disk
<1>24. CASE Activate
  BY <1>0, <1>24, ActivateEffect DEF Moved, SameButSelection, Disk
<1>25. CASE UndoSelection
  BY <1>0, <1>25, UndoSelectionEffect DEF Moved, SameButSelection, Disk
<1>26. CASE DropBackups
  BY <1>0, <1>26, DropBackupsEffect DEF Moved, SameButSelection, Disk
<1>27. CASE RestoreSelection
  BY <1>0, <1>27, RestoreSelectionEffect DEF Moved, SameButSelection, Disk
<1>28. CASE RemoveBackups
  BY <1>0, <1>28, RemoveBackupsEffect DEF Moved, SameButSelection, Disk
<1>29. CASE End
  BY <1>0, <1>29, EndEffect, AbandonedFacts
<1>30. CASE Crash
  BY <1>0, <1>30, CrashEffect, AbandonedFacts
<1>31. CASE \E r \in Stock \cup {Ours} : SelectRuntime(r)
  BY <1>31, SelectRuntimeEffect, NoRunFacts
<1>32. CASE \E v \in Versions : ReplaceFrontend(v) \/ UpdateFrontend(v)
  BY <1>32, FrontendEffect, NoRunFacts
<1>33. CASE UNCHANGED vars
  BY <1>33 DEF vars
<1> QED BY <1>1, <1>2, <1>3, <1>4, <1>5, <1>6, <1>7, <1>8, <1>9, <1>10,
      <1>11, <1>12, <1>13, <1>14, <1>15, <1>16, <1>17, <1>18, <1>19, <1>20,
      <1>21, <1>22, <1>23, <1>24, <1>25, <1>26, <1>27, <1>28, <1>29, <1>30,
      <1>31, <1>32, <1>33
  DEF Next, InstallStep, RollbackStep, RestoreStep

(* What an installation may have to undo is kept by every step. *)
LEMMA RollbackInvStep ==
  Types /\ RollbackInv /\ [Next]_vars => RollbackInv'
<1> SUFFICES ASSUME Types, RollbackInv, [Next]_vars PROVE RollbackInv'
  OBVIOUS
<1>0. run \in Run /\ disk \in Disk /\ past \in Past /\ run.faults \in Nat
  BY RunFacts DEF Types
<1> USE DEF Types, OfInstall, OfRestore, RollbackInv, Installing, Single,
      RolledBack, BeforeWine, WineMoved, WineUndone, Forward, Rollback, Restoring
<1>1. CASE Install
  BY <1>1, InstallEffect DEF FaultsCounted, BackupAsBefore, WineAsBefore,
    SelectionAsBefore, CreatedAsBefore, FrontAsBefore, HelperAsBefore
<1>2. CASE Restore
  BY <1>2, RestoreEffect DEF FaultsCounted, BackupAsBefore, WineAsBefore,
    SelectionAsBefore, CreatedAsBefore, FrontAsBefore, HelperAsBefore
<1>3. CASE HelperIn
  <2> USE <1>0, <1>3, HelperInEffect DEF Quiet, Moved, Disk
  <2>1. FaultsCounted'
    BY DEF FaultsCounted
  <2>2. BackupAsBefore'
    BY DEF BackupAsBefore, FaultsCounted
  <2>3. WineAsBefore'
    BY DEF WineAsBefore, FaultsCounted
  <2>4. SelectionAsBefore'
    BY DEF SelectionAsBefore, FaultsCounted, CreatedAsBefore
  <2>5. CreatedAsBefore'
    BY DEF CreatedAsBefore, FaultsCounted
  <2>6. FrontAsBefore'
    BY DEF FrontAsBefore, FaultsCounted
  <2>7. HelperAsBefore'
    BY DEF HelperAsBefore, FaultsCounted
  <2> QED BY <2>1, <2>2, <2>3, <2>4, <2>5, <2>6, <2>7
<1>4. CASE HelperBack
  <2> USE <1>0, <1>4, HelperBackEffect DEF Quiet, Moved, Disk
  <2>1. FaultsCounted'
    BY DEF FaultsCounted
  <2>2. BackupAsBefore'
    BY DEF BackupAsBefore, FaultsCounted
  <2>3. WineAsBefore'
    BY DEF WineAsBefore, FaultsCounted
  <2>4. SelectionAsBefore'
    BY DEF SelectionAsBefore, FaultsCounted, CreatedAsBefore
  <2>5. CreatedAsBefore'
    BY DEF CreatedAsBefore, FaultsCounted
  <2>6. FrontAsBefore'
    BY DEF FrontAsBefore, FaultsCounted
  <2>7. HelperAsBefore'
    BY DEF HelperAsBefore, FaultsCounted
  <2> QED BY <2>1, <2>2, <2>3, <2>4, <2>5, <2>6, <2>7
<1>5. CASE WriteBackup
  <2> USE <1>0, <1>5, WriteBackupEffect DEF Quiet, Moved, Disk
  <2>1. FaultsCounted'
    BY DEF FaultsCounted
  <2>2. BackupAsBefore'
    BY DEF BackupAsBefore, FaultsCounted
  <2>3. WineAsBefore'
    BY DEF WineAsBefore, FaultsCounted
  <2>4. SelectionAsBefore'
    BY DEF SelectionAsBefore, FaultsCounted, CreatedAsBefore
  <2>5. CreatedAsBefore'
    BY DEF CreatedAsBefore, FaultsCounted
  <2>6. FrontAsBefore'
    BY DEF FrontAsBefore, FaultsCounted
  <2>7. HelperAsBefore'
    BY DEF HelperAsBefore, FaultsCounted
  <2> QED BY <2>1, <2>2, <2>3, <2>4, <2>5, <2>6, <2>7
<1>6. CASE Publish
  <2> USE <1>0, <1>6, PublishEffect DEF Quiet, Moved, Disk
  <2>1. FaultsCounted'
    BY DEF FaultsCounted
  <2>2. BackupAsBefore'
    BY DEF BackupAsBefore, FaultsCounted
  <2>3. WineAsBefore'
    BY DEF WineAsBefore, FaultsCounted
  <2>4. SelectionAsBefore'
    BY DEF SelectionAsBefore, FaultsCounted, CreatedAsBefore
  <2>5. CreatedAsBefore'
    BY DEF CreatedAsBefore, FaultsCounted
  <2>6. FrontAsBefore'
    BY DEF FrontAsBefore, FaultsCounted
  <2>7. HelperAsBefore'
    BY DEF HelperAsBefore, FaultsCounted
  <2> QED BY <2>1, <2>2, <2>3, <2>4, <2>5, <2>6, <2>7
<1>7. CASE WineIn
  <2> USE <1>0, <1>7, WineInEffect DEF Quiet, Moved, Disk
  <2>1. FaultsCounted'
    BY DEF FaultsCounted
  <2>2. BackupAsBefore'
    BY DEF BackupAsBefore, FaultsCounted
  <2>3. WineAsBefore'
    BY DEF WineAsBefore, FaultsCounted
  <2>4. SelectionAsBefore'
    BY DEF SelectionAsBefore, FaultsCounted, CreatedAsBefore
  <2>5. CreatedAsBefore'
    BY DEF CreatedAsBefore, FaultsCounted
  <2>6. FrontAsBefore'
    BY DEF FrontAsBefore, FaultsCounted
  <2>7. HelperAsBefore'
    BY DEF HelperAsBefore, FaultsCounted
  <2> QED BY <2>1, <2>2, <2>3, <2>4, <2>5, <2>6, <2>7
<1>8. CASE WineBack
  <2> USE <1>0, <1>8, WineBackEffect DEF Quiet, Moved, Disk
  <2>1. FaultsCounted'
    BY DEF FaultsCounted
  <2>2. BackupAsBefore'
    BY DEF BackupAsBefore, FaultsCounted
  <2>3. WineAsBefore'
    BY DEF WineAsBefore, FaultsCounted
  <2>4. SelectionAsBefore'
    BY DEF SelectionAsBefore, FaultsCounted, CreatedAsBefore
  <2>5. CreatedAsBefore'
    BY DEF CreatedAsBefore, FaultsCounted
  <2>6. FrontAsBefore'
    BY DEF FrontAsBefore, FaultsCounted
  <2>7. HelperAsBefore'
    BY DEF HelperAsBefore, FaultsCounted
  <2> QED BY <2>1, <2>2, <2>3, <2>4, <2>5, <2>6, <2>7
<1>9. CASE Complete
  <2> USE <1>0, <1>9, CompleteEffect DEF Quiet, Moved, Disk, Completed
  <2>1. FaultsCounted'
    BY DEF FaultsCounted
  <2>2. BackupAsBefore'
    BY DEF BackupAsBefore, FaultsCounted
  <2>3. WineAsBefore'
    BY DEF WineAsBefore, FaultsCounted
  <2>4. SelectionAsBefore'
    BY DEF SelectionAsBefore, FaultsCounted, CreatedAsBefore
  <2>5. CreatedAsBefore'
    BY DEF CreatedAsBefore, FaultsCounted
  <2>6. FrontAsBefore'
    BY DEF FrontAsBefore, FaultsCounted
  <2>7. HelperAsBefore'
    BY DEF HelperAsBefore, FaultsCounted
  <2> QED BY <2>1, <2>2, <2>3, <2>4, <2>5, <2>6, <2>7
<1>10. CASE UndoWine
  <2> USE <1>0, <1>10, UndoWineEffect DEF Quiet, Moved, Disk
  <2>1. FaultsCounted'
    BY DEF FaultsCounted
  <2>2. BackupAsBefore'
    BY DEF BackupAsBefore, FaultsCounted
  <2>3. WineAsBefore'
    BY DEF WineAsBefore, FaultsCounted
  <2>4. SelectionAsBefore'
    BY DEF SelectionAsBefore, FaultsCounted, CreatedAsBefore
  <2>5. CreatedAsBefore'
    BY DEF CreatedAsBefore, FaultsCounted
  <2>6. FrontAsBefore'
    BY DEF FrontAsBefore, FaultsCounted
  <2>7. HelperAsBefore'
    BY DEF HelperAsBefore, FaultsCounted
  <2> QED BY <2>1, <2>2, <2>3, <2>4, <2>5, <2>6, <2>7
<1>11. CASE UndoMove
  <2> USE <1>0, <1>11, UndoMoveEffect DEF Quiet, Moved, Disk
  <2>1. FaultsCounted'
    BY DEF FaultsCounted
  <2>2. BackupAsBefore'
    BY DEF BackupAsBefore, FaultsCounted
  <2>3. WineAsBefore'
    BY DEF WineAsBefore, FaultsCounted
  <2>4. SelectionAsBefore'
    BY DEF SelectionAsBefore, FaultsCounted, CreatedAsBefore
  <2>5. CreatedAsBefore'
    BY DEF CreatedAsBefore, FaultsCounted
  <2>6. FrontAsBefore'
    BY DEF FrontAsBefore, FaultsCounted
  <2>7. HelperAsBefore'
    BY DEF HelperAsBefore, FaultsCounted
  <2> QED BY <2>1, <2>2, <2>3, <2>4, <2>5, <2>6, <2>7
<1>12. CASE UndoFront
  <2> USE <1>0, <1>12, UndoFrontEffect DEF Quiet, Moved, Disk
  <2>1. FaultsCounted'
    BY DEF FaultsCounted
  <2>2. BackupAsBefore'
    BY DEF BackupAsBefore, FaultsCounted
  <2>3. WineAsBefore'
    BY DEF WineAsBefore, FaultsCounted
  <2>4. SelectionAsBefore'
    BY DEF SelectionAsBefore, FaultsCounted, CreatedAsBefore
  <2>5. CreatedAsBefore'
    BY DEF CreatedAsBefore, FaultsCounted
  <2>6. FrontAsBefore'
    BY DEF FrontAsBefore, FaultsCounted
  <2>7. HelperAsBefore'
    BY DEF HelperAsBefore, FaultsCounted
  <2> QED BY <2>1, <2>2, <2>3, <2>4, <2>5, <2>6, <2>7
<1>13. CASE UndoHelper
  <2> USE <1>0, <1>13, UndoHelperEffect DEF Quiet, Moved, Disk
  <2>1. FaultsCounted'
    BY DEF FaultsCounted
  <2>2. BackupAsBefore'
    BY DEF BackupAsBefore, FaultsCounted
  <2>3. WineAsBefore'
    BY DEF WineAsBefore, FaultsCounted
  <2>4. SelectionAsBefore'
    BY DEF SelectionAsBefore, FaultsCounted, CreatedAsBefore
  <2>5. CreatedAsBefore'
    BY DEF CreatedAsBefore, FaultsCounted
  <2>6. FrontAsBefore'
    BY DEF FrontAsBefore, FaultsCounted
  <2>7. HelperAsBefore'
    BY DEF HelperAsBefore, FaultsCounted
  <2> QED BY <2>1, <2>2, <2>3, <2>4, <2>5, <2>6, <2>7
<1>14. CASE RestoreFront
  BY <1>0, <1>14, RestoreFrontEffect DEF Quiet, Moved, Disk, FaultsCounted,
    BackupAsBefore, WineAsBefore, SelectionAsBefore, CreatedAsBefore,
    FrontAsBefore, HelperAsBefore
<1>15. CASE RestoreAway
  BY <1>0, <1>15, RestoreAwayEffect DEF Quiet, Moved, Disk, FaultsCounted,
    BackupAsBefore, WineAsBefore, SelectionAsBefore, CreatedAsBefore,
    FrontAsBefore, HelperAsBefore
<1>16. CASE RestoreIn
  BY <1>0, <1>16, RestoreInEffect DEF Quiet, Moved, Disk, FaultsCounted,
    BackupAsBefore, WineAsBefore, SelectionAsBefore, CreatedAsBefore,
    FrontAsBefore, HelperAsBefore
<1>17. CASE RestoreBack
  BY <1>0, <1>17, RestoreBackEffect DEF Quiet, Moved, Disk, FaultsCounted,
    BackupAsBefore, WineAsBefore, SelectionAsBefore, CreatedAsBefore,
    FrontAsBefore, HelperAsBefore
<1>18. CASE RestoreDrop
  BY <1>0, <1>18, RestoreDropEffect DEF Quiet, Moved, Disk, FaultsCounted,
    BackupAsBefore, WineAsBefore, SelectionAsBefore, CreatedAsBefore,
    FrontAsBefore, HelperAsBefore
<1>19. CASE RemoveHelper
  BY <1>0, <1>19, RemoveHelperEffect DEF Quiet, Moved, Disk, FaultsCounted,
    BackupAsBefore, WineAsBefore, SelectionAsBefore, CreatedAsBefore,
    FrontAsBefore, HelperAsBefore
<1>20. CASE BackUp
  <2> USE <1>0, <1>20, BackUpEffect DEF Moved, SameButSelection, Disk
  <2>1. FaultsCounted'
    BY DEF FaultsCounted
  <2>2. BackupAsBefore'
    BY DEF BackupAsBefore, FaultsCounted
  <2>3. WineAsBefore'
    BY DEF WineAsBefore, FaultsCounted
  <2>4. SelectionAsBefore'
    BY DEF SelectionAsBefore, FaultsCounted, CreatedAsBefore
  <2>5. CreatedAsBefore'
    <3>1. /\ run.created \subseteq Files /\ run.file \in Files
          /\ disk.selBak \in [Files -> Content \cup {Absent}]
      BY <1>0, RunFacts DEF Disk
    <3>2. Installing => disk.sel = run.previous.sel
      BY <1>20, BackUpEffect DEF RollbackInv, SelectionAsBefore, BeforeWine
    <3>3. Installing => \A f \in run.created : disk.selBak[f] = run.previous.sel[f]
      BY <1>20, BackUpEffect DEF RollbackInv, CreatedAsBefore, BeforeWine
    <3>4. Installing => \A f \in run'.created : disk'.selBak[f] = run.previous.sel[f]
      BY <1>20, <3>1, <3>2, <3>3, BackUpEffect
    <3> QED BY <1>20, <3>4, BackUpEffect DEF CreatedAsBefore, Installing
  <2>6. FrontAsBefore'
    BY DEF FrontAsBefore, FaultsCounted
  <2>7. HelperAsBefore'
    BY DEF HelperAsBefore, FaultsCounted
  <2> QED BY <2>1, <2>2, <2>3, <2>4, <2>5, <2>6, <2>7
<1>21. CASE HelperAway
  <2> USE <1>0, <1>21, HelperAwayEffect DEF Moved, SameButSelection, Disk
  <2>1. FaultsCounted'
    BY DEF FaultsCounted
  <2>2. BackupAsBefore'
    BY DEF BackupAsBefore, FaultsCounted
  <2>3. WineAsBefore'
    BY DEF WineAsBefore, FaultsCounted
  <2>4. SelectionAsBefore'
    BY DEF SelectionAsBefore, FaultsCounted, CreatedAsBefore
  <2>5. CreatedAsBefore'
    BY DEF CreatedAsBefore, FaultsCounted
  <2>6. FrontAsBefore'
    BY DEF FrontAsBefore, FaultsCounted
  <2>7. HelperAsBefore'
    BY DEF HelperAsBefore, FaultsCounted
  <2> QED BY <2>1, <2>2, <2>3, <2>4, <2>5, <2>6, <2>7
<1>22. CASE ReadSelection
  <2> USE <1>0, <1>22, ReadSelectionEffect DEF Moved, SameButSelection, Disk
  <2>1. FaultsCounted'
    BY DEF FaultsCounted
  <2>2. BackupAsBefore'
    BY DEF BackupAsBefore, FaultsCounted
  <2>3. WineAsBefore'
    BY DEF WineAsBefore, FaultsCounted
  <2>4. SelectionAsBefore'
    BY DEF SelectionAsBefore, FaultsCounted, CreatedAsBefore
  <2>5. CreatedAsBefore'
    BY DEF CreatedAsBefore, FaultsCounted
  <2>6. FrontAsBefore'
    BY DEF FrontAsBefore, FaultsCounted
  <2>7. HelperAsBefore'
    BY DEF HelperAsBefore, FaultsCounted
  <2> QED BY <2>1, <2>2, <2>3, <2>4, <2>5, <2>6, <2>7
<1>23. CASE WineAway
  <2> USE <1>0, <1>23, WineAwayEffect DEF Moved, SameButSelection, Disk
  <2>1. FaultsCounted'
    BY DEF FaultsCounted
  <2>2. BackupAsBefore'
    BY DEF BackupAsBefore, FaultsCounted
  <2>3. WineAsBefore'
    BY DEF WineAsBefore, FaultsCounted
  <2>4. SelectionAsBefore'
    BY DEF SelectionAsBefore, FaultsCounted, CreatedAsBefore
  <2>5. CreatedAsBefore'
    <3>1. disk'.selBak = disk.selBak
      BY <1>0, <1>23, WineAwayEffect DEF Disk
    <3> QED BY <1>23, <3>1, WineAwayEffect DEF RollbackInv, CreatedAsBefore,
          Installing,
          BeforeWine, WineMoved
  <2>6. FrontAsBefore'
    BY DEF FrontAsBefore, FaultsCounted
  <2>7. HelperAsBefore'
    BY DEF HelperAsBefore, FaultsCounted
  <2> QED BY <2>1, <2>2, <2>3, <2>4, <2>5, <2>6, <2>7
<1>24. CASE Activate
  <2> USE <1>0, <1>24, ActivateEffect DEF Moved, SameButSelection, Disk
  <2>1. FaultsCounted'
    BY DEF FaultsCounted
  <2>2. BackupAsBefore'
    BY DEF BackupAsBefore, FaultsCounted
  <2>3. WineAsBefore'
    BY DEF WineAsBefore, FaultsCounted
  <2>4. SelectionAsBefore'
    BY DEF SelectionAsBefore, FaultsCounted, CreatedAsBefore
  <2>5. CreatedAsBefore'
    BY DEF CreatedAsBefore, FaultsCounted
  <2>6. FrontAsBefore'
    BY DEF FrontAsBefore, FaultsCounted
  <2>7. HelperAsBefore'
    BY DEF HelperAsBefore, FaultsCounted
  <2> QED BY <2>1, <2>2, <2>3, <2>4, <2>5, <2>6, <2>7
<1>25. CASE UndoSelection
  <2> USE <1>0, <1>25, UndoSelectionEffect DEF Moved, SameButSelection, Disk
  <2>1. FaultsCounted'
    BY DEF FaultsCounted
  <2>2. BackupAsBefore'
    BY DEF BackupAsBefore, FaultsCounted
  <2>3. WineAsBefore'
    BY DEF WineAsBefore, FaultsCounted
  <2>4. SelectionAsBefore'
    <3>1. CASE run'.faults = run.faults + 1
      BY <1>0, <1>25, <3>1, UndoSelectionEffect DEF Moved, RollbackInv,
        SelectionAsBefore,
        FaultsCounted, Installing, Single, RolledBack, BeforeWine, Rollback
    <3>2. CASE run'.faults # run.faults + 1
      <4>1. /\ disk.sel \in [Files -> Content] /\ run.previous.sel \in [Files -> Content]
            /\ Installing /\ Installing'
        BY <1>25, UndoSelectionEffect DEF Types, Disk, Remembered, OfInstall,
          Rollback,
          Installing, Moved
      <4>2. /\ run.selection = run.previous.sel
            /\ run'.selection = run.selection /\ run'.previous = run.previous
            /\ disk'.sel = [disk.sel EXCEPT ![run.file] = run.previous.sel[run.file]]
        BY <1>25, <3>2, <4>1, UndoSelectionEffect DEF RollbackInv,
          SelectionAsBefore, Moved
      <4>3. CASE run.file = "tag"
        BY <1>0, <1>25, <3>2, <4>1, <4>2, <4>3, UndoSelectionEffect DEF
          SelectionAsBefore,
          RolledBack, BeforeWine, Files
      <4>4. CASE run.file = "state"
        <5>1. Single => disk'.sel = run.previous.sel
          BY <1>25, <4>1, <4>2, <4>4, UndoSelectionEffect DEF RollbackInv,
            SelectionAsBefore, Files
        <5> QED BY <1>0, <1>25, <3>2, <4>1, <4>2, <4>4, <5>1,
              UndoSelectionEffect
              DEF SelectionAsBefore, RolledBack, BeforeWine, Single
      <4> QED BY <1>25, <3>2, <4>3, <4>4, UndoSelectionEffect
    <3> QED BY <3>1, <3>2
  <2>5. CreatedAsBefore'
    BY DEF CreatedAsBefore, FaultsCounted
  <2>6. FrontAsBefore'
    BY DEF FrontAsBefore, FaultsCounted
  <2>7. HelperAsBefore'
    BY DEF HelperAsBefore, FaultsCounted
  <2> QED BY <2>1, <2>2, <2>3, <2>4, <2>5, <2>6, <2>7
<1>26. CASE DropBackups
  <2> USE <1>0, <1>26, DropBackupsEffect DEF Moved, SameButSelection, Disk
  <2>1. FaultsCounted'
    BY DEF FaultsCounted
  <2>2. BackupAsBefore'
    BY DEF BackupAsBefore, FaultsCounted
  <2>3. WineAsBefore'
    BY DEF WineAsBefore, FaultsCounted
  <2>4. SelectionAsBefore'
    BY DEF SelectionAsBefore, FaultsCounted, CreatedAsBefore
  <2>5. CreatedAsBefore'
    <3>1. run.created \subseteq Files /\ run'.created = run.created
          /\ run'.previous = run.previous /\ run'.op = run.op
      BY <1>0, <1>26, RunFacts, DropBackupsEffect DEF Moved
    <3>2. CASE run.file = "tag"
      <4>1. \A g \in run.created : g # "tag" => disk'.selBak[g] = disk.selBak[g]
        BY <1>26, <3>1, <3>2, DropBackupsEffect
      <4> QED BY <1>26, <3>1, <3>2, <4>1, DropBackupsEffect
            DEF RollbackInv, CreatedAsBefore, Installing, BeforeWine, WineMoved
    <3>3. CASE run.file # "tag"
      BY <1>26, <3>3, DropBackupsEffect DEF CreatedAsBefore, BeforeWine,
        WineMoved
    <3> QED BY <3>2, <3>3
  <2>6. FrontAsBefore'
    BY DEF FrontAsBefore, FaultsCounted
  <2>7. HelperAsBefore'
    BY DEF HelperAsBefore, FaultsCounted
  <2> QED BY <2>1, <2>2, <2>3, <2>4, <2>5, <2>6, <2>7
<1>27. CASE RestoreSelection
  BY <1>0, <1>27, RestoreSelectionEffect DEF Moved, SameButSelection, Disk,
    FaultsCounted, BackupAsBefore, WineAsBefore, SelectionAsBefore,
    CreatedAsBefore, FrontAsBefore, HelperAsBefore
<1>28. CASE RemoveBackups
  BY <1>0, <1>28, RemoveBackupsEffect DEF Moved, SameButSelection, Disk,
    FaultsCounted, BackupAsBefore, WineAsBefore, SelectionAsBefore,
    CreatedAsBefore, FrontAsBefore, HelperAsBefore
<1>29. CASE End
  BY <1>0, <1>29, EndEffect, AbandonedFacts DEF FaultsCounted, BackupAsBefore,
    WineAsBefore, SelectionAsBefore, CreatedAsBefore, FrontAsBefore,
    HelperAsBefore
<1>30. CASE Crash
  BY <1>0, <1>30, CrashEffect, AbandonedFacts DEF FaultsCounted, BackupAsBefore,
    WineAsBefore, SelectionAsBefore, CreatedAsBefore, FrontAsBefore,
    HelperAsBefore
<1>31. CASE \E r \in Stock \cup {Ours} : SelectRuntime(r)
  BY <1>31, SelectRuntimeEffect, NoRunFacts DEF FaultsCounted, BackupAsBefore,
    WineAsBefore, SelectionAsBefore, CreatedAsBefore, FrontAsBefore,
    HelperAsBefore
<1>32. CASE \E v \in Versions : ReplaceFrontend(v) \/ UpdateFrontend(v)
  BY <1>32, FrontendEffect, NoRunFacts DEF FaultsCounted, BackupAsBefore,
    WineAsBefore, SelectionAsBefore, CreatedAsBefore, FrontAsBefore,
    HelperAsBefore
<1>33. CASE UNCHANGED vars
  BY <1>33 DEF vars, FaultsCounted, BackupAsBefore, WineAsBefore,
    SelectionAsBefore, CreatedAsBefore, FrontAsBefore, HelperAsBefore
<1> QED BY <1>1, <1>2, <1>3, <1>4, <1>5, <1>6, <1>7, <1>8, <1>9, <1>10,
      <1>11, <1>12, <1>13, <1>14, <1>15, <1>16, <1>17, <1>18, <1>19, <1>20,
      <1>21, <1>22, <1>23, <1>24, <1>25, <1>26, <1>27, <1>28, <1>29, <1>30,
      <1>31, <1>32, <1>33
  DEF Next, InstallStep, RollbackStep, RestoreStep

(* A registered frontend stays restorable in every step. *)
LEMMA RestorableInvStep ==
  Types /\ RollbackInv /\ RestorableInv /\ [Next]_vars => RestorableInv'
<1> SUFFICES ASSUME Types, RollbackInv, RestorableInv, [Next]_vars
             PROVE  RestorableInv'
  OBVIOUS
<1>0. run \in Run /\ disk \in Disk /\ past \in Past /\ run.faults \in Nat
  BY RunFacts DEF Types
<1> USE DEF Forward, Rollback, Restoring
<1>1. CASE Install
  BY <1>1, InstallEffect DEF RestorableInv, Restorable, Pristine, Types,
    OfInstall, OfRestore, Remembered, HelperThere
<1>2. CASE Restore
  BY <1>2, RestoreEffect DEF RestorableInv, Restorable, Pristine, Types,
    OfInstall, OfRestore, Remembered, HelperThere
<1>3. CASE HelperIn
  BY <1>0, <1>3, HelperInEffect DEF Quiet, Moved, Disk, RestorableInv,
    Restorable, Pristine, Types, OfInstall, OfRestore, Remembered, HelperThere
<1>4. CASE HelperBack
  BY <1>0, <1>4, HelperBackEffect DEF Quiet, Moved, Disk, RestorableInv,
    Restorable, Pristine, Types, OfInstall, OfRestore, Remembered, HelperThere
<1>5. CASE WriteBackup
  BY <1>0, <1>5, WriteBackupEffect DEF Quiet, Moved, Disk, RestorableInv,
    Restorable, Pristine, Types, OfInstall, OfRestore, Remembered, HelperThere
<1>6. CASE Publish
  BY <1>0, <1>6, PublishEffect DEF Quiet, Moved, Disk, RestorableInv,
    Restorable,
    Pristine, Types, OfInstall, OfRestore, Remembered, HelperThere
<1>7. CASE WineIn
  BY <1>0, <1>7, WineInEffect DEF Quiet, Moved, Disk, RestorableInv, Restorable,
    Pristine, Types, OfInstall, OfRestore, Remembered, HelperThere
<1>8. CASE WineBack
  BY <1>0, <1>8, WineBackEffect DEF Quiet, Moved, Disk, RestorableInv,
    Restorable, Pristine, Types, OfInstall, OfRestore, Remembered, HelperThere
<1>9. CASE Complete
  BY <1>0, <1>9, CompleteEffect DEF Quiet, Moved, Disk, Completed,
    RestorableInv,
    Restorable, Pristine, Types, OfInstall, OfRestore, Remembered, HelperThere
<1>10. CASE UndoWine
  BY <1>0, <1>10, UndoWineEffect DEF Quiet, Moved, Disk, RestorableInv,
    Restorable, Pristine, Types, OfInstall, OfRestore, Remembered, HelperThere
<1>11. CASE UndoMove
  BY <1>0, <1>11, UndoMoveEffect DEF Quiet, Moved, Disk, RestorableInv,
    Restorable, Pristine, Types, OfInstall, OfRestore, Remembered, HelperThere
<1>12. CASE UndoFront
  BY <1>0, <1>12, UndoFrontEffect DEF Quiet, Moved, Disk, RestorableInv,
    Restorable, Pristine, Types, OfInstall, OfRestore, Remembered, HelperThere
<1>13. CASE UndoHelper
  BY <1>0, <1>13, UndoHelperEffect DEF Quiet, Moved, Disk, RestorableInv,
    Restorable, Pristine, Types, OfInstall, OfRestore, Remembered, HelperThere
<1>14. CASE RestoreFront
  BY <1>0, <1>14, RestoreFrontEffect DEF Quiet, Moved, Disk, RestorableInv,
    Restorable, Pristine, Types, OfInstall, OfRestore, Remembered, HelperThere
<1>15. CASE RestoreAway
  BY <1>0, <1>15, RestoreAwayEffect DEF Quiet, Moved, Disk, RestorableInv,
    Restorable, Pristine, Types, OfInstall, OfRestore, Remembered, HelperThere
<1>16. CASE RestoreIn
  BY <1>0, <1>16, RestoreInEffect DEF Quiet, Moved, Disk, RestorableInv,
    Restorable, Pristine, Types, OfInstall, OfRestore, Remembered, HelperThere
<1>17. CASE RestoreBack
  BY <1>0, <1>17, RestoreBackEffect DEF Quiet, Moved, Disk, RestorableInv,
    Restorable, Pristine, Types, OfInstall, OfRestore, Remembered, HelperThere
<1>18. CASE RestoreDrop
  BY <1>0, <1>18, RestoreDropEffect DEF Quiet, Moved, Disk, RestorableInv,
    Restorable, Pristine, Types, OfInstall, OfRestore, Remembered, HelperThere
<1>19. CASE RemoveHelper
  BY <1>0, <1>19, RemoveHelperEffect DEF Quiet, Moved, Disk, RestorableInv,
    Restorable, Pristine, Types, OfInstall, OfRestore, Remembered, HelperThere
<1>20. CASE BackUp
  BY <1>0, <1>20, BackUpEffect DEF Moved, SameButSelection, Disk, RestorableInv,
    Restorable, Pristine, Types, OfInstall, OfRestore, Remembered, HelperThere
<1>21. CASE HelperAway
  BY <1>0, <1>21, HelperAwayEffect DEF Moved, SameButSelection, Disk,
    RestorableInv, Restorable, Pristine, Types, OfInstall, OfRestore,
    Remembered, HelperThere
<1>22. CASE ReadSelection
  BY <1>0, <1>22, ReadSelectionEffect DEF Moved, SameButSelection, Disk,
    RestorableInv, Restorable, Pristine, Types, OfInstall, OfRestore,
    Remembered, HelperThere
<1>23. CASE WineAway
  BY <1>0, <1>23, WineAwayEffect DEF Moved, SameButSelection, Disk,
    RestorableInv,
    Restorable, Pristine, Types, OfInstall, OfRestore, Remembered, HelperThere
<1>24. CASE Activate
  BY <1>0, <1>24, ActivateEffect DEF Moved, SameButSelection, Disk,
    RestorableInv,
    Restorable, Pristine, Types, OfInstall, OfRestore, Remembered, HelperThere
<1>25. CASE UndoSelection
  BY <1>0, <1>25, UndoSelectionEffect DEF Moved, SameButSelection, Disk,
    RestorableInv, Restorable, Pristine, Types, OfInstall, OfRestore,
    Remembered, HelperThere
<1>26. CASE DropBackups
  BY <1>0, <1>26, DropBackupsEffect DEF Moved, SameButSelection, Disk,
    RestorableInv, Restorable, Pristine, Types, OfInstall, OfRestore,
    Remembered, HelperThere
<1>27. CASE RestoreSelection
  BY <1>0, <1>27, RestoreSelectionEffect DEF Moved, SameButSelection, Disk,
    RestorableInv, Restorable, Pristine, Types, OfInstall, OfRestore,
    Remembered, HelperThere
<1>28. CASE RemoveBackups
  BY <1>0, <1>28, RemoveBackupsEffect DEF Moved, SameButSelection, Disk,
    RestorableInv, Restorable, Pristine, Types, OfInstall, OfRestore,
    Remembered, HelperThere
<1>29. CASE End
  <2>1. /\ run'.at = "idle" /\ disk'.version = disk.version
        /\ disk'.registered = disk.registered /\ disk'.helper = disk.helper
        /\ ~past'.broken => run.faults <= 1 /\ (run.at = "failed" => ~past.broken)
        /\ run'.op = run.op
    BY <1>0, <1>29, EndEffect, AbandonedFacts
  <2>2. CASE run.at = "installed"
    BY <1>29, <2>1, <2>2 DEF RestorableInv, Restorable, Types, HelperThere,
      Restoring
  <2>3. CASE run.at = "restored"
    BY <1>29, <2>1, <2>3 DEF RestorableInv, Restorable, Restoring
  <2>4. CASE run.at = "failed"
    <3>1. CASE run.op = "restore"
      BY <1>29, <2>1, <2>4, <3>1 DEF RestorableInv, Restorable, Pristine,
        Restoring
    <3>2. CASE run.op = "install"
      <4>1. run.faults <= 1 /\ ~past.broken => Pristine(disk)
        <5>1. SUFFICES ASSUME run.faults <= 1, ~past.broken, disk.registered
                       PROVE  disk.helper # None /\ disk.version \in disk.helper
          BY DEF Pristine
        <5>2. Pristine(run.previous)
          BY <2>4, <5>1 DEF RestorableInv
        <5>3. /\ disk.version = run.previous.version
              /\ disk.registered = run.previous.registered
              /\ run.previous.helper # None =>
                   disk.helper # None /\ run.previous.helper \subseteq disk.helper
          BY <2>4, <3>2, <5>1 DEF RollbackInv, FrontAsBefore, HelperAsBefore,
            Installing,
            Single, RolledBack
        <5> QED BY <5>1, <5>2, <5>3 DEF Pristine
      <4> QED BY <2>1, <2>4, <4>1 DEF RestorableInv, Restorable, Pristine,
            Restoring
    <3> QED BY <1>0, <2>4, <3>1, <3>2 DEF Types, Begun, Run
  <2> QED BY <1>29, <2>2, <2>3, <2>4, EndEffect
<1>30. CASE Crash
  BY <1>0, <1>30, CrashEffect, AbandonedFacts DEF RestorableInv, Restorable,
    Pristine, Types, OfInstall, OfRestore, Remembered, HelperThere
<1>31. CASE \E r \in Stock \cup {Ours} : SelectRuntime(r)
  BY <1>31, SelectRuntimeEffect, NoRunFacts DEF RestorableInv, Restorable,
    Pristine, Types, OfInstall, OfRestore, Remembered, HelperThere
<1>32. CASE \E v \in Versions : ReplaceFrontend(v) \/ UpdateFrontend(v)
  BY <1>32, FrontendEffect, NoRunFacts DEF RestorableInv, Restorable, Pristine,
    Types, OfInstall, OfRestore, Remembered, HelperThere
<1>33. CASE UNCHANGED vars
  BY <1>33 DEF vars, RestorableInv, Restorable, Pristine, Types, OfInstall,
    OfRestore, Remembered, HelperThere
<1> QED BY <1>1, <1>2, <1>3, <1>4, <1>5, <1>6, <1>7, <1>8, <1>9, <1>10,
      <1>11, <1>12, <1>13, <1>14, <1>15, <1>16, <1>17, <1>18, <1>19, <1>20,
      <1>21, <1>22, <1>23, <1>24, <1>25, <1>26, <1>27, <1>28, <1>29, <1>30,
      <1>31, <1>32, <1>33
  DEF Next, InstallStep, RollbackStep, RestoreStep

(* The backup stays what it is to be in every step. *)
LEMMA ExactInvStep ==
  Types /\ SurvivalInv /\ RollbackInv /\ RestorableInv /\ ExactInv /\ [Next]_vars
    => ExactInv'
<1> SUFFICES ASSUME Types, SurvivalInv, RollbackInv, RestorableInv, ExactInv,
                    [Next]_vars
             PROVE  ExactInv'
  OBVIOUS
<1>0. run \in Run /\ disk \in Disk /\ past \in Past /\ run.faults \in Nat
  BY RunFacts DEF Types
<1> USE DEF Forward, Rollback, Restoring
<1>1. CASE Install
  <2>1. /\ run'.at = "backUp" /\ run'.file = "tag" /\ run'.result = "none"
        /\ run'.previous = disk /\ run'.created = {} /\ disk' = disk
    BY <1>1, InstallEffect
  <2>2. CASE disk.bak = None
    <3>1. /\ past'.saved = [wine |-> disk.wine, sel |-> disk.sel]
          /\ ~past'.mixed => \A f \in Files : disk.selBak[f] = Absent
      BY <1>1, <2>2, InstallEffect
    <3> QED BY <2>1, <2>2, <3>1 DEF ExactInv, BackupExact, BackingUp,
          RestoringExact,
          RestoreExact, Files
  <2>3. CASE disk.bak # None
    <3>1. past'.saved = past.saved /\ past'.mixed = past.mixed
      BY <1>1, <2>3, InstallEffect
    <3> QED BY <2>1, <2>3, <3>1 DEF ExactInv, BackupExact, BackingUp,
          RestoringExact,
          RestoreExact
  <2> QED BY <2>2, <2>3
<1>2. CASE Restore
  BY <1>2, RestoreEffect DEF ExactInv, BackupExact, BackingUp, RestoringExact,
    RestoreExact, Installing, Types, OfInstall, OfRestore, Remembered
<1>3. CASE HelperIn
  BY <1>0, <1>3, HelperInEffect DEF Quiet, Moved, Disk, ExactInv, BackupExact,
    BackingUp, RestoringExact, RestoreExact, Installing, Types, OfInstall,
    OfRestore, Remembered
<1>4. CASE HelperBack
  BY <1>0, <1>4, HelperBackEffect DEF Quiet, Moved, Disk, ExactInv, BackupExact,
    BackingUp, RestoringExact, RestoreExact, Installing, Types, OfInstall,
    OfRestore, Remembered
<1>5. CASE WriteBackup
  BY <1>0, <1>5, WriteBackupEffect DEF Quiet, Moved, Disk, ExactInv,
    BackupExact,
    BackingUp, RestoringExact, RestoreExact, Installing, Types, OfInstall,
    OfRestore, Remembered
<1>6. CASE Publish
  BY <1>0, <1>6, PublishEffect DEF Quiet, Moved, Disk, ExactInv, BackupExact,
    BackingUp, RestoringExact, RestoreExact, Installing, Types, OfInstall,
    OfRestore, Remembered
<1>7. CASE WineIn
  BY <1>0, <1>7, WineInEffect DEF Quiet, Moved, Disk, ExactInv, BackupExact,
    BackingUp, RestoringExact, RestoreExact, Installing, Types, OfInstall,
    OfRestore, Remembered
<1>8. CASE WineBack
  BY <1>0, <1>8, WineBackEffect DEF Quiet, Moved, Disk, ExactInv, BackupExact,
    BackingUp, RestoringExact, RestoreExact, Installing, Types, OfInstall,
    OfRestore, Remembered
<1>9. CASE Complete
  <2>1. /\ run.at = "complete" /\ run.op = "install" /\ run'.op = "install"
        /\ run'.at \in {"installed", "undoWine"}
        /\ run'.created = run.created /\ run'.previous = run.previous /\ past' = past
        /\ disk'.selBak = disk.selBak
    BY <1>9, CompleteEffect DEF Quiet, Moved, Types, OfInstall, Forward
  <2>2. /\ run.hadBak <=> disk.bak # None
        /\ disk.bak = run.previous.bak /\ disk.aside = run.previous.wine
    BY <2>1 DEF SurvivalInv, OriginalAside, RollbackInv, BackupAsBefore,
      WineAsBefore,
      Installing, WineMoved
  <2>3. run'.at = "undoWine" => disk'.bak = disk.bak
    BY <1>0, <1>9, CompleteEffect DEF Disk
  <2>4. run'.at = "installed" => disk'.bak = IF run.hadBak THEN disk.bak ELSE disk.aside
    BY <1>0, <1>9, <2>2, CompleteEffect DEF Disk, Completed
  <2>5. BackupExact'
    <3>1. CASE disk'.bak = disk.bak
      BY <2>1, <3>1 DEF ExactInv, BackupExact
    <3>2. CASE disk'.bak # disk.bak
      <4>1. run'.at = "installed" /\ disk.bak = None /\ disk'.bak = run.previous.wine
        BY <2>1, <2>2, <2>3, <2>4, <3>2
      <4>2. ~past.mixed =>
              /\ past.saved = [wine |-> run.previous.wine, sel |-> run.previous.sel]
              /\ \A f \in Files : disk.selBak[f] = run.previous.sel[f]
        BY <2>1, <2>2, <4>1 DEF ExactInv, BackingUp, Installing, Forward
      <4>3. run.previous.wine \in Directory /\ run.previous.sel \in [Files -> Content]
        BY <2>1 DEF Types, Remembered, Disk
      <4> QED BY <2>1, <4>1, <4>2, <4>3 DEF BackupExact, Saved
    <3> QED BY <3>1, <3>2
  <2>6. BackingUp'
    BY <2>1 DEF ExactInv, BackingUp, Installing, Forward, Rollback
  <2> QED BY <2>1, <2>5, <2>6 DEF ExactInv, RestoringExact, RestoreExact
<1>10. CASE UndoWine
  BY <1>0, <1>10, UndoWineEffect DEF Quiet, Moved, Disk, ExactInv, BackupExact,
    BackingUp, RestoringExact, RestoreExact, Installing, Types, OfInstall,
    OfRestore, Remembered
<1>11. CASE UndoMove
  BY <1>0, <1>11, UndoMoveEffect DEF Quiet, Moved, Disk, ExactInv, BackupExact,
    BackingUp, RestoringExact, RestoreExact, Installing, Types, OfInstall,
    OfRestore, Remembered
<1>12. CASE UndoFront
  BY <1>0, <1>12, UndoFrontEffect DEF Quiet, Moved, Disk, ExactInv, BackupExact,
    BackingUp, RestoringExact, RestoreExact, Installing, Types, OfInstall,
    OfRestore, Remembered
<1>13. CASE UndoHelper
  BY <1>0, <1>13, UndoHelperEffect DEF Quiet, Moved, Disk, ExactInv,
    BackupExact,
    BackingUp, RestoringExact, RestoreExact, Installing, Types, OfInstall,
    OfRestore, Remembered
<1>14. CASE RestoreFront
  BY <1>0, <1>14, RestoreFrontEffect DEF Quiet, Moved, Disk, ExactInv,
    BackupExact, BackingUp, RestoringExact, RestoreExact, Installing, Types,
    OfInstall, OfRestore, Remembered
<1>15. CASE RestoreAway
  BY <1>0, <1>15, RestoreAwayEffect DEF Quiet, Moved, Disk, ExactInv,
    BackupExact,
    BackingUp, RestoringExact, RestoreExact, Installing, Types, OfInstall,
    OfRestore, Remembered
<1>16. CASE RestoreIn
  <2>1. /\ run.at = "restoreIn" /\ run'.at \in {"restoreDrop", "restoreBack"}
        /\ past' = past /\ disk'.sel = disk.sel /\ disk'.selBak = disk.selBak
        /\ run'.at = "restoreBack" => disk' = disk
        /\ run'.at = "restoreDrop" => disk'.bak = None /\ disk'.wine = disk.bak
    BY <1>16, RestoreInEffect DEF Quiet
  <2>2. disk.bak # None
    BY <2>1 DEF SurvivalInv, BackupUntilRestored
  <2>3. ~past.mixed => disk.bak = past.saved.wine
    BY <2>2 DEF ExactInv, BackupExact
  <2> QED BY <2>1, <2>3 DEF ExactInv, BackupExact, BackingUp, RestoringExact,
        RestoreExact, Forward, Rollback
<1>17. CASE RestoreBack
  BY <1>0, <1>17, RestoreBackEffect DEF Quiet, Moved, Disk, ExactInv,
    BackupExact,
    BackingUp, RestoringExact, RestoreExact, Installing, Types, OfInstall,
    OfRestore, Remembered
<1>18. CASE RestoreDrop
  BY <1>0, <1>18, RestoreDropEffect DEF Quiet, Moved, Disk, ExactInv,
    BackupExact,
    BackingUp, RestoringExact, RestoreExact, Installing, Types, OfInstall,
    OfRestore, Remembered
<1>19. CASE RemoveHelper
  BY <1>0, <1>19, RemoveHelperEffect DEF Quiet, Moved, Disk, ExactInv,
    BackupExact, BackingUp, RestoringExact, RestoreExact, Installing, Types,
    OfInstall, OfRestore, Remembered
<1>20. CASE BackUp
  <2>1. /\ run.at = "backUp" /\ past' = past /\ disk'.bak = disk.bak
        /\ run'.at \in {"backUp", "helperAway", "failed"} /\ run'.previous = run.previous
        /\ run.op = "install" /\ run'.op = "install" /\ run.file \in Files
    BY <1>0, <1>20, BackUpEffect, RunFacts DEF SameButSelection, Types,
      OfInstall, Forward
  <2>2. disk.bak = run.previous.bak /\ disk.sel = run.previous.sel
    BY <2>1 DEF RollbackInv, BackupAsBefore, SelectionAsBefore, Installing,
      BeforeWine
  <2>3. disk.bak # None /\ ~past.mixed =>
          disk'.selBak = disk.selBak /\ run'.created = run.created
    BY <1>20, <2>1, BackUpEffect, NamesFacts DEF ExactInv, BackupExact, Saved
  <2>4. BackupExact'
    BY <2>1, <2>3 DEF ExactInv, BackupExact
  <2>5. BackingUp'
    <3>1. CASE run.previous.bak # None
      BY <2>1, <2>2, <2>3, <3>1 DEF ExactInv, BackingUp, Installing, Forward
    <3>2. CASE run.previous.bak = None
      <4>1. ASSUME ~past.mixed, run'.at # "failed"
            PROVE  /\ past.saved = [wine |-> run.previous.wine, sel |-> run.previous.sel]
                   /\ \A f \in Files :
                        disk.selBak[f] = IF f = "state" \/ run.file = "tag"
                                         THEN Absent ELSE run.previous.sel[f]
        BY <2>1, <3>2, <4>1 DEF ExactInv, BackingUp, Installing, Forward
      <4>2. ASSUME ~past.mixed, run'.at # "failed"
            PROVE  \A f \in Files :
                     disk'.selBak[f] = IF run'.at = "backUp" /\ f = "state"
                                       THEN Absent ELSE run.previous.sel[f]
        <5>1. disk.selBak \in [Files -> Content \cup {Absent}]
          BY <1>0 DEF Disk
        <5>2. disk'.selBak = [disk.selBak EXCEPT ![run.file] = run.previous.sel[run.file]]
          BY <1>20, <2>1, <2>2, <4>1, <4>2, BackUpEffect DEF Files
        <5> QED BY <1>20, <2>1, <4>1, <4>2, <5>1, <5>2, BackUpEffect DEF Files
      <4>3. run'.at = "backUp" => run'.file = "state"
        BY <1>20, BackUpEffect
      <4> QED BY <2>1, <3>2, <4>1, <4>2, <4>3 DEF BackingUp, Forward, Rollback
    <3> QED BY <3>1, <3>2
  <2> QED BY <2>1, <2>4, <2>5 DEF ExactInv, RestoringExact, RestoreExact
<1>21. CASE HelperAway
  BY <1>0, <1>21, HelperAwayEffect DEF Moved, SameButSelection, Disk, ExactInv,
    BackupExact, BackingUp, RestoringExact, RestoreExact, Installing, Types,
    OfInstall, OfRestore, Remembered
<1>22. CASE ReadSelection
  BY <1>0, <1>22, ReadSelectionEffect DEF Moved, SameButSelection, Disk,
    ExactInv,
    BackupExact, BackingUp, RestoringExact, RestoreExact, Installing, Types,
    OfInstall, OfRestore, Remembered
<1>23. CASE WineAway
  <2>1. disk'.bak = disk.bak /\ disk'.selBak = disk.selBak /\ disk'.sel = disk.sel
    BY <1>0, <1>23, WineAwayEffect DEF Disk
  <2>2. /\ run.at = "wineAway" /\ past' = past /\ run'.at \in {"wineIn", "dropBackups"}
        /\ run'.previous = run.previous /\ run'.created = run.created /\ run'.op = run.op
    BY <1>23, WineAwayEffect
  <2> QED BY <2>1, <2>2 DEF ExactInv, BackupExact, BackingUp, RestoringExact,
        RestoreExact, Installing, Forward, Rollback
<1>24. CASE Activate
  BY <1>0, <1>24, ActivateEffect DEF Moved, SameButSelection, Disk, ExactInv,
    BackupExact, BackingUp, RestoringExact, RestoreExact, Installing, Types,
    OfInstall, OfRestore, Remembered
<1>25. CASE UndoSelection
  BY <1>0, <1>25, UndoSelectionEffect DEF Moved, SameButSelection, Disk,
    ExactInv,
    BackupExact, BackingUp, RestoringExact, RestoreExact, Installing, Types,
    OfInstall, OfRestore, Remembered
<1>26. CASE DropBackups
  <2>1. /\ run.at = "dropBackups" /\ past' = past /\ disk'.bak = disk.bak
        /\ run'.at \in {"dropBackups", "undoFront"} /\ run'.previous = run.previous
        /\ run'.created = run.created /\ run.op = "install" /\ run'.op = "install"
        /\ run.created = {} => disk' = disk
    BY <1>26, DropBackupsEffect DEF SameButSelection, Moved, Types, OfInstall,
      Rollback
  <2>2. disk.bak = run.previous.bak
    BY <2>1 DEF RollbackInv, BackupAsBefore, Installing
  <2>3. disk.bak # None /\ ~past.mixed => disk' = disk
    BY <2>1, <2>2 DEF ExactInv, BackingUp, Installing, Rollback
  <2> QED BY <2>1, <2>2, <2>3 DEF ExactInv, BackupExact, BackingUp,
        RestoringExact,
        RestoreExact, Installing, Forward, Rollback
<1>27. CASE RestoreSelection
  <2>1. /\ run.at = "restoreSelection" /\ past' = past /\ disk'.bak = disk.bak
        /\ disk'.selBak = disk.selBak /\ run.file \in Files
        /\ run'.at \in {"restoreSelection", "restoreAway", "failed"}
        /\ disk.sel \in [Files -> Content]
        /\ run'.at = "restoreSelection" => run.file = "tag"
        /\ run'.at = "restoreAway" => run.file = "state"
    BY <1>0, <1>27, RestoreSelectionEffect, RunFacts DEF SameButSelection, Disk
  <2>2. disk.bak # None
    BY <2>1 DEF SurvivalInv, BackupUntilRestored
  <2>3. ~past.mixed /\ run'.at # "failed" =>
          /\ past.saved \in Saved
          /\ disk'.sel = [disk.sel EXCEPT ![run.file] = past.saved.sel[run.file]]
    BY <1>27, <2>1, <2>2, RestoreSelectionEffect, NamesFacts DEF ExactInv,
      BackupExact, Saved
  <2>4. ~past.mixed /\ run'.at = "restoreAway" => disk'.sel = past.saved.sel
    BY <2>1, <2>3 DEF ExactInv, RestoringExact, Saved, Files
  <2>5. RestoringExact'
    BY <2>1, <2>3, <2>4 DEF RestoringExact, Files
  <2> QED BY <2>1, <2>5 DEF ExactInv, BackupExact, BackingUp, RestoreExact,
        Forward, Rollback
<1>28. CASE RemoveBackups
  <2>1. /\ run.at = "removeBackups" /\ past' = past
        /\ disk'.bak = disk.bak /\ disk'.wine = disk.wine /\ disk'.sel = disk.sel
        /\ run'.at \in {"removeBackups", "restored", "failed"}
    BY <1>28, RemoveBackupsEffect DEF SameButSelection
  <2>2. disk.bak = None
    BY <2>1 DEF SurvivalInv, BackupUntilRestored
  <2> QED BY <2>1, <2>2 DEF ExactInv, BackupExact, BackingUp, RestoringExact,
        RestoreExact, Forward, Rollback
<1>29. CASE End
  <2>1. /\ run'.at = "idle" /\ run'.result = run.at
        /\ past'.saved = past.saved /\ past'.mixed = past.mixed
        /\ disk'.bak = disk.bak /\ disk'.wine = disk.wine /\ disk'.sel = disk.sel
        /\ disk'.selBak = disk.selBak /\ disk'.registered = disk.registered
    BY <1>0, <1>29, EndEffect, AbandonedFacts
  <2>2. run.at = "restored" => ~disk.registered
    BY DEF RestorableInv, Restoring
  <2> QED BY <2>1, <2>2 DEF ExactInv, BackupExact, BackingUp, RestoringExact,
        RestoreExact, Forward, Rollback
<1>30. CASE Crash
  <2>1. /\ run'.at = "idle" /\ run'.result = "crashed"
        /\ past'.saved = past.saved /\ past'.mixed = past.mixed
        /\ disk'.bak = disk.bak /\ disk'.selBak = disk.selBak
    BY <1>0, <1>30, CrashEffect, AbandonedFacts
  <2> QED BY <2>1 DEF ExactInv, BackupExact, BackingUp, RestoringExact,
        RestoreExact, Forward, Rollback
<1>31. CASE \E r \in Stock \cup {Ours} : SelectRuntime(r)
  BY <1>31, SelectRuntimeEffect, NoRunFacts DEF ExactInv, BackupExact,
    BackingUp,
    RestoringExact, RestoreExact, Installing, Types, OfInstall, OfRestore,
    Remembered
<1>32. CASE \E v \in Versions : ReplaceFrontend(v) \/ UpdateFrontend(v)
  BY <1>32, FrontendEffect, NoRunFacts DEF ExactInv, BackupExact, BackingUp,
    RestoringExact, RestoreExact, Installing, Types, OfInstall, OfRestore,
    Remembered
<1>33. CASE UNCHANGED vars
  BY <1>33 DEF vars, ExactInv, BackupExact, BackingUp, RestoringExact,
    RestoreExact, Installing, Types, OfInstall, OfRestore, Remembered
<1> QED BY <1>1, <1>2, <1>3, <1>4, <1>5, <1>6, <1>7, <1>8, <1>9, <1>10,
      <1>11, <1>12, <1>13, <1>14, <1>15, <1>16, <1>17, <1>18, <1>19, <1>20,
      <1>21, <1>22, <1>23, <1>24, <1>25, <1>26, <1>27, <1>28, <1>29, <1>30,
      <1>31, <1>32, <1>33
  DEF Next, InstallStep, RollbackStep, RestoreStep

-----------------------------------------------------------------------------
(* The initial states satisfy all of it. *)
LEMMA InvariantsInit == Init => SurvivalInv /\ RollbackInv /\ RestorableInv /\ ExactInv
<1> SUFFICES ASSUME Init PROVE SurvivalInv /\ RollbackInv /\ RestorableInv /\ ExactInv
  OBVIOUS
<1>1. /\ disk.bak = None /\ disk.aside = None /\ disk.registered = FALSE
      /\ run = NoRun /\ past.original = None
  BY DEF Init
<1>2. SurvivalInv
  BY <1>1, NoRunFacts DEF SurvivalInv, AsideFree, BackupIsOriginal,
    OriginalNamed,
    OriginalAside, BackupUntilRestored, OriginalSurvives, BeforeWine, WineMoved
<1>3. RollbackInv
  BY <1>1, NoRunFacts DEF RollbackInv, FaultsCounted, BackupAsBefore,
    WineAsBefore,
    SelectionAsBefore, CreatedAsBefore, FrontAsBefore, HelperAsBefore, Installing,
    Rollback
<1>4. RestorableInv
  BY <1>1, NoRunFacts DEF RestorableInv, Restorable, Restoring
<1>5. ExactInv
  BY <1>1, NoRunFacts DEF ExactInv, BackupExact, BackingUp, RestoringExact,
    RestoreExact,
    Forward, Rollback
<1> QED BY <1>2, <1>3, <1>4, <1>5

(* The types hold in every reachable state. *)
LEMMA TypesHold == Spec => []Types
BY TypesInit, TypesStep, PTL DEF Spec

(* The installer's state has its type in every reachable state; no attempt *)
(* meets more failures than the bound.                                     *)
THEOREM TypeCorrect == Spec => []TypeOK
<1>1. Types => TypeOK
  BY RunFacts DEF Types, TypeOK, Past, Run
<1> QED BY <1>1, TypesHold, PTL

(* The first invariant holds in every reachable state. *)
LEMMA SurvivalHolds == Spec => []SurvivalInv
<1>1. Init => SurvivalInv
  BY InvariantsInit
<1> QED BY <1>1, TypesHold, SurvivalInvStep, PTL DEF Spec

(* Whatever throws or dies in installations, rollbacks and restorations,   *)
(* and however many there are, the user's original runtime is still in the *)
(* support folder.                                                         *)
THEOREM OriginalIsKept == Spec => []OriginalSurvives
<1>1. SurvivalInv => OriginalSurvives
  BY DEF SurvivalInv
<1> QED BY <1>1, SurvivalHolds, PTL

(* The second one does. *)
LEMMA RollbackHolds == Spec => []RollbackInv
<1>1. Init => RollbackInv
  BY InvariantsInit
<1> QED BY <1>1, TypesHold, RollbackInvStep, PTL DEF Spec

(* An installation that fails with nothing else failing leaves runtime,    *)
(* backup, selection, frontend and helper as they were before it.          *)
THEOREM RollbackCorrect == Spec => []RollsBack
<1>1. Types /\ RollbackInv => RollsBack
  <2> SUFFICES ASSUME Types, RollbackInv, run.at = "idle", run.op = "install",
                      run.result = "failed", run.faults = 1
               PROVE  /\ disk.wine \in {run.previous.wine, "damaged"}
                      /\ disk.wine = "damaged" =>
                           run.previous.wine = "damaged" \/ run.hadBak
                      /\ disk.bak = run.previous.bak
                      /\ disk.sel = run.previous.sel
                      /\ disk.version = run.previous.version
                      /\ disk.registered = run.previous.registered
                      /\ disk.helper = None <=> run.previous.helper = None
    BY DEF RollsBack
  <2>1. Installing /\ Single /\ RolledBack
    BY DEF Installing, Single, RolledBack
  <2> QED BY <2>1 DEF RollbackInv, BackupAsBefore, WineAsBefore,
        SelectionAsBefore,
        FrontAsBefore, HelperAsBefore
<1> QED BY <1>1, TypesHold, RollbackHolds, PTL

(* So does the third, given the second. *)
LEMMA RestorableHolds == Spec => []RestorableInv
<1>1. Init => RestorableInv
  BY InvariantsInit
<1> QED BY <1>1, TypesHold, RollbackHolds, RestorableInvStep, PTL DEF Spec

(* As long as no attempt has died or failed twice without a later success, *)
(* a registered frontend at rest has its pristine resource in the helper.  *)
THEOREM RegistrationRestorable == Spec => []Restorable
<1>1. RestorableInv => Restorable
  BY DEF RestorableInv
<1> QED BY <1>1, RestorableHolds, PTL

(* And the fourth, given the others. *)
LEMMA ExactHolds == Spec => []ExactInv
<1>1. Init => ExactInv
  BY InvariantsInit
<1> QED BY <1>1, TypesHold, SurvivalHolds, RollbackHolds, RestorableHolds,
      ExactInvStep,
      PTL DEF Spec

(* A restoration that succeeds brings back exactly what the installation   *)
(* that made the backup had found.                                         *)
THEOREM RestorationExact == Spec => []RestoreExact
<1>1. ExactInv => RestoreExact
  BY DEF ExactInv
<1> QED BY <1>1, ExactHolds, PTL

=============================================================================
