------------------------------ MODULE Installer ------------------------------
(***************************************************************************)
(* The installer (installer/InstallerEngine.swift) and the registration of *)
(* the runtime in the launcher's frontend (ResourceRegistration.swift,     *)
(* RegistrationMain.swift).  Installing and restoring are sequences of     *)
(* file operations on the launcher Yaagl's support folder.  Each action is *)
(* one operation; any of them may throw, what is then undone may throw as  *)
(* well, and the process may die between any two.  Between attempts the    *)
(* user changes the runtime and the frontend with Yaagl itself.            *)
(*                                                                         *)
(* Contents are told apart only as far as they matter: a runtime directory *)
(* by the runtime in it, the frontend resources.neu by its version and by  *)
(* whether it carries the registration.  The archive and staging           *)
(* directories never reach another attempt and are left out.               *)
(***************************************************************************)
EXTENDS Integers

CONSTANTS
  Stock,      \* the runtimes of the launcher
  Ours,       \* the runtime being installed
  Versions,   \* frontend versions
  None,       \* no such file or directory
  Absent,     \* no such backup file; an empty one stands for None
  MaxFaults,  \* bound: file operations that throw in one attempt
  MaxAttempts \* bound: installations and restorations

ASSUME NamesAssumption ==
  /\ {Ours, None, Absent} \cap Stock = {}
  /\ None \notin {Ours, Absent} /\ Ours # Absent
  /\ {None, Absent} \cap {"damaged", "ready"} = {}
  /\ \A S \in SUBSET Versions : S # None
ASSUME BoundAssumption == MaxFaults \in Nat /\ MaxAttempts \in Nat

VARIABLES
  disk,   \* the support folder
  run,    \* the installer process and its variables
  past    \* history

vars == <<disk, run, past>>

-----------------------------------------------------------------------------
Files == {"tag", "state"}   \* wine_tag.neustorage, wine_state.neustorage
Directory == Stock \cup {Ours, None, "damaged"}
Content == Stock \cup {Ours, None, "ready"}

(* aside: the runtime moved away by the attempt in progress; orphans: the  *)
(* ones attempts have left there.  helper: the frontend versions whose     *)
(* pristine resource is in .zzz-wine-registration/backups.                 *)
Disk ==
  [wine : Directory, bak : Directory, aside : Directory,
   orphans : SUBSET Directory, sel : [Files -> Content],
   selBak : [Files -> Content \cup {Absent}], version : Versions,
   registered : BOOLEAN, helper : (SUBSET Versions) \cup {None}]

(* The process: at a step (and, in a loop, a file), with what it remembers *)
(* from before: the frontend and whether there was a helper (of previous,  *)
(* which holds all of the disk for the properties), the helper moved away, *)
(* the backup files it made, the selection, and whether wine.bak existed.  *)
NoRun ==
  [at |-> "idle", file |-> "tag", op |-> "none", result |-> "none",
   faults |-> 0, previous |-> None, oldHelper |-> None, created |-> {},
   selection |-> None, hadBak |-> FALSE]

(* saved: the runtime and selection wine.bak and its companions are to     *)
(* hold; mixed: they were made at different times; original: the runtime   *)
(* the user had before the first installation; broken: an attempt died, or *)
(* two of its operations failed, and no attempt has succeeded since.       *)
Init ==
  /\ \E r \in Stock \cup {None}, v \in Versions :
       disk = [wine |-> r, bak |-> None, aside |-> None, orphans |-> {},
               sel |-> [f \in Files |-> IF r = None THEN None
                                        ELSE IF f = "tag" THEN r ELSE "ready"],
               selBak |-> [f \in Files |-> Absent], version |-> v,
               registered |-> FALSE, helper |-> None]
  /\ run = NoRun
  /\ past = [saved |-> None, mixed |-> FALSE, original |-> None, broken |-> FALSE,
             attempts |-> 0]

Going(at) == [run EXCEPT !.at = at, !.file = "tag"]
NextFile(done) ==
  IF run.file = "tag" THEN [run EXCEPT !.file = "state"] ELSE Going(done)

(* An operation at a step works: the disk becomes d and the process r. *)
Works(at, d, r) ==
  /\ run.at = at
  /\ disk' = d
  /\ run' = r
  /\ UNCHANGED past

(* It throws; the code goes on in the handler. *)
Throws(at, d, handler) ==
  /\ run.faults < MaxFaults
  /\ Works(at, d, [Going(handler) EXCEPT !.faults = @ + 1])

-----------------------------------------------------------------------------
(* install. *)

Install ==
  /\ run.at = "idle"
  /\ past.attempts < MaxAttempts
  /\ run' = [NoRun EXCEPT !.at = "backUp", !.op = "install", !.previous = disk]
  /\ past' =
       [past EXCEPT
          !.attempts = @ + 1,
          !.saved = IF disk.bak = None THEN [wine |-> disk.wine, sel |-> disk.sel] ELSE @,
          !.mixed = IF disk.bak = None THEN \E f \in Files : disk.selBak[f] # Absent ELSE @,
          !.original = IF @ = None THEN disk.wine ELSE @]
  /\ UNCHANGED disk

(* backUpLauncherConfiguration, outside of the do block: what it has made  *)
(* stays when it throws.                                                   *)
Missing_Always(f) == TRUE
Missing(f) == disk.selBak[f] = Absent
BackUp ==
  LET f == run.file
  IN \/ /\ Missing(f)
        /\ Works("backUp", [disk EXCEPT !.selBak[f] = disk.sel[f]],
                 [NextFile("helperAway") EXCEPT !.created = @ \cup {f}])
     \/ ~Missing(f) /\ Works("backUp", disk, NextFile("helperAway"))
     \/ Missing(f) /\ Throws("backUp", disk, "failed")

(* installRegistrationHelper: the directory is replaced by a staged one    *)
(* that holds a copy of the backups.                                       *)
HelperAway ==
  \/ Works("helperAway", [disk EXCEPT !.helper = None],
           [Going("helperIn") EXCEPT !.oldHelper = disk.helper])
  \/ Throws("helperAway", disk, "dropBackups")

HelperIn_WithoutBackups ==
  \/ Works("helperIn", [disk EXCEPT !.helper = {}], Going("writeBackup"))
  \/ Throws("helperIn", disk, "helperBack")
HelperIn ==
  \/ Works("helperIn",
           [disk EXCEPT !.helper = IF run.oldHelper = None THEN {} ELSE run.oldHelper],
           Going("writeBackup"))
  \/ Throws("helperIn", disk, "helperBack")

HelperBack ==
  \/ Works("helperBack", [disk EXCEPT !.helper = run.oldHelper], Going("dropBackups"))
  \/ run.oldHelper # None /\ Throws("helperBack", disk, "dropBackups")

(* ResourceRegistration.register.  The pristine resource comes from the    *)
(* backup of this version, from the registered frontend, or is the         *)
(* frontend itself.                                                        *)
WriteBackup ==
  \/ Works("writeBackup", [disk EXCEPT !.helper = @ \cup {disk.version}], Going("publish"))
  \/ Throws("writeBackup", disk, "dropBackups")

Publish ==
  \/ Works("publish", [disk EXCEPT !.registered = TRUE], Going("select"))
  \/ Throws("publish", disk, "dropBackups")

(* The tag and the state of the selected runtime, as they are on disk. *)
ActiveWineSelection == disk.sel

(* ensureSupportMtimeNewerThanApp, then activeWineSelection: either throws. *)
ReadSelection ==
  \/ Works("select", disk, [Going("wineAway") EXCEPT !.selection = ActiveWineSelection])
  \/ Throws("select", disk, "dropBackups")

(* replaceWine. *)
WineAway ==
  \/ Works("wineAway", [disk EXCEPT !.wine = None, !.aside = disk.wine],
           [Going("wineIn") EXCEPT !.hadBak = disk.bak # None])
  \/ disk.wine # None /\ Throws("wineAway", disk, "dropBackups")

WineIn ==
  \/ Works("wineIn", [disk EXCEPT !.wine = Ours], Going("activate"))
  \/ Throws("wineIn", disk, "wineBack")

WineBack ==
  \/ Works("wineBack", [disk EXCEPT !.wine = disk.aside, !.aside = None], Going("dropBackups"))
  \/ disk.aside # None /\ Throws("wineBack", disk, "dropBackups")

(* activateRegisteredRuntime: atomic writes. *)
Activate ==
  \/ Works("activate",
           [disk EXCEPT !.sel[run.file] = IF run.file = "tag" THEN Ours ELSE "ready"],
           NextFile("complete"))
  \/ Throws("activate", disk, "undoWine")

(* completeWineReplacement: the displaced runtime is deleted when there is *)
(* an older backup, and becomes the backup when there is none.  A deletion *)
(* that throws has deleted a part.                                         *)
Completed_Deletes == [disk EXCEPT !.aside = None]
Completed ==
  [disk EXCEPT !.aside = None,
               !.bak = IF disk.aside = None \/ run.hadBak THEN @ ELSE disk.aside]
Complete ==
  \/ Works("complete", Completed, Going("installed"))
  \/ /\ disk.aside # None
     /\ Throws("complete",
               IF run.hadBak THEN [disk EXCEPT !.aside = "damaged"] ELSE disk,
               "undoWine")

-----------------------------------------------------------------------------
(* The rollback: restoreWineReplacement, then restoreActiveWineSelection   *)
(* whether or not that worked.                                             *)
UndoWine ==
  \/ Works("undoWine", [disk EXCEPT !.wine = None], Going("undoMove"))
  \/ Throws("undoWine", [disk EXCEPT !.wine = "damaged"], "undoSelection")

UndoMove ==
  \/ Works("undoMove", [disk EXCEPT !.wine = disk.aside, !.aside = None], Going("undoSelection"))
  \/ disk.aside # None /\ Throws("undoMove", disk, "undoSelection")

UndoneSelection_TagOnly ==
  [disk EXCEPT !.sel[run.file] = IF run.file = "tag" THEN run.selection[run.file] ELSE @]
UndoneSelection == [disk EXCEPT !.sel[run.file] = run.selection[run.file]]
UndoSelection ==
  LET f == run.file
  IN \/ Works("undoSelection", UndoneSelection, NextFile("dropBackups"))
     \/ /\ run.at = "undoSelection"
        /\ disk.sel[f] # run.selection[f]
        /\ \E c \in {disk.sel[f], None} \ {run.selection[f]} :
             Throws("undoSelection", [disk EXCEPT !.sel[f] = c], "dropBackups")

(* restoreNewlyCreatedBackups: errors are ignored, and a backup that could *)
(* not be copied back is deleted all the same.                             *)
DropBackups ==
  LET f == run.file
      done == NextFile("undoFront")
  IN \/ f \notin run.created /\ Works("dropBackups", disk, done)
     \/ /\ f \in run.created
        /\ Works("dropBackups",
                 [disk EXCEPT !.sel[f] = disk.selBak[f], !.selBak[f] = Absent], done)
     \/ /\ f \in run.created
        /\ run.faults < MaxFaults
        /\ \E d \in {[disk EXCEPT !.sel[f] = None, !.selBak[f] = Absent],
                     [disk EXCEPT !.selBak[f] = Absent],
                     [disk EXCEPT !.sel[f] = disk.selBak[f]]} :
             Works("dropBackups", d, [done EXCEPT !.faults = @ + 1])

UndoFront ==
  \/ Works("undoFront",
           [disk EXCEPT !.version = run.previous.version,
                        !.registered = run.previous.registered],
           Going("undoHelper"))
  \/ Throws("undoFront", disk, "failed")

(* removeRegistrationHelper, unless there was a helper before. *)
UndoHelper ==
  \/ Works("undoHelper",
           [disk EXCEPT !.helper = IF run.previous.helper = None THEN None ELSE @],
           Going("failed"))
  \/ Throws("undoHelper", disk, "failed") /\ run.previous.helper = None

-----------------------------------------------------------------------------
(* restore; without wine.bak it is refused. *)

Restore ==
  /\ run.at = "idle"
  /\ past.attempts < MaxAttempts
  /\ disk.bak # None
  /\ run' = [NoRun EXCEPT !.at = "restoreFront", !.op = "restore", !.previous = disk]
  /\ past' = [past EXCEPT !.attempts = @ + 1]
  /\ UNCHANGED disk

(* ResourceRegistration.restore and the modification date.  A registered   *)
(* frontend without its backup is refused.                                 *)
RestoreFront ==
  LET kept == disk.helper # None /\ disk.version \in disk.helper
      d == [disk EXCEPT !.registered = FALSE]
  IN \/ (disk.registered => kept) /\ Works("restoreFront", d, Going("restoreSelection"))
     \/ disk.registered /\ ~kept /\ Works("restoreFront", disk, Going("failed"))
     \/ \E e \in {disk, d} :
          (disk.registered => kept) /\ Throws("restoreFront", e, "failed")

RestoreSelection ==
  LET f == run.file
  IN \/ Works("restoreSelection",
              [disk EXCEPT !.sel[f] = IF disk.selBak[f] = Absent THEN @ ELSE disk.selBak[f]],
              NextFile("restoreAway"))
     \/ /\ disk.selBak[f] # Absent
        /\ \E c \in {disk.sel[f]} \cup (IF disk.selBak[f] = None THEN {} ELSE {None}) :
             Throws("restoreSelection", [disk EXCEPT !.sel[f] = c], "failed")

(* restoreWineBackup. *)
RestoreAway ==
  \/ Works("restoreAway", [disk EXCEPT !.wine = None, !.aside = disk.wine], Going("restoreIn"))
  \/ disk.wine # None /\ Throws("restoreAway", disk, "failed")

RestoreIn ==
  \/ Works("restoreIn", [disk EXCEPT !.wine = disk.bak, !.bak = None], Going("restoreDrop"))
  \/ Throws("restoreIn", disk, "restoreBack")

RestoreBack ==
  \/ Works("restoreBack", [disk EXCEPT !.wine = disk.aside, !.aside = None], Going("failed"))
  \/ disk.aside # None /\ Throws("restoreBack", disk, "failed")

RestoreDrop ==
  \/ Works("restoreDrop", [disk EXCEPT !.aside = None], Going("removeHelper"))
  \/ disk.aside # None /\ Throws("restoreDrop", [disk EXCEPT !.aside = "damaged"], "failed")

(* Errors of removeRegistrationHelper are ignored. *)
RemoveHelper ==
  \/ Works("removeHelper", [disk EXCEPT !.helper = None], Going("removeBackups"))
  \/ disk.helper # None /\ Throws("removeHelper", disk, "removeBackups")

RemoveBackups ==
  LET f == run.file
  IN \/ Works("removeBackups", [disk EXCEPT !.selBak[f] = Absent], NextFile("restored"))
     \/ disk.selBak[f] # Absent /\ Throws("removeBackups", disk, "failed")

-----------------------------------------------------------------------------
Abandoned(d) ==
  [d EXCEPT !.aside = None, !.orphans = @ \cup ({d.aside} \ {None})]

(* The attempt ends; a directory still moved away stays where it is. *)
End ==
  /\ run.at \in {"installed", "restored", "failed"}
  /\ disk' = Abandoned(disk)
  /\ run' = [Going("idle") EXCEPT !.result = run.at]
  /\ past' =
       [past EXCEPT
          !.broken = IF run.at = "failed" THEN @ \/ run.faults > 1 ELSE run.faults > 1,
          !.original = IF run.at = "restored" /\ disk.wine = @ THEN None ELSE @]

(* The process dies. *)
Crash ==
  /\ run.at # "idle"
  /\ disk' = Abandoned(disk)
  /\ run' = [NoRun EXCEPT !.result = "crashed"]
  /\ past' = [past EXCEPT !.broken = TRUE]

(* The user selects a runtime in Yaagl, which replaces the directory. *)
SelectRuntime(r) ==
  /\ run.at = "idle"
  /\ r = Ours => disk.registered
  /\ disk.wine # r
  /\ disk' = [disk EXCEPT !.wine = r,
                          !.sel = [f \in Files |-> IF f = "tag" THEN r ELSE "ready"]]
  /\ run' = NoRun
  /\ past' = [past EXCEPT
       !.original = IF @ \in {disk.bak} \cup disk.orphans THEN @ ELSE None]

(* The frontend is replaced by another version, outside of Yaagl. *)
ReplaceFrontend(v) ==
  /\ run.at = "idle"
  /\ disk.version # v
  /\ disk' = [disk EXCEPT !.version = v, !.registered = FALSE]
  /\ run' = NoRun
  /\ UNCHANGED past

(* Yaagl's own update runs zzz-wine-register on the new version first,     *)
(* which keeps its pristine resource; the update is then applied or not.   *)
UpdateFrontend(v) ==
  /\ run.at = "idle"
  /\ disk.version # v
  /\ disk.registered
  /\ disk.helper # None
  /\ \E applied \in BOOLEAN :
       disk' = [disk EXCEPT !.helper = @ \cup {v},
                            !.version = IF applied THEN v ELSE @]
  /\ run' = NoRun
  /\ UNCHANGED past

-----------------------------------------------------------------------------
InstallStep ==
  \/ BackUp
  \/ HelperAway
  \/ HelperIn
  \/ HelperBack
  \/ WriteBackup
  \/ Publish
  \/ ReadSelection
  \/ WineAway
  \/ WineIn
  \/ WineBack
  \/ Activate
  \/ Complete

RollbackStep ==
  UndoWine \/ UndoMove \/ UndoSelection \/ DropBackups \/ UndoFront \/ UndoHelper

RestoreStep ==
  \/ RestoreFront
  \/ RestoreSelection
  \/ RestoreAway
  \/ RestoreIn
  \/ RestoreBack
  \/ RestoreDrop
  \/ RemoveHelper
  \/ RemoveBackups

Next ==
  \/ Install
  \/ Restore
  \/ InstallStep
  \/ RollbackStep
  \/ RestoreStep
  \/ End
  \/ Crash
  \/ \E r \in Stock \cup {Ours} : SelectRuntime(r)
  \/ \E v \in Versions : ReplaceFrontend(v) \/ UpdateFrontend(v)

Spec == Init /\ [][Next]_vars

-----------------------------------------------------------------------------
TypeOK ==
  /\ disk \in Disk
  /\ past.mixed \in BOOLEAN /\ past.broken \in BOOLEAN
  /\ run.faults \in 0..MaxFaults
  /\ run.created \subseteq Files

(* The runtime the user had before the first installation is never lost:   *)
(* whatever throws in the installation, its rollback or the restoration,   *)
(* and wherever the installer dies, it is still in the support folder.     *)
OriginalSurvives ==
  past.original # None =>
    past.original \in {disk.wine, disk.bak, disk.aside} \cup disk.orphans

(* README.md:20: "restores the runtime and selection from immediately      *)
(* before that attempt without consuming the original restore backup".     *)
(* An installation that fails with nothing else failing leaves the         *)
(* runtime, its backup, the selection and the frontend as they were, and a *)
(* helper where there was one.  The runtime may be damaged if there was a  *)
(* backup already: the displaced one is then deleted, and that may be what *)
(* failed.                                                                 *)
RollsBack ==
  run.at = "idle" /\ run.op = "install" /\ run.result = "failed" /\ run.faults = 1 =>
    /\ disk.wine \in {run.previous.wine, "damaged"}
    /\ disk.wine = "damaged" => run.previous.wine = "damaged" \/ run.hadBak
    /\ disk.bak = run.previous.bak
    /\ disk.sel = run.previous.sel
    /\ disk.version = run.previous.version
    /\ disk.registered = run.previous.registered
    /\ disk.helper = None <=> run.previous.helper = None

(* ResourceRegistration.register: "Never publish a frontend for which      *)
(* restoring the same version is impossible."  At rest, a frontend that    *)
(* carries the registration has its own version's pristine resource in the *)
(* helper's backups, through updates, failed attempts and reinstallation;  *)
(* after a crash, or an attempt in which two operations threw, from the    *)
(* next successful attempt on.                                             *)
Restorable ==
  run.at = "idle" /\ ~past.broken /\ disk.registered =>
    disk.helper # None /\ disk.version \in disk.helper

(* A restoration that succeeds brings back the runtime and the selection   *)
(* that were backed up, both as of the same installation, and a frontend   *)
(* without registration, however many installations, failures, runtime     *)
(* changes and frontend updates came between.  Excepted are backups that   *)
(* were there without wine.bak when it was made (mixed): a failed attempt  *)
(* left them, or an installation into a launcher without a runtime did.    *)
RestoreExact ==
  run.at = "idle" /\ run.result = "restored" /\ ~past.mixed =>
    /\ disk.wine = past.saved.wine
    /\ disk.sel = past.saved.sel
    /\ ~disk.registered

=============================================================================
