--------------------------- MODULE ArchiveInstall ---------------------------
(* ArchiveUtil::extractZipTransactional (src/src/core/ArchiveUtil.cpp), step    *)
(* by step on the file system, for several workers that install into the same   *)
(* directory: a cancelled installation goes on while the game is installed      *)
(* again, and one that outlives its launcher meets those of the next one.       *)
(*                                                                              *)
(* Every action is one call the function makes that another worker, or the end  *)
(* of the process, can come before or after.  Stage and backup directories have *)
(* a fresh UUID in each run, so whatever a run leaves behind under those names  *)
(* is litter that no code looks for again.                                      *)
EXTENDS Naturals, FiniteSets

CONSTANTS
    Workers,    \* threads that may run an installation of this game
    Versions,   \* package versions
    Faults,     \* calls that may fail, see Calls
    None        \* nothing there

Calls == {"tar", "mkpath", "backup", "replace", "restore", "remove", "crash"}

ASSUME FaultsAssumption == Faults \subseteq Calls

VARIABLES
    target,     \* the install directory: a tree or None
    pc,         \* where each worker is
    archive,    \* version of the package it installs
    stage,      \* its stage directory
    backup,     \* its backup directory
    had,        \* its hadExisting
    ok,         \* the result it will return
    litter      \* trees under stage and backup names of earlier runs

local == <<pc, archive, had, ok>>
vars  == <<target, pc, archive, stage, backup, had, ok, litter>>

\* A directory tree: some or all files of one version.
Tree == [version : Versions, whole : BOOLEAN]

Step == {"idle", "list", "mkpath", "extract", "exists", "backup", "replace", "restore",
         "dropStage", "dropBackup"}

ASSUME NoneAssumption == None \notin Tree /\ None \notin Versions

Whole(v) == [version |-> v, whole |-> TRUE]
Partial(t) == [t EXCEPT !.whole = FALSE]

TypeOK ==
    /\ target \in Tree \cup {None}
    /\ pc \in [Workers -> Step]
    /\ archive \in [Workers -> Versions]
    /\ stage \in [Workers -> Tree \cup {None}]
    /\ backup \in [Workers -> Tree \cup {None}]
    /\ had \in [Workers -> BOOLEAN]
    /\ ok \in [Workers -> BOOLEAN]
    /\ litter \subseteq Tree

Init ==
    /\ target = None
    /\ pc = [w \in Workers |-> "idle"]
    /\ archive \in [Workers -> Versions]
    /\ stage = [w \in Workers |-> None]
    /\ backup = [w \in Workers |-> None]
    /\ had = [w \in Workers |-> FALSE]
    /\ ok = [w \in Workers |-> FALSE]
    /\ litter = {}

-----------------------------------------------------------------------------
MayFail(call) == call \in Faults

\* What removeRecursively(), whose result nobody looks at, makes of a tree.
Removed(t) == {None} \cup (IF MayFail("remove") /\ t # None THEN {Partial(t), t} ELSE {})

\* The trees a run leaves under its own names when it returns.
Left(s, b) == {s, b} \ {None}

\* The function returns: what its names still hold is litter.
Return(w, s, b, result) ==
    /\ pc' = [pc EXCEPT ![w] = "idle"]
    /\ ok' = [ok EXCEPT ![w] = result]
    /\ litter' = litter \cup Left(s, b)
    /\ stage' = [stage EXCEPT ![w] = None]
    /\ backup' = [backup EXCEPT ![w] = None]

\* Worker w is at its next call.
Goto(w, step) == pc' = [pc EXCEPT ![w] = step]

\* A job for a package of version v.
Call(w, v) ==
    /\ pc[w] = "idle"
    /\ Goto(w, "list")
    /\ archive' = [archive EXCEPT ![w] = v]
    /\ had' = [had EXCEPT ![w] = FALSE]
    /\ ok' = [ok EXCEPT ![w] = FALSE]
    /\ UNCHANGED <<target, stage, backup, litter>>

\* tar -tf, with the checks before and after it: a missing, unreadable or
\* refused archive ends the run.
List(w) ==
    /\ pc[w] = "list"
    /\ UNCHANGED <<target, archive, had>>
    /\ \/ Goto(w, "mkpath") /\ UNCHANGED <<stage, backup, ok, litter>>
       \/ MayFail("tar") /\ Return(w, None, None, FALSE)

MakeStage(w) ==
    /\ pc[w] = "mkpath"
    /\ UNCHANGED <<target, archive, had>>
    /\ \/ /\ Goto(w, "extract")
          /\ stage' = [stage EXCEPT ![w] = Partial(Whole(archive[w]))]
          /\ UNCHANGED <<backup, ok, litter>>
       \/ MayFail("mkpath") /\ Return(w, None, None, FALSE)

\* Mutant: the exit status of tar is not looked at.
ExtractUnchecked(w) ==
    /\ pc[w] = "extract"
    /\ UNCHANGED <<target, archive, backup, had, ok, litter>>
    /\ Goto(w, "exists")
    /\ \/ stage' = [stage EXCEPT ![w] = Whole(archive[w])]
       \/ MayFail("tar") /\ UNCHANGED stage

\* tar -xf into the stage.
ExtractToStage(w) ==
    /\ pc[w] = "extract"
    /\ UNCHANGED <<target, archive, backup, had, ok, litter>>
    /\ \/ Goto(w, "exists") /\ stage' = [stage EXCEPT ![w] = Whole(archive[w])]
       \/ MayFail("tar") /\ Goto(w, "dropStage") /\ UNCHANGED stage

\* Mutant: the directory itself is taken for the answer.
CheckExistingTree(w) ==
    /\ pc[w] = "exists"
    /\ had' = [had EXCEPT ![w] = target]
    /\ Goto(w, IF target # None THEN "backup" ELSE "replace")
    /\ UNCHANGED <<target, archive, stage, backup, ok, litter>>

CheckExisting(w) ==
    /\ pc[w] = "exists"
    /\ had' = [had EXCEPT ![w] = target # None]
    /\ Goto(w, IF target # None THEN "backup" ELSE "replace")
    /\ UNCHANGED <<target, archive, stage, backup, ok, litter>>

\* rename(target, backup); it fails when the game runs, or when another worker
\* has moved the target meanwhile.
BackUp(w) ==
    /\ pc[w] = "backup"
    /\ UNCHANGED <<archive, stage, had, ok, litter>>
    /\ \/ /\ target # None
          /\ backup' = [backup EXCEPT ![w] = target]
          /\ target' = None
          /\ Goto(w, "replace")
       \/ /\ target = None \/ MayFail("backup")
          /\ Goto(w, "dropStage")
          /\ UNCHANGED <<target, backup>>

\* Mutant: a failed commit is not undone.
ReplaceNoRestore(w) ==
    /\ pc[w] = "replace"
    /\ UNCHANGED <<archive, backup, had, litter>>
    /\ \/ /\ target = None
          /\ target' = stage[w]
          /\ stage' = [stage EXCEPT ![w] = None]
          /\ ok' = [ok EXCEPT ![w] = TRUE]
          /\ Goto(w, "dropBackup")
       \/ /\ target # None \/ MayFail("replace")
          /\ Goto(w, "dropStage")
          /\ UNCHANGED <<target, stage, ok>>

\* rename(stage, target), the commit; QDir::rename refuses a name in use.
Replace(w) ==
    /\ pc[w] = "replace"
    /\ UNCHANGED <<archive, backup, had, litter>>
    /\ \/ /\ target = None
          /\ target' = stage[w]
          /\ stage' = [stage EXCEPT ![w] = None]
          /\ ok' = [ok EXCEPT ![w] = TRUE]
          /\ Goto(w, "dropBackup")
       \/ /\ target # None \/ MayFail("replace")
          /\ Goto(w, IF had[w] THEN "restore" ELSE "dropStage")
          /\ UNCHANGED <<target, stage, ok>>

\* rename(backup, target) after a failed commit; its result is ignored.
Restore(w) ==
    /\ pc[w] = "restore"
    /\ Goto(w, "dropStage")
    /\ UNCHANGED <<archive, stage, had, ok, litter>>
    /\ \/ /\ target = None
          /\ target' = backup[w]
          /\ backup' = [backup EXCEPT ![w] = None]
       \/ /\ target # None \/ MayFail("restore")
          /\ UNCHANGED <<target, backup>>

\* The stage of a failed run is removed.
DropStage(w) ==
    /\ pc[w] = "dropStage"
    /\ \E s \in Removed(stage[w]) : Return(w, s, backup[w], FALSE)
    /\ UNCHANGED <<target, archive, had>>

\* The backup of a successful run is removed.
DropBackup(w) ==
    /\ pc[w] = "dropBackup"
    /\ \E b \in Removed(backup[w]) : Return(w, None, b, TRUE)
    /\ UNCHANGED <<target, archive, had>>

\* The process dies with all its workers; nothing is cleaned up at the next start.
Crash ==
    /\ MayFail("crash")
    /\ pc' = [w \in Workers |-> "idle"]
    /\ litter' = litter \cup UNION {Left(stage[w], backup[w]) : w \in Workers}
    /\ stage' = [w \in Workers |-> None]
    /\ backup' = [w \in Workers |-> None]
    /\ ok' = [w \in Workers |-> FALSE]
    /\ UNCHANGED <<target, archive, had>>

Next ==
    \/ \E w \in Workers :
         \/ \E v \in Versions : Call(w, v)
         \/ List(w)
         \/ MakeStage(w)
         \/ ExtractToStage(w)
         \/ CheckExisting(w)
         \/ BackUp(w)
         \/ Replace(w)
         \/ Restore(w)
         \/ DropStage(w)
         \/ DropBackup(w)
    \/ Crash

Spec == Init /\ [][Next]_vars

-----------------------------------------------------------------------------
\* The install directory is absent or one whole version, whoever installs,
\* fails or dies: tar only ever works on a stage.
TargetWhole == target # None => target.whole

\* A version is where the launcher or a running installation will find it.
Kept == target # None \/ \E w \in Workers : backup[w] # None

\* Once a version is installed no step of an installation loses it: an update
\* ends with the old or the new version in place (README: a failed update keeps
\* the old one).  Only the end of the process, between the two renames, does.
NeverLost == [][Kept => Kept' \/ Crash]_vars

-----------------------------------------------------------------------------
(* With one worker the function is an atomic replacement of the tree: the tree  *)
(* is in the target, or for a moment in the backup.                             *)

Solo == CHOOSE w \in Workers : TRUE

Promise == INSTANCE AtomicInstall WITH
    tree      <- IF target # None THEN target.version
                 ELSE IF backup[Solo] # None THEN backup[Solo].version ELSE None,
    job       <- IF pc[Solo] = "idle" THEN None ELSE archive[Solo],
    committed <- ok[Solo]

\* The tree changes at one step, to the package's version, and the function says
\* so if and only if it has.
InstallsAtomically == Promise!ASpec
=============================================================================
