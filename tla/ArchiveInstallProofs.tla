------------------------- MODULE ArchiveInstallProofs -------------------------
(* What extractZipTransactional keeps for any number of workers and versions.   *)
EXTENDS ArchiveInstall, TLAPS

\* From the end of tar to the commit a worker has a whole stage of its package.
StageComplete ==
    \A w \in Workers : pc[w] \in {"exists", "backup", "replace", "restore"} =>
        stage[w] = Whole(archive[w])

BackupsWhole == \A w \in Workers : backup[w] # None => backup[w].whole

\* The part that holds whatever fails and whenever the process dies.
WholeInv == TypeOK /\ TargetWhole /\ StageComplete /\ BackupsWhole

LEMMA WholeIsTree ==
    \A v \in Versions : /\ Whole(v) \in Tree /\ Whole(v).whole /\ Whole(v).version = v
                        /\ Whole(v) # None
  <1> SUFFICES ASSUME NEW v \in Versions
               PROVE  /\ Whole(v) \in Tree /\ Whole(v).whole /\ Whole(v).version = v
                      /\ Whole(v) # None
    OBVIOUS
  <1>1. Whole(v) \in Tree /\ Whole(v).version = v
    BY DEF Whole, Tree
  <1>2. Whole(v).whole
    BY DEF Whole
  <1> QED BY <1>1, <1>2, NoneAssumption

LEMMA PartialIsTree == \A t \in Tree : Partial(t) \in Tree
  BY DEF Partial, Tree

LEMMA RemovedType ==
    ASSUME NEW t \in Tree \cup {None}
    PROVE  Removed(t) \subseteq Tree \cup {None}
  BY PartialIsTree DEF Removed

LEMMA ReturnType ==
    ASSUME TypeOK, NEW w \in Workers, NEW s \in Tree \cup {None}, NEW b \in Tree \cup {None},
           NEW r \in BOOLEAN, Return(w, s, b, r), UNCHANGED <<target, archive, had>>
    PROVE  TypeOK'
  BY DEF TypeOK, Return, Left, Step

\* The returning worker has neither stage nor backup; the others keep theirs.
LEMMA ReturnInv ==
    ASSUME WholeInv, NEW w \in Workers, NEW s \in Tree \cup {None}, NEW b \in Tree \cup {None},
           NEW r \in BOOLEAN, Return(w, s, b, r), UNCHANGED <<target, archive, had>>
    PROVE  WholeInv'
  <1>1. TypeOK'
    BY ReturnType DEF WholeInv
  <1>2. TargetWhole'
    BY DEF WholeInv, TargetWhole
  <1>3. StageComplete' /\ BackupsWhole'
    BY DEF WholeInv, TypeOK, StageComplete, BackupsWhole, Return, Whole
  <1> QED BY <1>1, <1>2, <1>3 DEF WholeInv

LEMMA InitWhole == Init => WholeInv
  BY DEF Init, WholeInv, TypeOK, TargetWhole, StageComplete, BackupsWhole, Step

LEMMA NextWhole == WholeInv /\ [Next]_vars => WholeInv'
  <1> SUFFICES ASSUME WholeInv, [Next]_vars PROVE WholeInv'
    OBVIOUS
  <1> USE DEF WholeInv
  <1>1. ASSUME NEW w \in Workers, NEW v \in Versions, Call(w, v) PROVE WholeInv'
    <2>1. TypeOK'
      BY <1>1 DEF TypeOK, Call, Goto, Step
    <2>2. (TargetWhole /\ StageComplete /\ BackupsWhole)'
      BY <1>1 DEF TypeOK, Call, Goto, TargetWhole, StageComplete, BackupsWhole, Whole
    <2> QED BY <2>1, <2>2
  <1>2. ASSUME NEW w \in Workers, List(w) PROVE WholeInv'
    <2>1. CASE Goto(w, "mkpath") /\ UNCHANGED <<stage, backup, ok, litter>>
      <3>1. TypeOK'
        BY <1>2, <2>1 DEF TypeOK, List, Goto, Step
      <3>2. (TargetWhole /\ StageComplete /\ BackupsWhole)'
        BY <1>2, <2>1 DEF TypeOK, List, Goto, TargetWhole, StageComplete, BackupsWhole, Whole
      <3> QED BY <3>1, <3>2
    <2>2. CASE Return(w, None, None, FALSE)
      BY <1>2, <2>2, ReturnInv DEF List
    <2> QED BY <1>2, <2>1, <2>2 DEF List
  <1>3. ASSUME NEW w \in Workers, MakeStage(w) PROVE WholeInv'
    <2>1. CASE Goto(w, "extract") /\ stage' = [stage EXCEPT ![w] = Partial(Whole(archive[w]))]
               /\ UNCHANGED <<backup, ok, litter>>
      <3>1. Partial(Whole(archive[w])) \in Tree
        BY WholeIsTree, PartialIsTree DEF TypeOK
      <3>2. TypeOK'
        BY <1>3, <2>1, <3>1 DEF TypeOK, MakeStage, Goto, Step
      <3>3. (TargetWhole /\ StageComplete /\ BackupsWhole)'
        BY <1>3, <2>1 DEF TypeOK, MakeStage, Goto, TargetWhole, StageComplete, BackupsWhole, Whole
      <3> QED BY <3>2, <3>3
    <2>2. CASE Return(w, None, None, FALSE)
      BY <1>3, <2>2, ReturnInv DEF MakeStage
    <2> QED BY <1>3, <2>1, <2>2 DEF MakeStage
  <1>4. ASSUME NEW w \in Workers, ExtractToStage(w) PROVE WholeInv'
    <2>1. Whole(archive[w]) \in Tree
      BY WholeIsTree DEF TypeOK
    <2>2. TypeOK'
      BY <1>4, <2>1 DEF TypeOK, ExtractToStage, Goto, Step
    <2>3. (TargetWhole /\ BackupsWhole)'
      BY <1>4 DEF ExtractToStage, TargetWhole, BackupsWhole
    <2>4. StageComplete'
      BY <1>4 DEF TypeOK, ExtractToStage, Goto, StageComplete, Whole
    <2> QED BY <2>2, <2>3, <2>4
  <1>5. ASSUME NEW w \in Workers, CheckExisting(w) PROVE WholeInv'
    <2>1. TypeOK'
      BY <1>5 DEF TypeOK, CheckExisting, Goto, Step
    <2>2. (TargetWhole /\ StageComplete /\ BackupsWhole)'
      BY <1>5 DEF TypeOK, CheckExisting, Goto, TargetWhole, StageComplete, BackupsWhole, Whole
    <2> QED BY <2>1, <2>2
  <1>6. ASSUME NEW w \in Workers, BackUp(w) PROVE WholeInv'
    <2>1. TypeOK'
      BY <1>6 DEF TypeOK, BackUp, Goto, Step
    <2>2. (TargetWhole /\ StageComplete /\ BackupsWhole)'
      BY <1>6 DEF TypeOK, BackUp, Goto, TargetWhole, StageComplete, BackupsWhole, Whole
    <2> QED BY <2>1, <2>2
  <1>7. ASSUME NEW w \in Workers, Replace(w) PROVE WholeInv'
    <2>1. TypeOK'
      BY <1>7 DEF TypeOK, Replace, Goto, Step
    <2>2. stage[w] = Whole(archive[w]) /\ stage[w].whole
      BY <1>7, WholeIsTree DEF StageComplete, Replace, TypeOK
    <2>3. TargetWhole'
      BY <1>7, <2>2 DEF TargetWhole, Replace
    <2>4. (StageComplete /\ BackupsWhole)'
      BY <1>7 DEF TypeOK, Replace, Goto, StageComplete, BackupsWhole, Whole
    <2> QED BY <2>1, <2>3, <2>4
  <1>8. ASSUME NEW w \in Workers, Restore(w) PROVE WholeInv'
    <2>1. TypeOK'
      BY <1>8 DEF TypeOK, Restore, Goto, Step
    <2>2. TargetWhole'
      BY <1>8 DEF TargetWhole, BackupsWhole, Restore
    <2>3. (StageComplete /\ BackupsWhole)'
      BY <1>8 DEF TypeOK, Restore, Goto, StageComplete, BackupsWhole, Whole
    <2> QED BY <2>1, <2>2, <2>3
  <1>9. ASSUME NEW w \in Workers, DropStage(w) PROVE WholeInv'
    <2>1. PICK s \in Removed(stage[w]) : Return(w, s, backup[w], FALSE)
      BY <1>9 DEF DropStage
    <2>2. s \in Tree \cup {None} /\ backup[w] \in Tree \cup {None}
      BY RemovedType DEF TypeOK
    <2> QED BY <1>9, <2>1, <2>2, ReturnInv DEF DropStage
  <1>10. ASSUME NEW w \in Workers, DropBackup(w) PROVE WholeInv'
    <2>1. PICK b \in Removed(backup[w]) : Return(w, None, b, TRUE)
      BY <1>10 DEF DropBackup
    <2>2. b \in Tree \cup {None}
      BY RemovedType DEF TypeOK
    <2> QED BY <1>10, <2>1, <2>2, ReturnInv DEF DropBackup
  <1>11. CASE Crash
    <2>1. TypeOK'
      BY <1>11 DEF TypeOK, Crash, Left, Step
    <2>2. (TargetWhole /\ StageComplete /\ BackupsWhole)'
      BY <1>11 DEF Crash, TargetWhole, StageComplete, BackupsWhole
    <2> QED BY <2>1, <2>2
  <1>12. CASE UNCHANGED vars
    BY <1>12 DEF vars, TypeOK, TargetWhole, StageComplete, BackupsWhole, Whole
  <1> QED
    BY <1>1, <1>2, <1>3, <1>4, <1>5, <1>6, <1>7, <1>8, <1>9, <1>10, <1>11, <1>12 DEF Next

THEOREM AlwaysWhole == Spec => []WholeInv
  BY InitWhole, NextWhole, PTL DEF Spec

\* Types, whatever fails.
THEOREM TypeCorrect == Spec => []TypeOK
  BY AlwaysWhole, PTL DEF WholeInv

\* However many installations run into one directory, fail or die with the
\* process, its content is one whole version or nothing at all.
THEOREM NoPartialInstall == Spec => []TargetWhole
  BY AlwaysWhole, PTL DEF WholeInv

-----------------------------------------------------------------------------
(* Without a failed restore no running installation loses a version.  A        *)
(* worker that moved the target away is the one that must bring a version back: *)
(* while the target is absent and a backup exists, some worker with a backup    *)
(* has still to commit or to restore.                                           *)

BackupsOwned ==
    \A w \in Workers :
        /\ backup[w] # None => pc[w] \in {"replace", "restore", "dropStage", "dropBackup"}
        /\ pc[w] = "backup" => had[w]
        /\ pc[w] = "replace" => (had[w] <=> backup[w] # None)
        /\ pc[w] = "restore" => backup[w] # None

Rescuer(w) == pc[w] \in {"replace", "restore"} /\ backup[w] # None

Rescued == target = None /\ (\E w \in Workers : backup[w] # None) => \E w \in Workers : Rescuer(w)

KeepInv == WholeInv /\ BackupsOwned /\ Rescued

LEMMA InitKeep == Init => KeepInv
  BY InitWhole DEF Init, KeepInv, BackupsOwned, Rescued

\* A return from a clean-up step loses nothing: somebody else is to bring a
\* version back if the target is absent.
LEMMA ReturnKeeps ==
    ASSUME KeepInv, NEW w \in Workers, pc[w] \in {"list", "mkpath", "dropStage", "dropBackup"},
           NEW s, NEW b, NEW r, Return(w, s, b, r), UNCHANGED <<target, archive, had>>
    PROVE  BackupsOwned' /\ Rescued' /\ (Kept => Kept')
  <1> USE DEF KeepInv, WholeInv, TypeOK
  <1>1. /\ pc' = [pc EXCEPT ![w] = "idle"]
        /\ backup' = [backup EXCEPT ![w] = None]
        /\ target' = target /\ had' = had
    BY DEF Return
  <1>2. \A u \in Workers : Rescuer(u) => u # w /\ Rescuer(u)'
    BY <1>1 DEF Rescuer
  <1>3. BackupsOwned'
    BY <1>1 DEF BackupsOwned
  <1>4. \A u \in Workers : backup'[u] # None => backup[u] # None
    BY <1>1
  <1>5. Rescued'
    BY <1>1, <1>2, <1>4 DEF Rescued
  <1>6. Kept => Kept'
    <2> SUFFICES ASSUME Kept, target = None PROVE Kept'
      BY <1>1 DEF Kept
    <2>1. PICK u \in Workers : Rescuer(u)
      BY DEF Kept, Rescued
    <2>2. backup'[u] # None
      BY <2>1, <1>2 DEF Rescuer
    <2> QED BY <2>2 DEF Kept
  <1> QED BY <1>3, <1>5, <1>6

LEMMA NextKeep ==
    ASSUME "restore" \notin Faults, KeepInv, [Next]_vars
    PROVE  BackupsOwned' /\ Rescued' /\ (Kept => Kept' \/ Crash)
  <1> USE DEF KeepInv, WholeInv
  <1> DEFINE Good == BackupsOwned' /\ Rescued' /\ (Kept => Kept' \/ Crash)
  <1> SUFFICES Good
    OBVIOUS
  \* A step that moves a worker with no backup elsewhere than to a commit.
  <1>0. ASSUME NEW w \in Workers, NEW p \in {"list", "mkpath", "extract", "exists", "dropStage"},
               Goto(w, p), backup' = backup, target' = target,
               backup[w] = None, \A u \in Workers \ {w} : had'[u] = had[u]
        PROVE  Good
    <2>1. BackupsOwned'
      BY <1>0 DEF TypeOK, Goto, BackupsOwned
    <2>2. \A u \in Workers : Rescuer(u) => Rescuer(u)'
      BY <1>0 DEF TypeOK, Goto, Rescuer
    <2>3. Rescued'
      BY <1>0, <2>2 DEF Rescued
    <2>4. Kept => Kept'
      BY <1>0 DEF Kept
    <2> QED BY <2>1, <2>3, <2>4
  <1>1. ASSUME NEW w \in Workers, NEW v \in Versions, Call(w, v) PROVE Good
    <2>1. backup[w] = None /\ \A u \in Workers \ {w} : had'[u] = had[u]
      BY <1>1 DEF Call, BackupsOwned, TypeOK
    <2> QED BY <1>0, <1>1, <2>1 DEF Call
  <1>2. ASSUME NEW w \in Workers, List(w) PROVE Good
    <2>1. backup[w] = None
      BY <1>2 DEF List, BackupsOwned
    <2>2. CASE Goto(w, "mkpath") /\ UNCHANGED <<stage, backup, ok, litter>>
      BY <1>0, <1>2, <2>1, <2>2 DEF List
    <2>3. CASE Return(w, None, None, FALSE)
      BY <1>2, <2>3, ReturnKeeps DEF List
    <2> QED BY <1>2, <2>2, <2>3 DEF List
  <1>3. ASSUME NEW w \in Workers, MakeStage(w) PROVE Good
    <2>1. backup[w] = None
      BY <1>3 DEF MakeStage, BackupsOwned
    <2>2. CASE Goto(w, "extract") /\ UNCHANGED <<backup, ok, litter>>
      BY <1>0, <1>3, <2>1, <2>2 DEF MakeStage
    <2>3. CASE Return(w, None, None, FALSE)
      BY <1>3, <2>3, ReturnKeeps DEF MakeStage
    <2> QED BY <1>3, <2>2, <2>3 DEF MakeStage
  <1>4. ASSUME NEW w \in Workers, ExtractToStage(w) PROVE Good
    <2>1. backup[w] = None
      BY <1>4 DEF ExtractToStage, BackupsOwned
    <2> QED BY <1>0, <1>4, <2>1 DEF ExtractToStage
  <1>5. ASSUME NEW w \in Workers, CheckExisting(w) PROVE Good
    <2>0. backup[w] = None
      BY <1>5 DEF CheckExisting, BackupsOwned
    <2>1. BackupsOwned'
      BY <1>5, <2>0 DEF TypeOK, CheckExisting, Goto, BackupsOwned
    <2>2. \A u \in Workers : Rescuer(u) => Rescuer(u)'
      BY <1>5, <2>0 DEF TypeOK, CheckExisting, Goto, Rescuer
    <2>3. Rescued' /\ (Kept => Kept')
      BY <1>5, <2>2 DEF CheckExisting, Rescued, Kept
    <2> QED BY <2>1, <2>3
  <1>6. ASSUME NEW w \in Workers, BackUp(w) PROVE Good
    <2>0. backup[w] = None
      BY <1>6 DEF BackUp, BackupsOwned
    <2>1. CASE target # None /\ backup' = [backup EXCEPT ![w] = target] /\ target' = None
               /\ Goto(w, "replace")
      <3>1. backup'[w] # None /\ Rescuer(w)'
        BY <2>1 DEF TypeOK, Goto, Rescuer
      <3>2. BackupsOwned'
        BY <1>6, <2>1 DEF TypeOK, BackUp, Goto, BackupsOwned
      <3> QED BY <3>1, <3>2 DEF Rescued, Kept
    <2>2. CASE Goto(w, "dropStage") /\ UNCHANGED <<target, backup>>
      BY <1>0, <1>6, <2>0, <2>2 DEF BackUp
    <2> QED BY <1>6, <2>1, <2>2 DEF BackUp
  <1>7. ASSUME NEW w \in Workers, Replace(w) PROVE Good
    <2>1. BackupsOwned'
      BY <1>7 DEF TypeOK, Replace, Goto, BackupsOwned
    <2>2. CASE target' = stage[w]
      <3>1. stage[w] # None
        BY <1>7, WholeIsTree DEF StageComplete, Replace, TypeOK
      <3> QED BY <2>1, <2>2, <3>1 DEF Rescued, Kept
    <2>3. CASE Goto(w, IF had[w] THEN "restore" ELSE "dropStage") /\ UNCHANGED target
      <3>1. \A u \in Workers : Rescuer(u) => Rescuer(u)'
        BY <1>7, <2>3 DEF TypeOK, Replace, Goto, Rescuer, BackupsOwned
      <3> QED BY <1>7, <2>1, <2>3, <3>1 DEF Replace, Rescued, Kept
    <2> QED BY <1>7, <2>2, <2>3 DEF Replace
  <1>8. ASSUME NEW w \in Workers, Restore(w) PROVE Good
    <2>1. BackupsOwned'
      BY <1>8 DEF TypeOK, Restore, Goto, BackupsOwned
    <2>2. target' # None
      BY <1>8 DEF Restore, BackupsOwned, MayFail
    <2> QED BY <2>1, <2>2 DEF Rescued, Kept
  <1>9. ASSUME NEW w \in Workers, DropStage(w) PROVE Good
    BY <1>9, ReturnKeeps DEF DropStage
  <1>10. ASSUME NEW w \in Workers, DropBackup(w) PROVE Good
    BY <1>10, ReturnKeeps DEF DropBackup
  <1>11. CASE Crash
    BY <1>11 DEF Crash, BackupsOwned, Rescued
  <1>12. CASE UNCHANGED vars
    BY <1>12 DEF vars, BackupsOwned, Rescued, Rescuer, Kept
  <1> QED
    BY <1>1, <1>2, <1>3, <1>4, <1>5, <1>6, <1>7, <1>8, <1>9, <1>10, <1>11, <1>12 DEF Next

\* An installed version is lost by nothing but the end of the process, for any
\* number of installations into one directory in any interleaving, as long as
\* restoring renames succeed.
THEOREM InstalledIsKept ==
    ASSUME "restore" \notin Faults
    PROVE  Spec => NeverLost
  <1>1. Init => KeepInv
    BY InitKeep
  <1>2. KeepInv /\ [Next]_vars => KeepInv'
    BY NextWhole, NextKeep DEF KeepInv
  <1>3. KeepInv /\ [Next]_vars => [Kept => Kept' \/ Crash]_vars
    BY NextKeep
  <1> QED BY <1>1, <1>2, <1>3, PTL DEF Spec, NeverLost

-----------------------------------------------------------------------------
(* One worker alone: the moment of the commit is the abstract replacement.      *)

\* ok is FALSE up to the commit; only a lone worker's own backup can make the
\* target absent, and no other fills it meanwhile.
SoloInv ==
    /\ pc[Solo] \notin {"idle", "dropBackup"} => ~ok[Solo]
    /\ pc[Solo] = "replace" => target = None
    /\ pc[Solo] = "restore" => target = None
    /\ pc[Solo] = "dropStage" => backup[Solo] = None
    /\ pc[Solo] = "dropBackup" => target # None /\ ok[Solo]

AtomicInv == KeepInv /\ SoloInv

LEMMA AtomicStep ==
    ASSUME "restore" \notin Faults, "crash" \notin Faults, Workers = {Solo},
           AtomicInv, [Next]_vars
    PROVE  SoloInv' /\ [Promise!ANext]_(Promise!avars)
  <1> USE DEF AtomicInv, KeepInv, WholeInv, TypeOK
  <1> DEFINE w == Solo
             Tr == IF target # None THEN target.version
                   ELSE IF backup[w] # None THEN backup[w].version ELSE None
             Job == IF pc[w] = "idle" THEN None ELSE archive[w]
             Quiet == Tr' = Tr /\ Job' = Job /\ ok'[w] = ok[w]
             Good == SoloInv' /\ [Promise!ANext]_(Promise!avars)
  <1> w \in Workers
    OBVIOUS
  <1> HIDE DEF w
  <1>a. Quiet => [Promise!ANext]_(Promise!avars)
    BY DEF Promise!avars, w
  <1>b. ASSUME NEW s, NEW b, NEW r \in BOOLEAN, Return(w, s, b, r), r = ok[w],
               UNCHANGED <<target, archive, had>>, pc[w] # "idle",
               target # None \/ backup[w] = None
        PROVE  Good
    <2>1. pc'[w] = "idle" /\ backup'[w] = None /\ ok'[w] = ok[w]
      BY <1>b DEF Return
    <2>2. SoloInv'
      BY <2>1 DEF SoloInv, w
    <2>3. Tr' = Tr
      BY <1>b, <2>1
    <2>4. Job' = None /\ Job # None
      BY <1>b, <2>1, NoneAssumption
    <2>5. Promise!Finish
      BY <2>1, <2>3, <2>4 DEF Promise!Finish, w
    <2> QED BY <2>2, <2>5 DEF Promise!ANext
  <1>0. ASSUME NEW p \in {"mkpath", "extract", "exists", "backup"},
               Goto(w, p), pc[w] # "idle", ~ok[w],
               UNCHANGED <<target, archive, backup, ok>>
        PROVE  Good
    <2>1. pc'[w] = p
      BY <1>0 DEF Goto
    <2>2. SoloInv'
      BY <1>0, <2>1 DEF SoloInv, w
    <2>3. Quiet
      BY <1>0, <2>1
    <2> QED BY <2>2, <2>3, <1>a
  <1>1. ASSUME NEW v \in Versions, Call(w, v) PROVE Good
    <2>1. pc[w] = "idle" /\ pc'[w] = "list" /\ archive'[w] = v /\ ok'[w] = FALSE
          /\ target' = target /\ backup' = backup
      BY <1>1 DEF Call, Goto
    <2>2. SoloInv'
      BY <2>1 DEF SoloInv, w
    <2>3. Tr' = Tr /\ Job = None /\ Job' = v
      BY <2>1
    <2>4. Promise!Begin(v)
      BY <2>1, <2>3 DEF Promise!Begin, w
    <2> QED BY <2>2, <2>4 DEF Promise!ANext
  <1>2. ASSUME List(w) PROVE Good
    <2>1. pc[w] # "idle" /\ ~ok[w] /\ backup[w] = None /\ UNCHANGED <<target, archive, had>>
      BY <1>2 DEF List, SoloInv, BackupsOwned, w
    <2>2. CASE Goto(w, "mkpath") /\ UNCHANGED <<stage, backup, ok, litter>>
      BY <1>0, <2>1, <2>2
    <2>3. CASE Return(w, None, None, FALSE)
      BY <1>b, <2>1, <2>3
    <2> QED BY <1>2, <2>2, <2>3 DEF List
  <1>3. ASSUME MakeStage(w) PROVE Good
    <2>1. pc[w] # "idle" /\ ~ok[w] /\ backup[w] = None /\ UNCHANGED <<target, archive, had>>
      BY <1>3 DEF MakeStage, SoloInv, BackupsOwned, w
    <2>2. CASE Goto(w, "extract") /\ UNCHANGED <<backup, ok, litter>>
      BY <1>0, <2>1, <2>2
    <2>3. CASE Return(w, None, None, FALSE)
      BY <1>b, <2>1, <2>3
    <2> QED BY <1>3, <2>2, <2>3 DEF MakeStage
  <1>4. ASSUME ExtractToStage(w) PROVE Good
    <2>1. pc[w] # "idle" /\ ~ok[w] /\ backup[w] = None
          /\ UNCHANGED <<target, archive, backup, had, ok, litter>>
      BY <1>4 DEF ExtractToStage, SoloInv, BackupsOwned, w
    <2>2. CASE Goto(w, "exists")
      BY <1>0, <2>1, <2>2
    <2>3. CASE Goto(w, "dropStage")
      <3>1. pc'[w] = "dropStage"
        BY <2>3 DEF Goto
      <3>2. SoloInv'
        BY <2>1, <3>1 DEF SoloInv, w
      <3>3. Quiet
        BY <2>1, <3>1
      <3> QED BY <3>2, <3>3, <1>a
    <2> QED BY <1>4, <2>2, <2>3 DEF ExtractToStage
  <1>5. ASSUME CheckExisting(w) PROVE Good
    <2>1. pc[w] # "idle" /\ ~ok[w] /\ UNCHANGED <<target, archive, backup, ok>>
      BY <1>5 DEF CheckExisting, SoloInv, w
    <2>2. CASE target # None
      BY <1>0, <1>5, <2>1, <2>2 DEF CheckExisting
    <2>3. CASE target = None
      <3>1. pc'[w] = "replace"
        BY <1>5, <2>3 DEF CheckExisting, Goto
      <3>2. SoloInv'
        BY <2>1, <2>3, <3>1 DEF SoloInv, w
      <3>3. Quiet
        BY <2>1, <3>1
      <3> QED BY <3>2, <3>3, <1>a
    <2> QED BY <2>2, <2>3
  <1>6. ASSUME BackUp(w) PROVE Good
    <2>1. pc[w] = "backup" /\ ~ok[w] /\ backup[w] = None /\ UNCHANGED <<archive, ok>>
      BY <1>6 DEF BackUp, SoloInv, BackupsOwned, w
    <2>2. CASE target # None /\ backup' = [backup EXCEPT ![w] = target] /\ target' = None
               /\ Goto(w, "replace")
      <3>1. pc'[w] = "replace" /\ backup'[w] = target
        BY <2>2 DEF Goto
      <3>2. SoloInv'
        BY <2>1, <2>2, <3>1 DEF SoloInv, w
      <3>3. Quiet
        BY <2>1, <2>2, <3>1
      <3> QED BY <3>2, <3>3, <1>a
    <2>3. CASE Goto(w, "dropStage") /\ UNCHANGED <<target, backup>>
      <3>1. pc'[w] = "dropStage"
        BY <2>3 DEF Goto
      <3>2. SoloInv'
        BY <2>1, <2>3, <3>1 DEF SoloInv, w
      <3>3. Quiet
        BY <2>1, <2>3, <3>1
      <3> QED BY <3>2, <3>3, <1>a
    <2> QED BY <1>6, <2>2, <2>3 DEF BackUp
  <1>7. ASSUME Replace(w) PROVE Good
    <2>1. pc[w] = "replace" /\ ~ok[w] /\ target = None /\ UNCHANGED <<archive, backup, had>>
      BY <1>7 DEF Replace, SoloInv, w
    <2>2. stage[w] = Whole(archive[w]) /\ stage[w] # None /\ stage[w].version = archive[w]
      BY <2>1, WholeIsTree DEF StageComplete
    <2>3. CASE target' = stage[w] /\ ok' = [ok EXCEPT ![w] = TRUE] /\ Goto(w, "dropBackup")
      <3>1. pc'[w] = "dropBackup" /\ ok'[w] = TRUE
        BY <2>3 DEF Goto
      <3>2. SoloInv'
        BY <2>2, <2>3, <3>1 DEF SoloInv, w
      <3>3. Tr' = Job /\ Job' = Job /\ Job # None
        BY <2>1, <2>2, <2>3, <3>1, NoneAssumption
      <3>4. Promise!Commit
        BY <2>1, <3>1, <3>3 DEF Promise!Commit, w
      <3> QED BY <3>2, <3>4 DEF Promise!ANext
    <2>4. CASE Goto(w, IF had[w] THEN "restore" ELSE "dropStage") /\ UNCHANGED <<target, ok>>
      <3>1. pc'[w] \in {"restore", "dropStage"} /\ (pc'[w] = "dropStage" => backup[w] = None)
        BY <2>1, <2>4 DEF Goto, BackupsOwned
      <3>2. SoloInv'
        BY <2>1, <2>4, <3>1 DEF SoloInv, w
      <3>3. Quiet
        BY <2>1, <2>4, <3>1
      <3> QED BY <3>2, <3>3, <1>a
    <2> QED BY <1>7, <2>3, <2>4 DEF Replace
  <1>8. ASSUME Restore(w) PROVE Good
    <2>1. /\ pc[w] = "restore" /\ ~ok[w] /\ target = None /\ UNCHANGED <<archive, ok>>
          /\ target' = backup[w] /\ backup' = [backup EXCEPT ![w] = None]
          /\ Goto(w, "dropStage") /\ backup[w] # None
      BY <1>8 DEF Restore, SoloInv, BackupsOwned, MayFail, w
    <2>2. pc'[w] = "dropStage" /\ backup'[w] = None
      BY <2>1 DEF Goto
    <2>3. SoloInv'
      BY <2>1, <2>2 DEF SoloInv, w
    <2>4. Quiet
      BY <2>1, <2>2
    <2> QED BY <2>3, <2>4, <1>a
  <1>9. ASSUME DropStage(w) PROVE Good
    BY <1>9, <1>b DEF DropStage, SoloInv, w
  <1>10. ASSUME DropBackup(w) PROVE Good
    BY <1>10, <1>b DEF DropBackup, SoloInv, w
  <1>11. CASE Crash
    BY <1>11 DEF Crash, MayFail
  <1>12. CASE UNCHANGED vars
    BY <1>12, <1>a DEF vars, SoloInv, w
  <1>13. Next => \/ \E v \in Versions : Call(w, v)
                 \/ List(w) \/ MakeStage(w) \/ ExtractToStage(w) \/ CheckExisting(w)
                 \/ BackUp(w) \/ Replace(w) \/ Restore(w) \/ DropStage(w) \/ DropBackup(w)
                 \/ Crash
    BY DEF Next, w
  <1> QED
    BY <1>1, <1>2, <1>3, <1>4, <1>5, <1>6, <1>7, <1>8, <1>9, <1>10, <1>11, <1>12, <1>13

\* A lone installation replaces the tree at one moment and says truly whether it
\* did, for any versions and any failure but a failed restore.
THEOREM LoneInstallIsAtomic ==
    ASSUME "restore" \notin Faults, "crash" \notin Faults, Workers = {Solo}
    PROVE  Spec => InstallsAtomically
  <1>1. Init => AtomicInv
    BY InitKeep DEF Init, AtomicInv, SoloInv
  <1>2. AtomicInv /\ [Next]_vars => AtomicInv'
    BY NextWhole, NextKeep, AtomicStep DEF AtomicInv, KeepInv
  <1>3. AtomicInv /\ [Next]_vars => [Promise!ANext]_(Promise!avars)
    BY AtomicStep
  <1>4. Init => Promise!AInit
    BY DEF Init, Promise!AInit
  <1> QED BY <1>1, <1>2, <1>3, <1>4, PTL DEF Spec, InstallsAtomically, Promise!ASpec
=============================================================================
