------------------------- MODULE InstanceInstallProofs -------------------------
(***************************************************************************)
(* For any files, versions and manifests, and any number of calls, edits   *)
(* and crashes: what the user wrote to a path since the last install is in *)
(* the instance or in a backup folder; the version the lock names is in    *)
(* place; an install that fails leaves the user's files where they were;   *)
(* no install brings a deleted instance back; and what modpacks put into   *)
(* the instance is what the lock lists, or the user is told of it.         *)
(***************************************************************************)
EXTENDS InstanceInstall, TLAPS

-----------------------------------------------------------------------------
(* The invariant. *)

Filling == {"link", "fetch", "filled", "backup"}
Moving == {"rename", "undo3"}
Active == Filling \cup Moving \cup {"undo2"}

\* What may still be renamed, or renamed back.
Queued == IF run.pc \in {"undo3", "undo2"} THEN run.landed \cup run.inflight ELSE ToRename

\* The fields a step changes are there.
RunFields == {"pc", "v", "base", "resumes", "backup", "remove", "link", "fetch",
              "ready", "unresolvable", "finished", "saved", "landed", "inflight",
              "stuck", "mine"}
Shapes ==
  /\ DOMAIN run = RunFields
  /\ DOMAIN inst = Files /\ DOMAIN back = Files /\ DOMAIN mark = Files
  /\ \A f \in Files : DOMAIN inst[f] = {"c", "fresh"} /\ DOMAIN back[f] = {"c", "fresh"}

\* A path without content has no file.
NoContentNoFile ==
  \A f \in Files : /\ inst[f].c = None => inst[f] = NoFile
                   /\ back[f].c = None => back[f] = NoFile

\* Who a waiting call, a run and a profile belong to.
Owners ==
  /\ call # NoCall => call.v \in Versions
  /\ run.pc # "idle" => run.v \in Versions /\ ~call.resumes
  /\ profile # NoProfile => profile.v \in Versions
  /\ run.pc \in Active \cup {"plan"} => profile.v \in {None, run.v}

\* What a run has queued and moved.
Queues ==
  /\ run.pc \in {"start", "plan"} => run.saved = {} /\ run.remove = {}
  /\ run.pc \in Filling \cup {"start", "plan"} => run.landed = {} /\ run.inflight = {}
  /\ run.pc \in Active =>
       /\ Queued \subseteq Manifest[run.v] \cap Files
       /\ run.landed \subseteq Queued /\ run.inflight \subseteq Queued

\* Content the user expects, as long as nobody edits the path again; and no
\* other install was given the backup folder it lies in.
Expected(f) == mark[f] = "fresh"
Kept(f) == Expected(f) /\ f \notin shared

\* It is later than the lock, so that a plan sees that it was touched.
FreshContent ==
  \A f \in Files : Expected(f) =>
    /\ inst[f].c # Stale
    /\ inst[f].c = User => inst[f].fresh

\* What is saved in this run is as the plan saw it.
SavedContent ==
  run.pc \in Active =>
    \A f \in run.saved \cap Files : Expected(f) =>
      inst[f].c # User /\ back[f].c # Stale /\ (back[f].c = User => back[f].fresh)

\* A file replaces the user's only after that one was moved to the backup.
CopiedBeforeReplaced ==
  \A f \in Files : Expected(f) =>
    /\ run.pc \in Filling /\ f \in Queued /\ inst[f].c = User => f \in run.backup
    /\ run.pc \in Moving /\ f \in Queued => inst[f].c # User
    /\ run.pc = "undo2" /\ f \in run.inflight => inst[f].c # User

\* The second copy of a resumed run does not replace the user's.
FirstCopyKept ==
  \A f \in Files : Kept(f) =>
    /\ run.pc \in Filling /\ f \in run.backup /\ back[f].c = User => inst[f].c \in {User, None}
    /\ run.pc \in Active \cup {"clean"} /\ f \in run.remove => User \notin {inst[f].c, back[f].c}

\* Where the user's content is in the backup folder and another file in its
\* place, that file is of the version the backup folder belongs to.
Hidden(f) == Kept(f) /\ back[f].c = User /\ inst[f].c \notin {User, None}
HiddenByOwner ==
  \A f \in Files : Hidden(f) =>
    LET owned(v) == inst[f].c = v /\ f \in Manifest[v]
    IN  /\ profile # NoProfile => owned(profile.v)
        /\ call.resumes => owned(call.v)
        /\ run.pc = "start" /\ run.resumes => owned(run.v)
        /\ run.pc \in Active \cup {"plan"} => owned(run.v)

IInv ==
  /\ Shapes /\ NoContentNoFile /\ Owners /\ Queues
  /\ FreshContent /\ SavedContent /\ CopiedBeforeReplaced /\ FirstCopyKept
  /\ HiddenByOwner /\ UserContentKept

\* A deleted instance: a run that finds no folder fails at once.
Gone ==
  removal = "done" =>
    inst = NoFiles /\ profile = NoProfile /\ lock = None /\ run.pc \in {"idle", "start", "failed"}

-----------------------------------------------------------------------------
LEMMA NamesDiffer ==
  /\ None \notin Versions /\ User \notin Versions /\ Stale \notin Versions
  /\ User # None /\ Stale # None /\ User # Stale
BY InstanceInstallAssumption DEF None, User, Stale

USE NamesDiffer DEF Filling, Moving, Active, Expected, Kept, Hidden

-----------------------------------------------------------------------------
(* What the operators that change the run leave alone. *)

LEMMA AfterGoto ==
  ASSUME Shapes, NEW p, Goto(p)
  PROVE  /\ DOMAIN run' = RunFields /\ run'.pc = p
         /\ run'.v = run.v /\ run'.base = run.base /\ run'.resumes = run.resumes
         /\ run'.backup = run.backup /\ run'.remove = run.remove
         /\ run'.saved = run.saved /\ run'.landed = run.landed
         /\ run'.inflight = run.inflight /\ ToRename' = ToRename
         /\ run'.mine = run.mine /\ run'.stuck = run.stuck
         /\ run'.unresolvable = run.unresolvable
BY DEF Shapes, RunFields, Goto, ToRename

LEMMA AfterEnd ==
  ASSUME NEW p, End(p)
  PROVE  /\ DOMAIN run' = RunFields /\ run'.pc = p
         /\ run'.v = run.v /\ run'.resumes = FALSE /\ ToRename' = {}
         /\ run'.backup = {} /\ run'.remove = {} /\ run'.saved = {}
         /\ run'.landed = {} /\ run'.inflight = {}
         /\ run'.unresolvable = run.unresolvable
BY DEF End, NoRun, RunFields, ToRename

LEMMA AfterFail ==
  ASSUME Fail
  PROVE  /\ DOMAIN run' = RunFields /\ run'.pc = "failed"
         /\ run'.v = run.v /\ run'.resumes = FALSE /\ ToRename' = {}
         /\ run'.backup = {} /\ run'.remove = {} /\ run'.saved = {}
         /\ run'.landed = {} /\ run'.inflight = {}
         /\ run'.mine = run.mine /\ run'.stuck = run.stuck
BY DEF Fail, NoRun, RunFields, ToRename

LEMMA AfterRollback ==
  ASSUME NEW p \in {"undo3", "undo2"}, NEW inflight, Rollback(p, inflight)
  PROVE  /\ DOMAIN run' = RunFields /\ run'.pc = p
         /\ run'.v = run.v /\ run'.resumes = FALSE
         /\ run'.backup = {} /\ run'.remove = {}
         /\ run'.saved = run.saved /\ run'.landed = run.landed
         /\ run'.inflight = inflight /\ Queued' = run.landed \cup inflight
         /\ run'.mine = run.mine /\ run'.stuck = {}
BY DEF Rollback, NoRun, RunFields, Queued

LEMMA EndKeeps ==
  ASSUME IInv, Fail \/ \E p \in Ended \cup {"lock"} : End(p), run.pc # "idle",
         UNCHANGED <<inst, back, mark, shared, archive, call, profile>>
  PROVE  IInv'
<1>1. /\ run'.pc \notin Active \cup {"idle", "start", "plan", "clean"}
      /\ DOMAIN run' = RunFields /\ run'.v = run.v
  BY AfterEnd, AfterFail DEF Ended
<1>2. Shapes'
  BY <1>1 DEF IInv, Shapes
<1>3. Owners'
  BY <1>1 DEF IInv, Owners
<1>4. NoContentNoFile' /\ FreshContent' /\ UserContentKept'
  BY DEF IInv, NoContentNoFile, FreshContent, UserContentKept, UserHas
<1>5. Queues' /\ SavedContent' /\ CopiedBeforeReplaced' /\ FirstCopyKept'
  BY <1>1 DEF Queues, SavedContent, CopiedBeforeReplaced, FirstCopyKept
<1>6. HiddenByOwner'
  BY <1>1 DEF IInv, HiddenByOwner
<1> QED BY <1>2, <1>3, <1>4, <1>5, <1>6 DEF IInv

LEMMA AbortedKeeps ==
  ASSUME IInv, Aborted
  PROVE  IInv'
<1>1. Fail \/ End("incomplete")
  BY DEF Aborted
<1>2. run.pc # "idle" /\ UNCHANGED <<inst, back, mark, shared, archive, call, profile>>
  BY DEF Aborted, Keep, diskVars, histVars
<1> QED BY <1>1, <1>2, EndKeeps DEF Ended

LEMMA WriteProfileKeeps ==
  ASSUME IInv, WriteProfile
  PROVE  IInv'
<1>1. run.pc = "start" /\ UNCHANGED <<inst, mark, call>>
  BY DEF WriteProfile, Keep
<1>2. CASE FolderGone
  <2>1. Fail /\ UNCHANGED <<profile, back, archive, shared>>
    BY <1>2 DEF WriteProfile
  <2> QED BY <1>1, <2>1, EndKeeps DEF Ended
<1>3. CASE ~FolderGone
  <2>1. Goto("plan") /\ profile'.v = run.v
    BY <1>3 DEF WriteProfile
  <2>2. Shapes
    BY DEF IInv
  <2>3. /\ DOMAIN run' = RunFields /\ run'.pc = "plan"
        /\ run'.v = run.v /\ run'.resumes = run.resumes
        /\ run'.saved = run.saved /\ run'.remove = run.remove
        /\ run'.landed = run.landed /\ run'.inflight = run.inflight
    BY <2>1, <2>2, AfterGoto
  <2>4. \/ run.resumes /\ UNCHANGED <<back, archive, shared>>
        \/ /\ ~run.resumes /\ back' = NoFiles /\ UNCHANGED shared
           /\ archive' = archive \cup {f \in Files : back[f].c = User}
        \/ /\ ~run.resumes /\ UNCHANGED <<back, archive>>
           /\ shared' = shared \cup {f \in Files : back[f].c = User}
    BY <1>3 DEF WriteProfile
  <2>14. \A f \in Files : Kept(f)' => Kept(f)
    BY <1>1, <2>4
  <2>5. /\ DOMAIN back' = Files
        /\ \A f \in Files : back'[f] = back[f] \/ back'[f] = NoFile
    BY <2>2, <2>4 DEF Shapes, NoFiles
  <2>6. Shapes'
    BY <1>1, <2>2, <2>3, <2>5 DEF Shapes, NoFile
  <2>7. NoContentNoFile'
    BY <1>1, <2>5 DEF IInv, NoContentNoFile, NoFile
  <2>8. Owners'
    BY <1>1, <2>1, <2>3 DEF IInv, Owners
  <2>9. Queues'
    BY <1>1, <2>3 DEF IInv, Queues
  <2>10. FreshContent'
    BY <1>1 DEF IInv, FreshContent
  <2>11. SavedContent' /\ CopiedBeforeReplaced' /\ FirstCopyKept'
    BY <2>3 DEF SavedContent, CopiedBeforeReplaced, FirstCopyKept
  <2>12. HiddenByOwner'
    BY <1>1, <2>1, <2>3, <2>4, <2>14 DEF IInv, HiddenByOwner, Owners, NoFiles, NoFile
  <2>13. UserContentKept'
    BY <1>1, <2>4, <2>14 DEF IInv, UserContentKept, UserHas
  <2> QED BY <2>6, <2>7, <2>8, <2>9, <2>10, <2>11, <2>12, <2>13 DEF IInv
<1> QED BY <1>2, <1>3

LEMMA FillFailsKeeps ==
  ASSUME IInv, FillFails
  PROVE  IInv'
<1>1. run.pc \in Filling /\ Fail /\ UNCHANGED <<inst, back, mark, shared, archive, call>>
  BY DEF FillFails, Keep, histVars
<1>2. profile' = profile \/ profile'.v = run.v
  BY DEF FillFails, SaveFailure
<1>3. DOMAIN run' = RunFields /\ run'.pc = "failed" /\ run'.v = run.v
  BY <1>1, AfterFail
<1>4. Shapes'
  BY <1>1, <1>3 DEF IInv, Shapes
<1>5. Owners'
  BY <1>1, <1>2, <1>3 DEF IInv, Owners
<1>6. NoContentNoFile' /\ FreshContent' /\ UserContentKept'
  BY <1>1 DEF IInv, NoContentNoFile, FreshContent, UserContentKept, UserHas
<1>7. Queues' /\ SavedContent' /\ CopiedBeforeReplaced' /\ FirstCopyKept'
  BY <1>3 DEF Queues, SavedContent, CopiedBeforeReplaced, FirstCopyKept
<1>8. HiddenByOwner'
  BY <1>1, <1>2, <1>3 DEF IInv, HiddenByOwner
<1> QED BY <1>4, <1>5, <1>6, <1>7, <1>8 DEF IInv

LEMMA RollbackKeeps ==
  ASSUME IInv, BackupFails \/ RenameFails
  PROVE  IInv'
<1>1. /\ run.pc \in {"backup", "rename"}
      /\ UNCHANGED <<inst, back, mark, shared, archive, call, profile>>
  BY DEF BackupFails, RenameFails, Keep, histVars, diskVars
<1>2. \E p \in {"undo3", "undo2"}, later \in SUBSET ToRename :
        /\ Rollback(p, later)
        /\ p = "undo2" => run.pc = "backup" /\ later = {}
        /\ p = "undo3" => run.pc = "rename"
  <2>1. CASE BackupFails
    BY <2>1 DEF BackupFails
  <2>2. CASE RenameFails
    <3>1. run.pc = "rename" /\ \E later \in SUBSET ToRename : Rollback("undo3", later)
      BY <2>2 DEF RenameFails
    <3> QED BY <3>1
  <2> QED BY <2>1, <2>2
<1>3. /\ DOMAIN run' = RunFields /\ run'.v = run.v
      /\ \/ run'.pc = "undo2" /\ run.pc = "backup" /\ run'.inflight = {}
         \/ run'.pc = "undo3" /\ run.pc = "rename"
      /\ run'.remove = {} /\ run'.saved = run.saved /\ run'.landed = run.landed
      /\ run'.inflight \subseteq Queued' /\ run'.landed \subseteq Queued'
      /\ Queued' \subseteq Queued
  <2>1. Queued = ToRename /\ run.landed \subseteq ToRename
    BY <1>1 DEF IInv, Queues, Queued
  <2>2. PICK p \in {"undo3", "undo2"}, later \in SUBSET ToRename :
          /\ Rollback(p, later)
          /\ p = "undo2" => run.pc = "backup" /\ later = {}
          /\ p = "undo3" => run.pc = "rename"
    BY <1>2
  <2>3. /\ DOMAIN run' = RunFields /\ run'.pc = p /\ run'.v = run.v
        /\ run'.remove = {} /\ run'.saved = run.saved /\ run'.landed = run.landed
        /\ run'.inflight = later /\ Queued' = run.landed \cup later
    BY <2>2, AfterRollback
  <2> QED BY <2>1, <2>2, <2>3
<1>4. Shapes'
  BY <1>1, <1>3 DEF IInv, Shapes
<1>5. Owners'
  BY <1>1, <1>3 DEF IInv, Owners
<1>6. NoContentNoFile' /\ FreshContent' /\ UserContentKept'
  BY <1>1 DEF IInv, NoContentNoFile, FreshContent, UserContentKept, UserHas
<1>7. Queues'
  BY <1>1, <1>3 DEF IInv, Queues
<1>8. SavedContent' /\ CopiedBeforeReplaced' /\ FirstCopyKept'
  <2>2. SavedContent' /\ FirstCopyKept'
    BY <1>1, <1>3 DEF IInv, SavedContent, FirstCopyKept
  <2>3. CopiedBeforeReplaced'
    BY <1>1, <1>3 DEF IInv, CopiedBeforeReplaced
  <2> QED BY <2>2, <2>3
<1>9. HiddenByOwner'
  BY <1>1, <1>3 DEF IInv, HiddenByOwner
<1> QED BY <1>4, <1>5, <1>6, <1>7, <1>8, <1>9 DEF IInv

LEMMA CleanUpKeeps ==
  ASSUME IInv, CleanUp
  PROVE  IInv'
<1>1. run.pc = "clean" /\ UNCHANGED <<inst, mark, shared, archive, call, profile>>
  BY DEF CleanUp, Keep, histVars
<1>2. /\ DOMAIN run' = RunFields /\ run'.v = run.v
      /\ run'.pc \notin Active \cup {"idle", "start", "plan", "clean"}
  <2>1. \E p \in {"lock", "incomplete"} : End(p)
    BY DEF CleanUp
  <2> QED BY <2>1, AfterEnd
<1>3. back' = [f \in Files |-> IF f \in run.remove THEN NoFile ELSE back[f]]
  BY DEF CleanUp
<1>4. Shapes'
  BY <1>1, <1>2, <1>3 DEF IInv, Shapes, NoFile
<1>5. NoContentNoFile'
  BY <1>1, <1>3 DEF IInv, NoContentNoFile, NoFile
<1>6. Owners'
  BY <1>1, <1>2 DEF IInv, Owners
<1>7. FreshContent'
  BY <1>1 DEF IInv, FreshContent
<1>8. Queues' /\ SavedContent' /\ CopiedBeforeReplaced' /\ FirstCopyKept'
  BY <1>2 DEF Queues, SavedContent, CopiedBeforeReplaced, FirstCopyKept
<1>9. \A f \in Files : Kept(f) /\ back[f].c = User => f \notin run.remove
  BY <1>1 DEF IInv, FirstCopyKept
<1>10. HiddenByOwner'
  BY <1>1, <1>2, <1>3 DEF IInv, HiddenByOwner, NoFile
<1>11. UserContentKept'
  BY <1>1, <1>3, <1>9 DEF IInv, UserContentKept, UserHas
<1> QED BY <1>4, <1>5, <1>6, <1>7, <1>8, <1>10, <1>11 DEF IInv

\* Nothing the user may expect is both in the instance and older than the lock.
LEMMA WriteLockKeeps ==
  ASSUME IInv, WriteLock
  PROVE  IInv'
<1>1. run.pc = "lock" /\ UNCHANGED <<call, profile, archive, shared>>
  BY DEF WriteLock, Keep
<1>2. CASE End("incomplete") /\ UNCHANGED <<lock, inst, back, mark>>
  BY <1>1, <1>2, EndKeeps DEF Ended
<1>3. CASE /\ Goto("unlink")
           /\ inst' = [f \in Files |-> [inst[f] EXCEPT !.fresh = FALSE]]
           /\ back' = [f \in Files |-> [back[f] EXCEPT !.fresh = FALSE]]
           /\ mark' = [f \in Files |->
                          IF mark[f] = "fresh" /\ inst[f].c = User
                          THEN "old" ELSE mark[f]]
  <2>1. Shapes
    BY DEF IInv
  <2>2. DOMAIN run' = RunFields /\ run'.pc = "unlink" /\ run'.v = run.v
    BY <1>3, <2>1, AfterGoto
  <2>3. \A f \in Files :
          /\ inst'[f].c = inst[f].c /\ back'[f].c = back[f].c
          /\ DOMAIN inst'[f] = {"c", "fresh"} /\ DOMAIN back'[f] = {"c", "fresh"}
          /\ Expected(f)' => Expected(f) /\ inst[f].c # User
    BY <1>1, <1>3, <2>1 DEF Shapes
  <2>4. Shapes'
    BY <1>3, <2>2, <2>3 DEF Shapes
  <2>5. NoContentNoFile'
    <3>1. NoFile = [x \in DOMAIN NoFile |-> NoFile[x]] /\ NoFile.fresh = FALSE
      BY DEF NoFile
    <3>2. \A f \in Files : /\ inst[f] = NoFile => inst'[f] = NoFile
                           /\ back[f] = NoFile => back'[f] = NoFile
      BY <1>3, <3>1
    <3> QED BY <2>3, <3>2 DEF IInv, NoContentNoFile
  <2>6. Owners'
    BY <1>1, <2>2 DEF IInv, Owners
  <2>7. FreshContent' /\ UserContentKept'
    BY <1>1, <2>3 DEF IInv, FreshContent, UserContentKept, UserHas
  <2>8. Queues' /\ SavedContent' /\ CopiedBeforeReplaced' /\ FirstCopyKept'
    BY <2>2 DEF Queues, SavedContent, CopiedBeforeReplaced, FirstCopyKept
  <2>9. HiddenByOwner'
    BY <1>1, <2>2, <2>3 DEF IInv, HiddenByOwner
  <2> QED BY <2>4, <2>5, <2>6, <2>7, <2>8, <2>9 DEF IInv
<1> QED BY <1>2, <1>3 DEF WriteLock

-----------------------------------------------------------------------------
(* The steps that move files. *)

\* A file of the version lands on a path the user's content has left.
LEMMA LandKeeps ==
  ASSUME IInv, NEW f \in Queued, Land(f), run.pc \in Moving \cup {"undo2"},
         Expected(f) => inst[f].c # User,
         DOMAIN run' = RunFields, run'.pc = run.pc, run'.v = run.v,
         run'.remove = run.remove, run'.saved = run.saved, Queued' \subseteq Queued,
         run'.landed \subseteq Queued', run'.inflight \subseteq Queued',
         run'.inflight \subseteq run.inflight,
         UNCHANGED <<back, mark, shared, archive, call, profile>>
  PROVE  IInv'
<1>1. f \in Files /\ f \in Manifest[run.v] /\ run.v \in Versions /\ ~call.resumes
  BY DEF IInv, Queues, Owners
<1>2. /\ DOMAIN inst' = Files /\ inst'[f].c = run.v /\ DOMAIN inst'[f] = {"c", "fresh"}
      /\ \A g \in Files \ {f} : inst'[g] = inst[g]
  BY <1>1 DEF IInv, Shapes, Land
<1>3. Shapes'
  BY <1>1, <1>2 DEF IInv, Shapes
<1>4. NoContentNoFile'
  BY <1>1, <1>2 DEF IInv, NoContentNoFile
<1>5. Owners'
  BY <1>1 DEF IInv, Owners
<1>6. Queues'
  BY DEF IInv, Queues
<1>7. FreshContent'
  BY <1>1, <1>2 DEF IInv, FreshContent
<1>8. SavedContent'
  BY <1>1, <1>2 DEF IInv, SavedContent
<1>9. CopiedBeforeReplaced'
  BY <1>1, <1>2 DEF IInv, CopiedBeforeReplaced
<1>10. FirstCopyKept'
  BY <1>1, <1>2 DEF IInv, FirstCopyKept
<1>11. profile # NoProfile => profile.v = run.v
  BY DEF IInv, Owners
<1>12. HiddenByOwner'
  BY <1>1, <1>2, <1>11 DEF IInv, HiddenByOwner
<1>13. UserContentKept'
  BY <1>1, <1>2 DEF IInv, UserContentKept, UserHas
<1> QED BY <1>3, <1>4, <1>5, <1>6, <1>7, <1>8, <1>9, <1>10, <1>12, <1>13 DEF IInv

LEMMA RenameFileKeeps ==
  ASSUME IInv, NEW f \in Files, RenameFile(f)
  PROVE  IInv'
<1>1. /\ run.pc = "rename" /\ f \in Queued /\ Queued = ToRename /\ Land(f)
      /\ run' = [run EXCEPT !.landed = @ \cup {f}]
      /\ UNCHANGED <<back, mark, shared, archive, call, profile>>
  BY DEF RenameFile, Keep, histVars, Queued
<1>2. /\ DOMAIN run' = RunFields /\ run'.pc = run.pc /\ run'.v = run.v
      /\ run'.remove = run.remove /\ run'.saved = run.saved /\ Queued' = Queued
      /\ run'.landed = run.landed \cup {f} /\ run'.inflight = run.inflight
  BY <1>1 DEF IInv, Shapes, RunFields, ToRename, Queued
<1>3. run'.landed \subseteq Queued /\ run.inflight \subseteq Queued /\ (Expected(f) => inst[f].c # User)
  BY <1>1, <1>2 DEF IInv, Queues, CopiedBeforeReplaced
<1> QED BY <1>1, <1>2, <1>3, LandKeeps

LEMMA LateRenameKeeps ==
  ASSUME IInv, NEW f \in Files, LateRename(f)
  PROVE  IInv'
<1>1. /\ run.pc \in {"undo3", "undo2"} /\ f \in run.inflight
      /\ UNCHANGED <<back, mark, shared, archive, call, profile>>
  BY DEF LateRename, Keep, histVars
<1>2. f \in Queued /\ run.landed \subseteq Queued /\ run.inflight \subseteq Queued
  BY <1>1 DEF IInv, Queues
<1>3. CASE /\ Land(f)
           /\ run' = [run EXCEPT !.inflight = @ \ {f},
                        !.landed = IF run.pc = "undo3" THEN @ \cup {f} ELSE @]
  <2>1. /\ DOMAIN run' = RunFields /\ run'.pc = run.pc /\ run'.v = run.v
        /\ run'.remove = run.remove /\ run'.saved = run.saved
        /\ run'.landed \subseteq run.landed \cup {f} /\ run'.inflight = run.inflight \ {f}
    BY <1>3 DEF IInv, Shapes, RunFields
  <2>3. Queued = run.landed \cup run.inflight /\ Queued' = run'.landed \cup run'.inflight
    BY <1>1, <2>1 DEF Queued
  <2>2. Expected(f) => inst[f].c # User
    BY <1>1, <1>2 DEF IInv, CopiedBeforeReplaced
  <2> QED BY <1>1, <1>2, <1>3, <2>1, <2>2, <2>3, LandKeeps
<1>4. CASE UNCHANGED inst /\ run' = [run EXCEPT !.inflight = @ \ {f}]
  <2>1. /\ DOMAIN run' = RunFields /\ run'.pc = run.pc /\ run'.v = run.v
        /\ run'.remove = run.remove /\ run'.saved = run.saved
        /\ run'.landed = run.landed /\ run'.inflight = run.inflight \ {f}
        /\ Queued' \subseteq Queued /\ run'.landed \cup run'.inflight \subseteq Queued'
    BY <1>1, <1>4 DEF IInv, Shapes, RunFields, Queued
  <2>2. Shapes' /\ NoContentNoFile' /\ FreshContent' /\ UserContentKept'
    BY <1>1, <1>4, <2>1 DEF IInv, Shapes, NoContentNoFile, FreshContent, UserContentKept, UserHas
  <2>3. Owners'
    BY <1>1, <2>1 DEF IInv, Owners
  <2>4. Queues'
    BY <1>1, <2>1 DEF IInv, Queues
  <2>5. SavedContent' /\ CopiedBeforeReplaced' /\ FirstCopyKept'
    BY <1>1, <1>4, <2>1 DEF IInv, SavedContent, CopiedBeforeReplaced, FirstCopyKept
  <2>6. HiddenByOwner'
    BY <1>1, <1>4, <2>1 DEF IInv, HiddenByOwner
  <2> QED BY <2>2, <2>3, <2>4, <2>5, <2>6 DEF IInv
<1> QED BY <1>3, <1>4 DEF LateRename

LEMMA UndoRenameKeeps ==
  ASSUME IInv, NEW f \in Files, UndoRename(f)
  PROVE  IInv'
<1>1. /\ run.pc = "undo3" /\ f \in run.landed
      /\ run' = [run EXCEPT !.landed = @ \ {f}]
      /\ UNCHANGED <<back, mark, shared, archive, call, profile>>
  BY DEF UndoRename, Keep, histVars
<1>2. inst' = inst \/ inst' = [inst EXCEPT ![f] = NoFile]
  BY DEF UndoRename
<1>3. /\ DOMAIN run' = RunFields /\ run'.pc = run.pc /\ run'.v = run.v
      /\ run'.remove = run.remove /\ run'.saved = run.saved
      /\ run'.landed = run.landed \ {f} /\ run'.inflight = run.inflight
      /\ Queued' \subseteq Queued /\ run'.landed \cup run'.inflight \subseteq Queued'
  BY <1>1 DEF IInv, Shapes, RunFields, Queued
<1>4. /\ DOMAIN inst' = Files
      /\ inst'[f] \in {inst[f], NoFile} /\ \A g \in Files \ {f} : inst'[g] = inst[g]
  BY <1>2 DEF IInv, Shapes
<1>5. NoFile.c = None /\ DOMAIN NoFile = {"c", "fresh"}
  BY DEF NoFile
<1>6. Expected(f) => inst[f].c # User
  BY <1>1 DEF IInv, Queues, CopiedBeforeReplaced
<1>7. Shapes'
  BY <1>1, <1>3, <1>4, <1>5 DEF IInv, Shapes
<1>8. NoContentNoFile'
  BY <1>1, <1>4 DEF IInv, NoContentNoFile
<1>9. Owners'
  BY <1>1, <1>3 DEF IInv, Owners
<1>10. Queues'
  BY <1>1, <1>3 DEF IInv, Queues
<1>11. FreshContent'
  BY <1>1, <1>4, <1>5 DEF IInv, FreshContent
<1>12. SavedContent'
  BY <1>1, <1>3, <1>4, <1>5 DEF IInv, SavedContent
<1>13. CopiedBeforeReplaced' /\ FirstCopyKept'
  BY <1>1, <1>3, <1>4, <1>5 DEF IInv, CopiedBeforeReplaced, FirstCopyKept
<1>14. HiddenByOwner'
  BY <1>1, <1>3, <1>4, <1>5 DEF IInv, HiddenByOwner
<1>15. UserContentKept'
  BY <1>1, <1>4, <1>6 DEF IInv, UserContentKept, UserHas
<1> QED BY <1>7, <1>8, <1>9, <1>10, <1>11, <1>12, <1>13, <1>14, <1>15 DEF IInv

LEMMA RestoreFileKeeps ==
  ASSUME IInv, NEW f \in Files, RestoreFile(f)
  PROVE  IInv'
<1>1. /\ run.pc = "undo2" /\ f \in run.saved /\ f \notin run.inflight
      /\ UNCHANGED <<mark, shared, archive, call, profile>>
  BY DEF RestoreFile, Keep, histVars
<1>2. \/ run' = [run EXCEPT !.saved = @ \ {f}]
      \/ run' = [run EXCEPT !.saved = @ \ {f}, !.stuck = @ \cup {f}]
  BY DEF RestoreFile
<1>3. /\ DOMAIN run' = RunFields /\ run'.pc = run.pc /\ run'.v = run.v
      /\ run'.remove = run.remove /\ run'.saved = run.saved \ {f}
      /\ run'.landed = run.landed /\ run'.inflight = run.inflight /\ Queued' = Queued
  BY <1>1, <1>2 DEF IInv, Shapes, RunFields, Queued
<1>4. /\ DOMAIN inst' = Files /\ DOMAIN back' = Files
      /\ \A g \in Files \ {f} : inst'[g] = inst[g] /\ back'[g] = back[g]
      /\ \/ inst'[f] = inst[f] /\ back'[f] = back[f]
         \/ inst'[f] = back[f] /\ back'[f] = NoFile
  BY DEF IInv, Shapes, RestoreFile
<1>5. NoFile.c = None /\ DOMAIN NoFile = {"c", "fresh"}
  BY DEF NoFile
<1>6. Expected(f) =>
        inst[f].c # User /\ back[f].c # Stale /\ (back[f].c = User => back[f].fresh)
  BY <1>1 DEF IInv, SavedContent
<1>7. Shapes'
  BY <1>1, <1>3, <1>4, <1>5 DEF IInv, Shapes
<1>8. NoContentNoFile'
  BY <1>4 DEF IInv, NoContentNoFile
<1>9. Owners'
  BY <1>1, <1>3 DEF IInv, Owners
<1>10. Queues'
  BY <1>1, <1>3 DEF IInv, Queues
<1>11. FreshContent'
  BY <1>1, <1>4, <1>6 DEF IInv, FreshContent
<1>12. SavedContent'
  BY <1>1, <1>3, <1>4 DEF IInv, SavedContent
<1>13. CopiedBeforeReplaced'
  BY <1>1, <1>3, <1>4 DEF IInv, CopiedBeforeReplaced
<1>14. FirstCopyKept'
  BY <1>1, <1>3, <1>4, <1>5 DEF IInv, FirstCopyKept
<1>15. HiddenByOwner'
  BY <1>1, <1>3, <1>4, <1>5 DEF IInv, HiddenByOwner
<1>16. UserContentKept'
  BY <1>1, <1>4, <1>6 DEF IInv, UserContentKept, UserHas
<1> QED BY <1>7, <1>8, <1>9, <1>10, <1>11, <1>12, <1>13, <1>14, <1>15, <1>16 DEF IInv

LEMMA BackupFileKeeps ==
  ASSUME IInv, NEW f \in Files, BackupFile(f)
  PROVE  IInv'
<1>1. /\ run.pc = "backup" /\ f \in run.backup
      /\ UNCHANGED <<mark, shared, archive, call, profile>>
  BY DEF BackupFile, Keep, histVars
<1>2. CASE inst[f] = NoFile
  <2>1. UNCHANGED <<inst, back>> /\ run' = [run EXCEPT !.backup = @ \ {f}]
    BY <1>2 DEF BackupFile
  <2>2. /\ DOMAIN run' = RunFields /\ run'.pc = run.pc /\ run'.v = run.v
        /\ run'.remove = run.remove /\ run'.saved = run.saved /\ Queued' = Queued
        /\ run'.landed = run.landed /\ run'.inflight = run.inflight
        /\ run'.backup = run.backup \ {f}
    BY <1>1, <2>1 DEF IInv, Shapes, RunFields, ToRename, Queued
  <2>3. inst[f].c # User
    BY <1>2 DEF NoFile
  <2>4. Shapes' /\ NoContentNoFile' /\ FreshContent' /\ UserContentKept'
    BY <1>1, <2>1, <2>2 DEF IInv, Shapes, NoContentNoFile, FreshContent, UserContentKept, UserHas
  <2>5. Owners'
    BY <1>1, <2>2 DEF IInv, Owners
  <2>6. Queues'
    BY <1>1, <2>2 DEF IInv, Queues
  <2>7. SavedContent' /\ CopiedBeforeReplaced' /\ FirstCopyKept'
    BY <1>1, <2>1, <2>2, <2>3 DEF IInv, SavedContent, CopiedBeforeReplaced, FirstCopyKept
  <2>8. HiddenByOwner'
    BY <1>1, <2>1, <2>2 DEF IInv, HiddenByOwner
  <2> QED BY <2>4, <2>5, <2>6, <2>7, <2>8 DEF IInv
<1>3. CASE inst[f] # NoFile
  <2>1. /\ back' = [back EXCEPT ![f] = inst[f]]
        /\ inst' = [inst EXCEPT ![f] = NoFile]
        /\ run' = [run EXCEPT !.backup = @ \ {f}, !.saved = @ \cup {f}]
    BY <1>3 DEF BackupFile
  <2>2. /\ DOMAIN run' = RunFields /\ run'.pc = run.pc /\ run'.v = run.v
        /\ run'.remove = run.remove /\ run'.saved = run.saved \cup {f} /\ Queued' = Queued
        /\ run'.landed = run.landed /\ run'.inflight = run.inflight
        /\ run'.backup = run.backup \ {f}
    BY <1>1, <2>1 DEF IInv, Shapes, RunFields, ToRename, Queued
  <2>3. /\ DOMAIN inst' = Files /\ DOMAIN back' = Files
        /\ \A g \in Files \ {f} : inst'[g] = inst[g] /\ back'[g] = back[g]
        /\ inst'[f] = NoFile /\ back'[f] = inst[f]
    BY <2>1 DEF IInv, Shapes
  <2>4. NoFile.c = None /\ DOMAIN NoFile = {"c", "fresh"}
    BY DEF NoFile
  <2>5. Shapes'
    BY <1>1, <2>2, <2>3, <2>4 DEF IInv, Shapes
  <2>6. NoContentNoFile'
    BY <2>3 DEF IInv, NoContentNoFile
  <2>7. Owners'
    BY <1>1, <2>2 DEF IInv, Owners
  <2>8. Queues'
    BY <1>1, <2>2 DEF IInv, Queues
  <2>9. FreshContent'
    BY <1>1, <2>3, <2>4 DEF IInv, FreshContent
  <2>10. SavedContent'
    BY <1>1, <2>2, <2>3, <2>4 DEF IInv, SavedContent, FreshContent
  <2>11. CopiedBeforeReplaced'
    BY <1>1, <2>2, <2>3, <2>4 DEF IInv, CopiedBeforeReplaced
  <2>12. FirstCopyKept'
    BY <1>1, <2>2, <2>3, <2>4 DEF IInv, FirstCopyKept
  <2>13. HiddenByOwner'
    BY <1>1, <2>2, <2>3, <2>4 DEF IInv, HiddenByOwner
  <2>14. Kept(f) /\ back[f].c = User => inst[f].c = User
    BY <1>1, <1>3 DEF IInv, FirstCopyKept, NoContentNoFile
  <2>15. UserContentKept'
    BY <1>1, <2>3, <2>14 DEF IInv, UserContentKept, UserHas
  <2> QED BY <2>5, <2>6, <2>7, <2>8, <2>9, <2>10, <2>11, <2>12, <2>13, <2>15 DEF IInv
<1> QED BY <1>2, <1>3

-----------------------------------------------------------------------------
(* The plan and the edits. *)

LEMMA Operations ==
  ASSUME NEW f \in Files, NEW old \in OldVersions, NEW touched
  PROVE  /\ Operation(f, old, touched) \in {"add", "backup-add"} => f \in Manifest[run.v]
         /\ Operation(f, old, touched) = "remove" => f \notin Manifest[run.v]
         /\ Operation(f, old, touched) \in BackedUpOps => inst[f] # NoFile
         /\ f \in Manifest[run.v] /\ inst[f].c = run.v /\ inst[f] # NoFile =>
              Operation(f, old, touched) = "keep"
         /\ f \in Manifest[run.v] => Operation(f, old, touched) \in {"add", "backup-add", "keep"}
         /\ Operation(f, old, touched) = "keep" => inst[f].c = run.v
         /\ f \in touched /\ inst[f] # NoFile /\ inst[f].c = User =>
              Operation(f, old, touched) \in {"none", "keep", "backup-add", "backup-remove"}
BY DEF Operation, BackedUpOps, OldVersions, Obsolete, Shipped

LEMMA AfterPlan ==
  ASSUME IInv, Plan
  PROVE  \E old \in OldVersions, touched \in Touched :
    /\ ~Mismatch(old)
    /\ DOMAIN run' = RunFields /\ run'.pc = "link" /\ run'.v = run.v /\ run'.base = run.base
    /\ run'.saved = run.saved /\ run'.landed = run.landed /\ run'.inflight = run.inflight
    /\ run'.stuck = run.stuck
    /\ run'.mine = {f \in Files : inst[f].c = User /\ mark[f] = "fresh"}
    /\ ToRename' \subseteq Files
    /\ \A f \in Files :
        /\ f \in ToRename' => Operation(f, old, touched) \in {"add", "backup-add"}
        /\ Operation(f, old, touched) \in {"add", "backup-add"} =>
             f \in ToRename' \cup run'.unresolvable
        /\ f \in run'.backup <=> Operation(f, old, touched) \in BackedUpOps
        /\ f \in run'.remove <=> Operation(f, old, touched) = "remove"
<1> DEFINE Op(o, t, names) == {f \in Files : Operation(f, o, t) \in names}
<1>1. PICK old \in OldVersions, touched \in Touched,
          linked \in SUBSET Files, fetched \in SUBSET Files :
        LET todo == Op(old, touched, {"add", "backup-add"}) \ work
        IN  /\ ~Mismatch(old)
            /\ linked \subseteq todo /\ fetched \subseteq todo \ linked
            /\ run' = [run EXCEPT
                 !.pc = "link",
                 !.ready = Op(old, touched, {"add", "backup-add"}) \cap work,
                 !.link = linked, !.fetch = fetched,
                 !.unresolvable = todo \ (linked \cup fetched),
                 !.finished = (@ \ todo) \cup (Op(old, touched, {"add", "backup-add"}) \cap work),
                 !.backup = Op(old, touched, BackedUpOps),
                 !.remove = Op(old, touched, {"remove"}),
                 !.mine = {f \in Files : inst[f].c = User /\ mark[f] = "fresh"}]
  BY Zenon DEF Plan
<1>2. /\ DOMAIN run' = RunFields /\ run'.pc = "link" /\ run'.v = run.v /\ run'.base = run.base
      /\ run'.saved = run.saved /\ run'.landed = run.landed /\ run'.inflight = run.inflight
      /\ run'.stuck = run.stuck /\ run'.mine = {f \in Files : inst[f].c = User /\ mark[f] = "fresh"}
      /\ run'.backup = Op(old, touched, BackedUpOps) /\ run'.remove = Op(old, touched, {"remove"})
      /\ ToRename' \subseteq Op(old, touched, {"add", "backup-add"})
      /\ Op(old, touched, {"add", "backup-add"}) \subseteq ToRename' \cup run'.unresolvable
  <2> HIDE DEF Op
  <2>1. DOMAIN run = RunFields
    BY DEF IInv, Shapes
  <2> QED BY <1>1, <2>1 DEF RunFields, ToRename
<1>3. ~Mismatch(old)
  BY <1>1
<1> QED BY <1>2, <1>3

LEMMA PlanKeeps ==
  ASSUME IInv, Plan
  PROVE  IInv'
<1>1. /\ run.pc = "plan" /\ run.v \in Versions
      /\ UNCHANGED <<inst, back, mark, shared, archive, call, profile>>
  BY DEF IInv, Owners, Plan, Keep, histVars, diskVars
<1>2. PICK old \in OldVersions, touched \in Touched :
        /\ DOMAIN run' = RunFields /\ run'.pc = "link" /\ run'.v = run.v
        /\ run'.saved = run.saved /\ run'.landed = run.landed /\ run'.inflight = run.inflight
        /\ ToRename' \subseteq Files
        /\ \A f \in Files :
            /\ f \in ToRename' => Operation(f, old, touched) \in {"add", "backup-add"}
            /\ f \in run'.backup <=> Operation(f, old, touched) \in BackedUpOps
            /\ f \in run'.remove <=> Operation(f, old, touched) = "remove"
  BY AfterPlan
<1>3. \A f \in Files : Expected(f) /\ inst[f].c = User => f \in touched /\ inst[f] # NoFile
  BY DEF IInv, FreshContent, Touched, NoFile
<1>4. \A f \in Files : Hidden(f) => Operation(f, old, touched) = "keep"
  <2>1. ASSUME NEW f \in Files, Hidden(f)
        PROVE  f \in Manifest[run.v] /\ inst[f].c = run.v /\ inst[f] # NoFile
    BY <1>1, <2>1 DEF IInv, HiddenByOwner, NoFile
  <2> QED BY <2>1, Operations
<1>5. Shapes' /\ NoContentNoFile' /\ FreshContent' /\ UserContentKept'
  BY <1>1, <1>2 DEF IInv, Shapes, NoContentNoFile, FreshContent, UserContentKept, UserHas
<1>6. Owners'
  BY <1>1, <1>2 DEF IInv, Owners
<1>7. Queues'
  BY <1>1, <1>2, Operations DEF IInv, Queues, Queued
<1>8. SavedContent'
  BY <1>1, <1>2 DEF IInv, Queues, SavedContent
<1>9. CopiedBeforeReplaced'
  <2>1. ASSUME NEW f \in Files, Expected(f), f \in ToRename', inst[f].c = User
        PROVE  f \in run'.backup
    BY <2>1, <1>2, <1>3, Operations DEF BackedUpOps
  <2> QED BY <1>1, <1>2, <2>1 DEF CopiedBeforeReplaced, Queued
<1>10. FirstCopyKept'
  <2>1. ASSUME NEW f \in Files, Kept(f), f \in run'.backup, back[f].c = User
        PROVE  inst[f].c \in {User, None}
    BY <2>1, <1>2, <1>4 DEF BackedUpOps
  <2>2. ASSUME NEW f \in Files, Kept(f), f \in run'.remove
        PROVE  User \notin {inst[f].c, back[f].c}
    <3>1. Operation(f, old, touched) = "remove" /\ inst[f] # NoFile
      BY <2>2, <1>2, Operations DEF BackedUpOps
    <3>2. inst[f].c # User
      BY <2>2, <1>3, <3>1, Operations
    <3>3. inst[f].c # None
      BY <3>1 DEF IInv, NoContentNoFile
    <3> QED BY <2>2, <1>4, <3>1, <3>2, <3>3
  <2> QED BY <1>1, <1>2, <2>1, <2>2 DEF FirstCopyKept
<1>11. HiddenByOwner'
  BY <1>1, <1>2 DEF IInv, HiddenByOwner
<1> QED BY <1>5, <1>6, <1>7, <1>8, <1>9, <1>10, <1>11 DEF IInv

LEMMA EditKeeps ==
  ASSUME IInv, NEW f \in Files, NEW content \in {User, None}, Edit(f, content)
  PROVE  IInv'
<1>1. UNCHANGED <<run, call, profile>>
  BY DEF Edit
<1>2. /\ DOMAIN inst' = Files /\ DOMAIN back' = Files /\ DOMAIN mark' = Files
      /\ \A g \in Files \ {f} : inst'[g] = inst[g] /\ back'[g] = back[g] /\ mark'[g] = mark[g]
      /\ inst'[f] = IF content = None THEN NoFile ELSE [c |-> content, fresh |-> TRUE]
  BY DEF IInv, Shapes, Edit
<1>3. /\ DOMAIN back'[f] = {"c", "fresh"} /\ back'[f].c # User
      /\ back[f] = NoFile => back'[f] = NoFile
      /\ back'[f].c = None => back[f].c = None
  <2>1. back'[f] = [back[f] EXCEPT !.c = IF @ = User THEN Stale ELSE @]
    BY DEF IInv, Shapes, Edit
  <2>2. DOMAIN back[f] = {"c", "fresh"}
    BY DEF IInv, Shapes
  <2>3. back'[f].c = IF back[f].c = User THEN Stale ELSE back[f].c
    BY <2>1, <2>2
  <2>4. NoFile = [x \in DOMAIN NoFile |-> NoFile[x]] /\ NoFile.c = None
    BY DEF NoFile
  <2>5. back[f] = NoFile => back'[f] = NoFile
    BY <2>1, <2>4
  <2> QED BY <2>1, <2>2, <2>3, <2>5
<1>4. Expected(f)' => inst'[f].c = User /\ inst'[f].fresh /\ run.pc \notin Active \cup {"clean"}
  <2>1. mark'[f] = IF Planned THEN "racing" ELSE IF content = User THEN "fresh" ELSE "none"
    BY DEF IInv, Shapes, Edit
  <2> QED BY <2>1, <1>2 DEF Planned, Steps
<1>5. archive' = archive \ {f} /\ shared' = shared \ {f}
  BY DEF Edit
<1>6. NoFile.c = None /\ DOMAIN NoFile = {"c", "fresh"}
  BY DEF NoFile
<1>7. Shapes'
  BY <1>1, <1>2, <1>3, <1>6 DEF IInv, Shapes
<1>8. NoContentNoFile'
  BY <1>2, <1>3 DEF IInv, NoContentNoFile
<1>9. Owners' /\ Queues'
  BY <1>1 DEF IInv, Owners, Queues, Queued, ToRename
<1>10. FreshContent'
  BY <1>2, <1>4, <1>5 DEF IInv, FreshContent
<1>11. SavedContent'
  BY <1>1, <1>2, <1>4, <1>5 DEF IInv, SavedContent
<1>12. CopiedBeforeReplaced'
  BY <1>1, <1>2, <1>4, <1>5 DEF IInv, CopiedBeforeReplaced, Queued, ToRename
<1>13. FirstCopyKept'
  BY <1>1, <1>2, <1>4, <1>5 DEF IInv, FirstCopyKept
<1>14. HiddenByOwner'
  BY <1>1, <1>2, <1>3, <1>4, <1>5 DEF IInv, HiddenByOwner
<1>15. UserContentKept'
  BY <1>2, <1>4, <1>5 DEF IInv, UserContentKept, UserHas
<1> QED BY <1>7, <1>8, <1>9, <1>10, <1>11, <1>12, <1>13, <1>14, <1>15 DEF IInv

-----------------------------------------------------------------------------
(* The steps that move no file. *)

\* The run goes on to another part of the code.
LEMMA OnwardKeeps ==
  ASSUME IInv,
         \/ run.pc \in Filling /\ run'.pc \in Filling
         \/ run.pc = "backup" /\ run.backup = {} /\ run'.pc = "rename"
         \/ run.pc = "undo3" /\ run'.pc = "undo2"
         \/ run.pc = "rename" /\ run'.pc = "clean"
         \/ run.pc = "unlink" /\ run'.pc = "report",
         DOMAIN run' = RunFields, run'.v = run.v, run'.backup = run.backup,
         run'.remove = run.remove, run'.saved = run.saved, run'.landed = run.landed,
         run'.inflight = run.inflight, ToRename' = ToRename, Queued' = Queued,
         profile' \in {profile, NoProfile},
         UNCHANGED <<inst, back, mark, shared, archive, call>>
  PROVE  IInv'
<1>1. NoProfile.v = None
  BY DEF NoProfile
<1>2. Shapes' /\ NoContentNoFile' /\ FreshContent' /\ UserContentKept'
  BY DEF IInv, Shapes, NoContentNoFile, FreshContent, UserContentKept, UserHas
<1>3. Owners'
  BY <1>1 DEF IInv, Owners
<1>4. Queues'
  BY DEF IInv, Queues
<1>5. SavedContent' /\ FirstCopyKept'
  BY DEF IInv, SavedContent, FirstCopyKept
<1>6. CopiedBeforeReplaced'
  BY DEF IInv, Queues, CopiedBeforeReplaced
<1>7. HiddenByOwner'
  BY DEF IInv, HiddenByOwner
<1> QED BY <1>2, <1>3, <1>4, <1>5, <1>6, <1>7 DEF IInv

LEMMA RunStepKeeps ==
  ASSUME IInv,
         \/ UpstreamMismatch \/ Unlisted \/ LinkFiles \/ FetchFiles \/ StartBackup
         \/ BackedUp \/ RenamesUndone \/ RolledBack \/ RenamesDone \/ DropProfile
         \/ ReportUnresolved
  PROVE  IInv'
<1> USE DEF Keep, diskVars, histVars
<1>1. Shapes
  BY DEF IInv
<1>2. CASE UpstreamMismatch \/ Unlisted \/ RolledBack \/ ReportUnresolved
  <2>1. Fail \/ \E p \in {"mismatch", "done"} : End(p)
    BY <1>2 DEF UpstreamMismatch, Unlisted, RolledBack, ReportUnresolved
  <2>2. run.pc # "idle" /\ UNCHANGED <<inst, back, mark, shared, archive, call, profile>>
    BY <1>2 DEF UpstreamMismatch, Unlisted, RolledBack, ReportUnresolved
  <2> QED BY <2>1, <2>2, EndKeeps DEF Ended
<1>3. CASE LinkFiles
  <2>1. \E fetch, rest, more :
          /\ fetch \subseteq run.link
          /\ run' = [run EXCEPT !.pc = "fetch", !.finished = more,
                       !.fetch = @ \cup fetch, !.unresolvable = rest]
    BY <1>3 DEF LinkFiles
  <2> QED BY <1>1, <1>3, <2>1, OnwardKeeps DEF Shapes, RunFields, ToRename, Queued, LinkFiles
<1>4. CASE FetchFiles
  BY <1>1, <1>4, OnwardKeeps DEF Shapes, RunFields, ToRename, Queued, FetchFiles
<1>5. CASE StartBackup
  <2>1. /\ run.pc = "filled"
        /\ run' = [run EXCEPT !.pc = "backup", !.finished = {},
                     !.ready = @ \cup (run.fetch \ run.link), !.fetch = @ \cap run.link]
    BY <1>5 DEF StartBackup
  <2>2. ToRename' = ToRename /\ Queued' = Queued
    BY <1>1, <2>1 DEF Shapes, RunFields, ToRename, Queued
  <2> QED BY <1>1, <1>5, <2>1, <2>2, OnwardKeeps DEF Shapes, RunFields, StartBackup
<1>6. CASE BackedUp \/ RenamesUndone \/ RenamesDone \/ DropProfile
  <2>1. \E p : Goto(p)
    BY <1>6 DEF BackedUp, RenamesUndone, RenamesDone, DropProfile
  <2>2. PICK p : Goto(p)
    BY <2>1
  <2>3. Queued' = Queued
    BY <1>1, <1>6, <2>2, AfterGoto
       DEF BackedUp, RenamesUndone, RenamesDone, DropProfile, Queued, Goto
  <2> QED BY <1>1, <1>6, <2>2, <2>3, AfterGoto, OnwardKeeps
          DEF BackedUp, RenamesUndone, RenamesDone, DropProfile
<1> QED BY <1>2, <1>3, <1>4, <1>5, <1>6

\* The calls that wait, the mutex, the deletion and the launcher's death.
LEMMA CallStepKeeps ==
  ASSUME IInv,
         \/ \E v \in Versions : InstallInstanceFiles(v)
         \/ ResumeInstanceInstall \/ Acquire \/ Cancel \/ Release \/ UnlinkProfile
         \/ DeleteInstance \/ Remove \/ Crash
  PROVE  IInv'
<1> USE DEF IInv, Shapes, RunFields, NoContentNoFile, NoFile, Owners, Queues, FreshContent,
            SavedContent, CopiedBeforeReplaced, FirstCopyKept, HiddenByOwner, UserContentKept,
            UserHas, ToRename, Queued, NoRun, NoCall, NoProfile, diskVars, histVars
<1>1. ASSUME NEW v \in Versions, InstallInstanceFiles(v)
      PROVE  IInv'
  BY <1>1 DEF InstallInstanceFiles
<1>2. CASE ResumeInstanceInstall
  BY <1>2 DEF ResumeInstanceInstall
<1>3. CASE Acquire
  BY <1>3 DEF Acquire
<1>4. CASE Cancel
  BY <1>4 DEF Cancel
<1>5. CASE Release
  BY <1>5 DEF Release
<1>6. CASE UnlinkProfile
  BY <1>6 DEF UnlinkProfile
<1>7. CASE DeleteInstance
  BY <1>7 DEF DeleteInstance
<1>8. CASE Remove
  <2>1. /\ DOMAIN inst' = Files /\ \A f \in Files : inst'[f] \in {inst[f], NoFile}
        /\ DOMAIN back' = Files /\ \A f \in Files : back'[f] \in {back[f], NoFile}
        /\ profile' \in {profile, NoProfile}
    BY <1>8 DEF Remove, NoFiles
  <2>2. /\ run = NoRun /\ UNCHANGED <<run, call>>
        /\ mark' = [f \in Files |-> "none"]
    BY <1>8 DEF Remove
  <2> QED BY <2>1, <2>2
<1>9. CASE Crash
  BY <1>9 DEF Crash
<1> QED BY <1>1, <1>2, <1>3, <1>4, <1>5, <1>6, <1>7, <1>8, <1>9

-----------------------------------------------------------------------------
(* The theorems. *)

LEMMA IInvInit == Init => IInv
<1> SUFFICES ASSUME Init PROVE IInv
  OBVIOUS
<1>1. /\ run = NoRun /\ call = NoCall /\ profile = NoProfile
      /\ back = NoFiles
  BY DEF Init
<1>2. \E own \in SUBSET (Files \ Shipped(Installed)), late \in BOOLEAN :
        /\ inst = [f \in Files |->
                     IF f \in own THEN [c |-> User, fresh |-> late]
                     ELSE IF f \in Shipped(Installed) THEN [c |-> Installed, fresh |-> FALSE]
                     ELSE NoFile]
        /\ mark = [f \in Files |-> IF f \notin own THEN "none"
                                   ELSE IF late THEN "fresh" ELSE "old"]
  BY DEF Init
<1>3. \A f \in Shipped(Installed) : Installed \in Versions
  BY InstanceInstallAssumption DEF Shipped
<1>4. /\ DOMAIN inst = Files /\ DOMAIN mark = Files
      /\ \A f \in Files :
           /\ DOMAIN inst[f] = {"c", "fresh"}
           /\ inst[f].c = None => inst[f] = NoFile
           /\ Expected(f) => inst[f].c = User /\ inst[f].fresh
  BY <1>2, <1>3 DEF NoFile
<1>5. Shapes
  BY <1>1, <1>4 DEF Shapes, NoRun, RunFields, NoFiles, NoFile
<1>6. NoContentNoFile
  BY <1>1, <1>4 DEF NoContentNoFile, NoFiles
<1>7. Owners /\ Queues
  BY <1>1 DEF Owners, Queues, NoRun
<1>8. FreshContent /\ UserContentKept
  BY <1>4 DEF FreshContent, UserContentKept, UserHas
<1>9. SavedContent /\ CopiedBeforeReplaced /\ FirstCopyKept
  BY <1>1 DEF SavedContent, CopiedBeforeReplaced, FirstCopyKept, NoRun
<1>10. HiddenByOwner
  BY <1>4 DEF HiddenByOwner
<1> QED BY <1>5, <1>6, <1>7, <1>8, <1>9, <1>10 DEF IInv

LEMMA StutterKeeps ==
  ASSUME IInv, UNCHANGED vars
  PROVE  IInv'
BY DEF IInv, vars, diskVars, histVars, Shapes, NoContentNoFile, Owners, Queues, FreshContent,
       SavedContent, CopiedBeforeReplaced, FirstCopyKept, HiddenByOwner, UserContentKept,
       UserHas, ToRename, Queued

LEMMA IInvNext == IInv /\ [Next]_vars => IInv'
<1> SUFFICES ASSUME IInv, [Next]_vars PROVE IInv'
  OBVIOUS
<1>1. CASE UNCHANGED vars
  BY <1>1, StutterKeeps
<1>2. CASE InstallStep
  BY <1>2, AbortedKeeps, WriteProfileKeeps, PlanKeeps, FillFailsKeeps, RollbackKeeps,
     CleanUpKeeps, WriteLockKeeps, RunStepKeeps, CallStepKeeps, BackupFileKeeps,
     RenameFileKeeps, LateRenameKeeps, UndoRenameKeeps, RestoreFileKeeps DEF InstallStep
<1>3. CASE \E f \in Files, content \in {User, None} : Edit(f, content)
  BY <1>3, EditKeeps
<1> QED BY <1>1, <1>2, <1>3, CallStepKeeps DEF Next

\* What the user wrote to a path since the last install, and before the running
\* one made its plan, is in the instance or in a backup folder, through failed,
\* crashed, resumed and superseded installs, for any manifests and bounds.
THEOREM UserContentSurvives == Spec => []UserContentKept
<1>1. IInv => UserContentKept
  BY DEF IInv
<1> QED BY <1>1, IInvInit, IInvNext, PTL DEF Spec

-----------------------------------------------------------------------------
(* What is delivered. *)

\* A file of the version is queued, or it is in its place.
Placed ==
  \A f \in Files : mark[f] # "racing" /\ f \in Manifest[run.v] \ run.unresolvable =>
    /\ run.pc \in Filling => f \in ToRename \/ (inst[f].c = run.v /\ f \notin run.backup)
    /\ run.pc = "rename" /\ f \notin ToRename \ run.landed => inst[f].c = run.v
    /\ run.pc \in {"clean", "lock", "unlink", "report", "done"} => inst[f].c = run.v

LEMMA PlacedNext == IInv /\ Placed /\ [Next]_vars => Placed'
<1> SUFFICES ASSUME IInv, Placed, [Next]_vars PROVE Placed'
  OBVIOUS
<1> USE DEF Keep, diskVars, histVars
<1>1. Shapes
  BY DEF IInv
<1>2. CASE UNCHANGED vars
  BY <1>2 DEF vars, Placed, ToRename
<1>3. CASE UNCHANGED <<run, inst, mark>>
  BY <1>3 DEF Placed, ToRename
<1>4. CASE run'.pc \notin Filling \cup {"rename", "clean", "lock", "unlink", "report", "done"}
  BY <1>4 DEF Placed
<1>5. CASE Plan
  <2>1. UNCHANGED <<inst, mark>>
    BY <1>5 DEF Plan
  <2> QED BY <1>5, <2>1, AfterPlan, Operations DEF Placed, BackedUpOps
<1>6. CASE LinkFiles
  <2>1. \E finished, fetch, more :
          run.pc = "link" /\
          run' = [run EXCEPT !.pc = "fetch", !.finished = finished,
                   !.fetch = @ \cup fetch, !.unresolvable = @ \cup more]
    BY <1>6 DEF LinkFiles
  <2>2. /\ run.pc = "link" /\ run'.pc = "fetch" /\ run'.v = run.v
        /\ run.unresolvable \subseteq run'.unresolvable /\ run'.backup = run.backup
        /\ ToRename \subseteq ToRename'
    BY <1>1, <2>1 DEF Shapes, RunFields, ToRename
  <2> QED BY <1>6, <2>2 DEF LinkFiles, Placed
<1>7. CASE FetchFiles
  <2>1. /\ run.pc = "fetch" /\ run'.pc = "filled" /\ run'.v = run.v
        /\ run'.unresolvable = run.unresolvable /\ run'.backup = run.backup
        /\ ToRename' = ToRename
    BY <1>1, <1>7 DEF FetchFiles, Shapes, RunFields, ToRename
  <2> QED BY <1>7, <2>1 DEF FetchFiles, Placed
<1>8. CASE StartBackup
  <2>1. /\ run.pc = "filled" /\ run'.pc = "backup" /\ run'.v = run.v
        /\ run'.unresolvable = run.unresolvable /\ run'.backup = run.backup
        /\ ToRename' = ToRename
    BY <1>1, <1>8 DEF StartBackup, Shapes, RunFields, ToRename
  <2> QED BY <1>8, <2>1 DEF StartBackup, Placed
<1>9. CASE BackedUp
  <2>1. run.landed = {}
    BY <1>9 DEF BackedUp, IInv, Queues
  <2>2. /\ run.pc = "backup" /\ run'.pc = "rename" /\ run'.v = run.v
        /\ run'.unresolvable = run.unresolvable /\ run'.landed = {} /\ ToRename' = ToRename
    BY <1>1, <1>9, <2>1, AfterGoto DEF BackedUp
  <2> QED BY <1>9, <2>2 DEF BackedUp, Placed
<1>10. ASSUME NEW f \in Files, BackupFile(f)
       PROVE  Placed'
  <2>1. /\ run.pc = "backup" /\ run'.pc = "backup" /\ run'.v = run.v
        /\ run'.unresolvable = run.unresolvable /\ run'.backup = run.backup \ {f}
        /\ ToRename' = ToRename
    BY <1>1, <1>10 DEF BackupFile, Shapes, RunFields, ToRename
  <2>2. f \in run.backup /\ mark' = mark /\ \A g \in Files \ {f} : inst'[g] = inst[g]
    BY <1>1, <1>10 DEF BackupFile, Shapes
  <2> QED BY <2>1, <2>2 DEF Placed
<1>11. ASSUME NEW f \in Files, RenameFile(f)
       PROVE  Placed'
  <2>1. /\ run.pc = "rename" /\ run'.pc = "rename" /\ run'.v = run.v
        /\ run'.unresolvable = run.unresolvable /\ run'.landed = run.landed \cup {f}
        /\ ToRename' = ToRename
    BY <1>1, <1>11 DEF RenameFile, Shapes, RunFields, ToRename
  <2>2. mark' = mark /\ inst'[f].c = run.v /\ \A g \in Files \ {f} : inst'[g] = inst[g]
    BY <1>1, <1>11 DEF RenameFile, Land, Shapes
  <2> QED BY <2>1, <2>2 DEF Placed
<1>12. CASE RenamesDone
  <2>1. /\ run.pc = "rename" /\ run.landed = ToRename
        /\ run'.pc = "clean" /\ run'.v = run.v /\ run'.unresolvable = run.unresolvable
    BY <1>1, <1>12, AfterGoto DEF RenamesDone
  <2> QED BY <1>12, <2>1 DEF RenamesDone, Placed
<1>13. CASE CleanUp
  <2>1. \E p \in {"lock", "incomplete"} : End(p)
    BY <1>13 DEF CleanUp
  <2>2. /\ run.pc = "clean" /\ run'.pc \in {"lock", "incomplete"} /\ run'.v = run.v
        /\ run'.unresolvable = run.unresolvable
    BY <1>13, <2>1, AfterEnd DEF CleanUp
  <2> QED BY <1>13, <2>2 DEF CleanUp, Placed
<1>14. CASE WriteLock /\ Goto("unlink")
  <2>1. /\ run.pc = "lock" /\ run'.pc = "unlink" /\ run'.v = run.v
        /\ run'.unresolvable = run.unresolvable
    BY <1>1, <1>14, AfterGoto DEF WriteLock
  <2>2. \A f \in Files : inst'[f].c = inst[f].c /\ (mark'[f] # "racing" => mark[f] # "racing")
    BY <1>1, <1>14 DEF WriteLock, Shapes
  <2> QED BY <2>1, <2>2 DEF Placed
<1>15. CASE DropProfile
  <2>1. /\ run.pc = "unlink" /\ run'.pc = "report" /\ run'.v = run.v
        /\ run'.unresolvable = run.unresolvable
    BY <1>1, <1>15, AfterGoto DEF DropProfile
  <2> QED BY <1>15, <2>1 DEF DropProfile, Placed
<1>16. CASE ReportUnresolved
  <2>1. /\ run.pc = "report" /\ run'.pc = "done" /\ run'.v = run.v
        /\ run'.unresolvable = run.unresolvable
    BY <1>16, AfterEnd DEF ReportUnresolved
  <2> QED BY <1>16, <2>1 DEF ReportUnresolved, Placed
<1>17. ASSUME NEW f \in Files, NEW content \in {User, None}, Edit(f, content)
       PROVE  Placed'
  <2>1. /\ run' = run /\ \A g \in Files \ {f} : inst'[g] = inst[g] /\ mark'[g] = mark[g]
        /\ Planned => mark'[f] = "racing"
    BY <1>1, <1>17 DEF Edit, Shapes
  <2> QED BY <2>1 DEF Placed, Planned, Steps, Ended, ToRename
<1>18. CASE InstallStep
  <2>1. CASE \/ Aborted \/ UpstreamMismatch \/ Unlisted \/ FillFails \/ RolledBack
             \/ (WriteLock /\ End("incomplete")) \/ (WriteProfile /\ Fail)
    <3>1. Fail \/ \E p \in {"mismatch", "incomplete"} : End(p)
      BY <2>1 DEF Aborted, UpstreamMismatch, Unlisted, FillFails, RolledBack
    <3> QED BY <3>1, <1>4, AfterEnd, AfterFail
  <2>2. CASE RenamesUndone \/ (WriteProfile /\ Goto("plan"))
    <3>1. \E p \in {"undo2", "plan"} : Goto(p)
      BY <2>2 DEF RenamesUndone
    <3> QED BY <1>1, <3>1, <1>4, AfterGoto
  <2>3. CASE BackupFails \/ RenameFails
    <3>1. \E p \in {"undo3", "undo2"} : \E later : Rollback(p, later)
      BY <2>3 DEF BackupFails, RenameFails
    <3>2. run'.pc \in {"undo3", "undo2"}
      BY <3>1, AfterRollback
    <3> QED BY <3>2, <1>4
  <2>4. ASSUME NEW f \in Files, LateRename(f) \/ UndoRename(f) \/ RestoreFile(f)
        PROVE  Placed'
    <3>1. run'.pc \in {"undo3", "undo2"}
      BY <1>1, <2>4 DEF LateRename, UndoRename, RestoreFile, Shapes, RunFields
    <3> QED BY <3>1, <1>4
  <2>5. CASE Release
    <3>1. run'.pc = "idle"
      BY <2>5 DEF Release, NoRun
    <3> QED BY <3>1, <1>4
  <2>6. CASE WriteLock
    <3>1. Goto("unlink") \/ End("incomplete")
      BY <2>6 DEF WriteLock
    <3> QED BY <1>14, <2>1, <2>6, <3>1
  <2>7. CASE WriteProfile
    <3>1. Goto("plan") \/ Fail
      BY <2>7 DEF WriteProfile
    <3> QED BY <2>1, <2>2, <2>7, <3>1
  <2>8. CASE \E f \in Files : \/ BackupFile(f) \/ RenameFile(f) \/ LateRename(f)
                            \/ UndoRename(f) \/ RestoreFile(f)
    BY <1>10, <1>11, <2>4, <2>8
  <2> QED BY <1>5, <1>6, <1>7, <1>8, <1>9, <1>12, <1>13, <1>15, <1>16, <1>18, <2>1, <2>2,
             <2>3, <2>5, <2>6, <2>7, <2>8 DEF InstallStep
<1>19. CASE Acquire \/ Crash
  <2>1. run' = NoRun \/ run'.pc = "start"
    BY <1>19 DEF Acquire, Crash, NoRun
  <2>2. NoRun.pc = "idle"
    BY DEF NoRun
  <2> QED BY <2>1, <2>2, <1>4
<1>20. CASE Remove
  <2>1. run' = run /\ run.pc = "idle"
    BY <1>20 DEF Remove, NoRun
  <2> QED BY <2>1, <1>4
<1>21. CASE (\E v \in Versions : InstallInstanceFiles(v)) \/ ResumeInstanceInstall \/ Cancel
            \/ UnlinkProfile \/ DeleteInstance
  BY <1>3, <1>21
     DEF InstallInstanceFiles, ResumeInstanceInstall, Cancel, UnlinkProfile, DeleteInstance
<1> QED BY <1>2, <1>17, <1>18, <1>19, <1>20, <1>21 DEF Next

\* Once the lock names a version, every file of it that was resolvable and that
\* the user did not edit meanwhile has its content.
THEOREM VersionDelivered == Spec => []Delivered
<1>1. Init => Placed
  BY DEF Init, Placed, NoRun
<1>2. IInv /\ Placed => Delivered
  BY InstanceInstallAssumption DEF IInv, Owners, Placed, Delivered
<1> QED BY <1>1, <1>2, IInvInit, IInvNext, PlacedNext, PTL DEF Spec

-----------------------------------------------------------------------------
(* A run that fails. *)

\* What the user had when the plan was made is where it was, or it was moved to
\* the backup by this run, or it could not be moved back.
Untouched == {"link", "fetch", "filled"}
Restorable ==
  /\ run.pc \in {"start", "plan"} => run.mine = {}
  /\ run.pc \in Untouched => run.saved = {}
  /\ run.pc \in (Active \ {"undo2"}) \cup {"start", "plan"} => run.stuck = {}
  /\ run.pc \in Active => run.saved \cap run.backup = {}
  /\ \A f \in (run.mine \ run.stuck) \cap Files : Expected(f) =>
       /\ run.pc \in Active =>
            IF f \in run.saved THEN back[f].c = User ELSE inst[f].c = User
       /\ run.pc = "failed" => inst[f].c = User

\* One path changes; the run has the same files.
LEMMA MoveKeeps ==
  ASSUME Restorable, NEW f \in Files, run.pc \in Active, run'.pc = run.pc,
         run'.mine = run.mine, mark' = mark,
         run.stuck \subseteq run'.stuck, run.pc # "undo2" => run'.stuck = run.stuck,
         run'.saved \subseteq run.saved \cup {f},
         run.saved \subseteq run'.saved \cup {f}, run'.backup \subseteq run.backup,
         f \in run'.saved => run.pc \notin Untouched /\ f \notin run'.backup,
         \A g \in Files \ {f} : inst'[g] = inst[g] /\ back'[g] = back[g],
         f \in run.mine \ run'.stuck /\ Expected(f) =>
           IF f \in run'.saved THEN back'[f].c = User ELSE inst'[f].c = User
  PROVE  Restorable'
BY DEF Restorable, Untouched

LEMMA RestorableNext == IInv /\ Restorable /\ [Next]_vars => Restorable'
<1> SUFFICES ASSUME IInv, Restorable, [Next]_vars PROVE Restorable'
  OBVIOUS
<1> USE DEF Keep, diskVars, histVars
<1>1. Shapes
  BY DEF IInv
<1>2. CASE UNCHANGED vars
  BY <1>2 DEF vars, Restorable
<1>3. CASE UNCHANGED <<run, inst, back, mark>>
  BY <1>3 DEF Restorable
<1>4. CASE run'.pc \notin Active \cup {"start", "plan", "failed"}
  BY <1>4 DEF Restorable, Untouched
<1>5. ASSUME run'.pc \in Active, run.pc \in Active \ {"undo2"},
             run'.pc \in Untouched => run.pc \in Untouched,
             run'.backup = run.backup, run'.saved = run.saved,
             run'.mine = run.mine, run'.stuck = run.stuck, UNCHANGED <<inst, back, mark>>
      PROVE  Restorable'
  BY <1>5 DEF Restorable
<1>6. ASSUME Fail, run.pc \in {"start", "plan"} \cup Active, run.saved = {},
             UNCHANGED <<inst, back, mark>>
      PROVE  Restorable'
  <2>1. /\ run'.pc = "failed" /\ run'.mine = run.mine /\ run'.stuck = run.stuck
        /\ UNCHANGED <<inst, back, mark>>
    BY <1>6, AfterFail
  <2>2. \A f \in (run.mine \ run.stuck) \cap Files : Expected(f) => inst[f].c = User
    BY <1>6 DEF Restorable
  <2> QED BY <2>1, <2>2 DEF Restorable, Untouched
<1>7. CASE Aborted
  <2>1. \/ run.pc \in {"start", "plan", "filled"} /\ Fail
        \/ End("incomplete")
    BY <1>7 DEF Aborted
  <2>2. run.pc \in {"start", "plan", "filled"} => run.saved = {}
    BY DEF IInv, Queues, Restorable, Untouched
  <2>3. UNCHANGED <<inst, back, mark>>
    BY <1>7 DEF Aborted
  <2>4. CASE End("incomplete")
    <3>1. run'.pc = "incomplete"
      BY <2>4, AfterEnd
    <3> QED BY <3>1, <1>4 DEF Active, Filling, Moving
  <2> QED BY <2>1, <2>2, <2>3, <2>4, <1>6
<1>8. CASE FillFails
  <2>1. run.pc \in {"link", "fetch"} /\ Fail
    BY <1>8 DEF FillFails
  <2> QED BY <1>8, <2>1, <1>6 DEF FillFails, Restorable, Untouched
<1>9. CASE RolledBack
  BY <1>9, <1>6 DEF RolledBack, Undone
<1>10. CASE WriteProfile
  <2>1. run.pc = "start" /\ run.saved = {} /\ run.mine = {}
    BY <1>10 DEF WriteProfile, IInv, Queues, Restorable
  <2>2. CASE Fail /\ UNCHANGED <<inst, back, mark>>
    BY <2>1, <2>2, <1>6
  <2>3. CASE Goto("plan")
    BY <1>1, <2>1, <2>3, AfterGoto DEF Restorable, Untouched
  <2> QED BY <1>10, <2>2, <2>3 DEF WriteProfile
<1>11. CASE Plan
  <2>1. run.pc = "plan" /\ UNCHANGED <<inst, back, mark>> /\ run.saved = {} /\ run.stuck = {}
    BY <1>11 DEF Plan, IInv, Queues, Restorable
  <2>2. /\ run'.pc = "link" /\ run'.saved = {} /\ run'.stuck = {}
        /\ run'.mine = {f \in Files : inst[f].c = User /\ mark[f] = "fresh"}
    BY <1>11, <2>1, AfterPlan
  <2> QED BY <2>1, <2>2 DEF Restorable, Untouched
<1>12. CASE BackedUp \/ RenamesUndone
  <2>1. /\ run.pc \in Active \ {"undo2"} /\ UNCHANGED <<inst, back, mark>>
        /\ \E p \in {"undo2", "rename"} : Goto(p)
    BY <1>12 DEF BackedUp, RenamesUndone
  <2> QED BY <1>1, <2>1, <1>5, AfterGoto DEF Untouched
<1>13. CASE LinkFiles \/ FetchFiles \/ StartBackup
  <2>1. UNCHANGED <<inst, back, mark>>
    BY <1>13 DEF LinkFiles, FetchFiles, StartBackup
  <2>2. /\ run.pc \in Untouched /\ run'.pc \in Active
        /\ run'.backup = run.backup /\ run'.saved = run.saved
        /\ run'.mine = run.mine /\ run'.stuck = run.stuck
    BY <1>1, <1>13 DEF LinkFiles, FetchFiles, StartBackup, Shapes, RunFields, Untouched
  <2> QED BY <2>1, <2>2, <1>5 DEF Untouched
<1>14. CASE BackupFails \/ RenameFails
  <2>1. run.pc \in {"backup", "rename"} /\ UNCHANGED <<inst, back, mark>>
    BY <1>14 DEF BackupFails, RenameFails
  <2>2. \E p \in {"undo3", "undo2"} : \E later : Rollback(p, later)
    BY <1>14 DEF BackupFails, RenameFails
  <2>3. /\ run'.pc \in {"undo3", "undo2"} /\ run'.backup = {} /\ run'.saved = run.saved
        /\ run'.mine = run.mine /\ run'.stuck = {}
    BY <2>2, AfterRollback
  <2>4. run.stuck = {}
    BY <2>1 DEF Restorable
  <2> QED BY <2>1, <2>3, <2>4 DEF Restorable, Untouched
<1>15. ASSUME NEW f \in Files, BackupFile(f)
       PROVE  Restorable'
  <2>1. /\ run.pc = "backup" /\ run'.pc = "backup" /\ f \in run.backup
        /\ run'.backup = run.backup \ {f} /\ run'.mine = run.mine
        /\ run'.stuck = run.stuck /\ mark' = mark
        /\ run'.saved = IF inst[f] = NoFile THEN run.saved ELSE run.saved \cup {f}
    BY <1>1, <1>15 DEF BackupFile, Shapes, RunFields
  <2>2. /\ \A g \in Files \ {f} : inst'[g] = inst[g] /\ back'[g] = back[g]
        /\ inst[f] = NoFile \/ back'[f] = inst[f]
    BY <1>1, <1>15 DEF BackupFile, Shapes
  <2>3. f \in run.mine \ run.stuck /\ Expected(f) => f \notin run.saved /\ inst[f].c = User
    BY <2>1 DEF Restorable
  <2>4. inst[f].c = User => inst[f] # NoFile
    BY DEF NoFile
  <2> QED BY <2>1, <2>2, <2>3, <2>4, MoveKeeps DEF Untouched
<1>16. ASSUME NEW f \in Files, RenameFile(f) \/ LateRename(f) \/ UndoRename(f)
       PROVE  Restorable'
  <2>1. /\ run.pc \in Active \ (Untouched \cup {"backup"}) /\ run'.pc = run.pc
        /\ run'.backup = run.backup /\ run'.mine = run.mine
        /\ run'.stuck = run.stuck /\ run'.saved = run.saved
        /\ UNCHANGED <<back, mark>>
    BY <1>1, <1>16 DEF RenameFile, LateRename, UndoRename, Shapes, RunFields, Untouched
  <2>2. \A g \in Files \ {f} : inst'[g] = inst[g]
    BY <1>1, <1>16 DEF RenameFile, LateRename, UndoRename, Land, Shapes
  <2>3. Expected(f) => inst[f].c # User
    BY <1>16 DEF IInv, Queues, Queued, CopiedBeforeReplaced, RenameFile, LateRename, UndoRename
  <2>4. f \in run.mine \ run.stuck /\ Expected(f) => f \in run.saved /\ back[f].c = User
    BY <2>1, <2>3 DEF Restorable
  <2> QED BY <2>1, <2>2, <2>4, MoveKeeps DEF Restorable
<1>17. ASSUME NEW f \in Files, RestoreFile(f)
       PROVE  Restorable'
  <2>1. /\ run.pc = "undo2" /\ run'.pc = run.pc /\ f \in run.saved
        /\ run'.backup = run.backup /\ run'.mine = run.mine
        /\ run'.saved = run.saved \ {f} /\ run.stuck \subseteq run'.stuck /\ mark' = mark
    <3>1. \/ run' = [run EXCEPT !.saved = @ \ {f}]
          \/ run' = [run EXCEPT !.saved = @ \ {f}, !.stuck = @ \cup {f}]
      BY <1>17 DEF RestoreFile
    <3>2. run.pc = "undo2" /\ f \in run.saved /\ mark' = mark
      BY <1>17 DEF RestoreFile
    <3> QED BY <1>1, <3>1, <3>2 DEF Shapes, RunFields
  <2>2. /\ \A g \in Files \ {f} : inst'[g] = inst[g] /\ back'[g] = back[g]
        /\ inst'[f] = back[f] \/ f \in run'.stuck
    BY <1>1, <1>17 DEF RestoreFile, Shapes, RunFields
  <2>3. f \in run.mine \ run.stuck /\ Expected(f) => back[f].c = User
    BY <2>1 DEF Restorable
  <2> QED BY <2>1, <2>2, <2>3, MoveKeeps
<1>18. CASE UpstreamMismatch \/ RenamesDone \/ CleanUp \/ WriteLock \/ DropProfile
            \/ ReportUnresolved \/ Release
  <2>1. \/ \E p \in {"mismatch", "lock", "incomplete", "done"} : End(p)
        \/ \E p \in {"clean", "unlink", "report"} : Goto(p)
        \/ run' = NoRun
    BY <1>18 DEF UpstreamMismatch, RenamesDone, CleanUp, WriteLock, DropProfile,
       ReportUnresolved, Release
  <2>2. NoRun.pc = "idle"
    BY DEF NoRun
  <2> QED BY <1>1, <2>1, <2>2, <1>4, AfterEnd, AfterGoto
<1>19. CASE InstallStep
  <2>1. CASE \E f \in Files : \/ BackupFile(f) \/ RenameFile(f) \/ LateRename(f)
                            \/ UndoRename(f) \/ RestoreFile(f)
    BY <2>1, <1>15, <1>16, <1>17
  <2>2. CASE Unlisted
    BY <2>2, <1>6 DEF Unlisted, IInv, Queues
  <2> QED BY <2>2, <1>7, <1>8, <1>9, <1>10, <1>11, <1>12, <1>13, <1>14, <1>18, <1>19, <2>1
          DEF InstallStep
<1>20. CASE Acquire
  <2>1. run'.pc = "start" /\ run'.mine = {} /\ run'.stuck = {}
    BY <1>20 DEF Acquire, NoRun
  <2> QED BY <2>1 DEF Restorable, Untouched
<1>21. CASE Crash \/ Remove
  <2>1. run' = NoRun /\ NoRun.pc = "idle"
    BY <1>21 DEF Crash, Remove, NoRun
  <2> QED BY <2>1, <1>4
<1>22. ASSUME NEW f \in Files, NEW content \in {User, None}, Edit(f, content)
       PROVE  Restorable'
  <2>1. /\ run' = run
        /\ \A g \in Files \ {f} : inst'[g] = inst[g] /\ back'[g] = back[g] /\ mark'[g] = mark[g]
        /\ Planned => mark'[f] = "racing"
    BY <1>1, <1>22 DEF Edit, Shapes
  <2> QED BY <2>1 DEF Restorable, Planned, Steps, Ended
<1>23. CASE (\E v \in Versions : InstallInstanceFiles(v)) \/ ResumeInstanceInstall \/ Cancel
            \/ UnlinkProfile \/ DeleteInstance
  BY <1>3, <1>23
     DEF InstallInstanceFiles, ResumeInstanceInstall, Cancel, UnlinkProfile, DeleteInstance
<1> QED BY <1>2, <1>19, <1>20, <1>21, <1>22, <1>23 DEF Next

\* What the user had when the plan was made is a set of paths.
MineAreFiles == run.mine \subseteq Files

LEMMA MineAreFilesNext == IInv /\ MineAreFiles /\ [Next]_vars => MineAreFiles'
<1> SUFFICES ASSUME IInv, MineAreFiles, [Next]_vars PROVE MineAreFiles'
  OBVIOUS
<1> USE DEF Keep, diskVars, histVars
<1>1. Shapes
  BY DEF IInv
<1>2. NoRun.mine = {}
  BY DEF NoRun
<1>3. CASE UNCHANGED run
  BY <1>3 DEF MineAreFiles
<1>4. CASE run' = NoRun
  BY <1>2, <1>4 DEF MineAreFiles
<1>5. ASSUME NEW p, Goto(p)
      PROVE  MineAreFiles'
  BY <1>1, <1>5, AfterGoto DEF MineAreFiles
<1>6. ASSUME Fail \/ \E p : End(p)
      PROVE  MineAreFiles'
  BY <1>6, AfterFail DEF End, NoRun, MineAreFiles
<1>7. CASE Plan
  BY <1>7, AfterPlan DEF MineAreFiles
<1>8. CASE LinkFiles \/ FetchFiles \/ StartBackup \/ BackupFails \/ RenameFails
  <2>1. CASE LinkFiles \/ FetchFiles \/ StartBackup
    BY <1>1, <2>1 DEF LinkFiles, FetchFiles, StartBackup, Shapes, RunFields, MineAreFiles
  <2>2. CASE BackupFails \/ RenameFails
    <3>1. \E p \in {"undo3", "undo2"} : \E later : Rollback(p, later)
      BY <2>2 DEF BackupFails, RenameFails
    <3> QED BY <3>1, AfterRollback DEF MineAreFiles
  <2> QED BY <1>8, <2>1, <2>2
<1>9. ASSUME NEW f \in Files,
             BackupFile(f) \/ RenameFile(f) \/ LateRename(f) \/ UndoRename(f) \/ RestoreFile(f)
      PROVE  MineAreFiles'
  <2>1. CASE BackupFile(f)
    BY <1>1, <2>1 DEF BackupFile, Shapes, RunFields, MineAreFiles
  <2>2. CASE RenameFile(f) \/ LateRename(f) \/ UndoRename(f)
    BY <1>1, <2>2 DEF RenameFile, LateRename, UndoRename, Shapes, RunFields, MineAreFiles
  <2>3. CASE RestoreFile(f)
    BY <1>1, <2>3 DEF RestoreFile, Shapes, RunFields, MineAreFiles
  <2> QED BY <1>9, <2>1, <2>2, <2>3
<1>10. CASE InstallStep
  <2>1. CASE Aborted \/ WriteProfile \/ UpstreamMismatch \/ Unlisted \/ FillFails
    BY <2>1, <1>5, <1>6 DEF Aborted, WriteProfile, UpstreamMismatch, Unlisted, FillFails
  <2>2. CASE BackedUp \/ RenamesUndone \/ RolledBack \/ RenamesDone
    BY <2>2, <1>5, <1>6 DEF BackedUp, RenamesUndone, RolledBack, RenamesDone
  <2>3. CASE CleanUp \/ WriteLock \/ DropProfile \/ ReportUnresolved \/ Release
    BY <2>3, <1>4, <1>5, <1>6 DEF CleanUp, WriteLock, DropProfile, ReportUnresolved, Release
  <2> QED BY <1>7, <1>8, <1>9, <1>10, <2>1, <2>2, <2>3 DEF InstallStep
<1>11. CASE Acquire
  BY <1>11 DEF Acquire, NoRun, MineAreFiles
<1>12. CASE Crash \/ Remove
  BY <1>12, <1>3, <1>4 DEF Crash, Remove
<1> QED BY <1>3, <1>10, <1>11, <1>12
        DEF vars, Next, InstallInstanceFiles, ResumeInstanceInstall, Cancel, UnlinkProfile,
            DeleteInstance, Edit

\* An install that fails before its files are in place leaves what the user wrote
\* since the last install where it was, except what could not be renamed back.
THEOREM FailureRestores == Spec => []FailureRestoresUser
<1>1. Init => Restorable /\ MineAreFiles
  BY DEF Init, Restorable, MineAreFiles, NoRun, Untouched, Active, Filling, Moving
<1>2. Restorable /\ MineAreFiles => FailureRestoresUser
  BY DEF Restorable, MineAreFiles, FailureRestoresUser, Expected
<1> QED BY <1>1, <1>2, IInvInit, IInvNext, RestorableNext, MineAreFilesNext, PTL DEF Spec

-----------------------------------------------------------------------------
(* A deleted instance. *)

LEMMA GoneInit == Init => Gone
BY DEF Init, Gone

LEMMA GoneNext == Gone /\ [Next]_vars => Gone'
<1> SUFFICES ASSUME Gone, [Next]_vars PROVE Gone'
  OBVIOUS
<1>1. CASE UNCHANGED vars
  BY <1>1 DEF vars, diskVars, Gone
<1>2. CASE Remove
  BY <1>2 DEF Remove, NoRun, Gone
<1>3. CASE InstallStep
  <2>1. removal' = removal
    BY <1>3 DEF InstallStep, Keep, Aborted, WriteProfile, UpstreamMismatch, Unlisted, Plan, LinkFiles,
       FetchFiles, FillFails, StartBackup, BackupFails, BackedUp, RenameFails, RenamesUndone,
       RolledBack, RenamesDone, BackupFile, RenameFile, LateRename, UndoRename, RestoreFile,
       CleanUp, WriteLock, DropProfile, ReportUnresolved, Release
  <2>2. CASE removal = "done"
    <3>1. run.pc \in {"idle", "start", "failed"}
      BY <2>2 DEF Gone
    <3>2. (Aborted /\ run.pc = "start") \/ WriteProfile \/ Release
      BY <1>3, <3>1 DEF InstallStep, Aborted, WriteProfile, UpstreamMismatch, Unlisted, Plan, LinkFiles,
         FetchFiles, FillFails, StartBackup, BackupFails, BackedUp, RenameFails, RenamesUndone,
         RolledBack, RenamesDone, BackupFile, RenameFile, LateRename, UndoRename, RestoreFile,
         CleanUp, WriteLock, DropProfile, ReportUnresolved
    <3>3. UNCHANGED <<inst, profile, lock>> /\ run'.pc \in {"idle", "failed"}
      <4>1. CASE Aborted /\ run.pc = "start"
        BY <4>1, AfterFail DEF Aborted, diskVars
      <4>2. CASE WriteProfile
        BY <2>2, <4>2, AfterFail DEF WriteProfile, FolderGone
      <4>3. CASE Release
        BY <4>3 DEF Release, NoRun, diskVars
      <4> QED BY <3>2, <4>1, <4>2, <4>3
    <3> QED BY <2>1, <3>3 DEF Gone
  <2> QED BY <2>1, <2>2 DEF Gone
<1>4. CASE Crash
  BY <1>4 DEF Crash, NoRun, Gone
<1>5. CASE UnlinkProfile \/ DeleteInstance \/ Acquire \/ Cancel
  BY <1>5 DEF UnlinkProfile, DeleteInstance, Acquire, Cancel, NoRun, diskVars, Gone
<1>6. ASSUME NEW v \in Versions, InstallInstanceFiles(v)
      PROVE  Gone'
  BY <1>6 DEF InstallInstanceFiles, diskVars, Gone
<1>7. CASE ResumeInstanceInstall
  BY <1>7 DEF ResumeInstanceInstall, diskVars, Gone
<1>8. ASSUME NEW f \in Files, NEW content \in {User, None}, Edit(f, content)
      PROVE  Gone'
  BY <1>8 DEF Edit, Gone
<1> QED BY <1>1, <1>2, <1>3, <1>4, <1>5, <1>6, <1>7, <1>8 DEF Next

\* Once a deletion has removed the folder no install brings the instance back:
\* the ones that waited are rejected, and one that comes later fails before it
\* writes anything.
THEOREM StaysDeleted == Spec => []DeletedStaysGone
<1>1. Gone => DeletedStaysGone
  BY DEF Gone, DeletedStaysGone
<1> QED BY <1>1, GoneInit, GoneNext, PTL DEF Spec

-----------------------------------------------------------------------------
(* What the lock says. *)

\* Nothing was lost that tells of an install, and the instance is not deleted.
Tracked == ~abandoned /\ removal # "done"

\* A version of the upstream the lock names, which alone is installed over it.
Fits(v) == lock = None \/ SameOrigin(lock, v)

\* Content c at f is told by the lock, by the report, or by a profile whose
\* version ships f and so would be installed over it.
InScope(f, c) ==
  \/ f \in Shipped(lock) /\ c = lock
  \/ f \in unresolved
  \/ profile.v # None /\ f \in Manifest[profile.v] /\ Fits(profile.v)

Scoped ==
  /\ run.pc # "report" => \A f \in Files : inst[f].c \in Versions => InScope(f, inst[f].c)
  /\ run.pc \in Active =>
       \A f \in run.saved \cap Files : back[f].c \in Versions => InScope(f, back[f].c)

\* What the run does with f, or did: the file is in place, or told of, or it is
\* still to be replaced or to be moved away.
Handled(f) ==
  \/ f \in Manifest[run.v] /\ (inst[f].c = run.v \/ f \in run.unresolvable)
  \/ f \in unresolved \ Manifest[run.v]
  \/ f \in ToRename \ run.landed
  \/ f \in run.backup \ Manifest[run.v]

Finishing == {"lock", "unlink", "report"}
AllHandled ==
  /\ run.pc \in Filling \cup Finishing \cup {"rename", "clean"} =>
       \A f \in Files : inst[f].c \in Versions => Handled(f)
  /\ run.pc \in Finishing \cup {"rename", "clean"} => run.backup = {}
  /\ run.pc = "clean" => run.landed = ToRename
  /\ run.pc \in Finishing => ToRename = {}

\* The run that installs, its profile, and the lock it was planned from.
OnBase ==
  /\ run.pc \in Filling \cup {"plan", "rename", "clean"} => run.base = lock
  /\ run.pc \in Active \cup {"clean", "lock"} => Fits(run.v) /\ profile.v = run.v
  /\ run.pc = "plan" => ~Fits(run.v) \/ profile.v = run.v
  /\ run.pc = "unlink" => lock = run.v /\ profile.v = run.v
  /\ run.pc = "report" => lock = run.v /\ profile.v \in {None, run.v}
  /\ run.pc = "mismatch" => ~Fits(run.v)
  /\ unlinking # None => ~Fits(unlinking)

LockInv == Tracked => Scoped /\ AllHandled /\ OnBase

USE DEF Finishing

\* A run that ends early, or is given up.
LEMMA EndsEarly ==
  ASSUME Scoped, OnBase, run.pc # "report", profile'.v = profile.v,
         run'.pc \in {"failed", "incomplete"}, UNCHANGED <<lock, unresolved, inst, unlinking>>
  PROVE  Scoped' /\ AllHandled' /\ OnBase'
BY DEF Scoped, AllHandled, OnBase, InScope, Fits

\* A step that only queues.
LEMMA QueuesMore ==
  ASSUME Scoped, AllHandled, OnBase, run.pc \in Filling, run'.pc \in Filling,
         UNCHANGED <<lock, profile, unresolved, inst, back, unlinking>>,
         run'.v = run.v, run'.base = run.base, run'.landed = run.landed,
         run'.backup = run.backup, run'.saved = run.saved,
         ToRename \subseteq ToRename', run.unresolvable \subseteq run'.unresolvable
  PROVE  Scoped' /\ AllHandled' /\ OnBase'
<1>1. Scoped' /\ OnBase'
  BY DEF Scoped, OnBase, InScope, Fits
<1>2. \A f \in Files : inst[f].c \in Versions => Handled(f)'
  BY DEF AllHandled, Handled
<1>3. AllHandled'
  BY <1>2 DEF AllHandled
<1> QED BY <1>1, <1>3

LEMMA FillScoped ==
  ASSUME IInv, Scoped, AllHandled, OnBase, LinkFiles \/ FetchFiles \/ StartBackup
  PROVE  Scoped' /\ AllHandled' /\ OnBase'
<1> USE DEF Keep, diskVars, histVars
<1>1. DOMAIN run = RunFields
  BY DEF IInv, Shapes
<1>2. CASE LinkFiles
  <2>1. \E finished, fetch, more :
          run.pc = "link" /\
          run' = [run EXCEPT !.pc = "fetch", !.finished = finished,
                   !.fetch = @ \cup fetch, !.unresolvable = @ \cup more]
    BY <1>2 DEF LinkFiles
  <2>2. /\ run.pc = "link" /\ run'.pc = "fetch" /\ run'.v = run.v /\ run'.base = run.base
        /\ run.unresolvable \subseteq run'.unresolvable /\ run'.backup = run.backup
        /\ run'.landed = run.landed /\ run'.saved = run.saved /\ ToRename \subseteq ToRename'
    BY <1>1, <2>1 DEF RunFields, ToRename
  <2> QED BY <1>2, <2>2, QueuesMore DEF LinkFiles
<1>3. CASE FetchFiles
  <2>1. /\ run.pc = "fetch" /\ run'.pc = "filled" /\ run'.v = run.v /\ run'.base = run.base
        /\ run'.unresolvable = run.unresolvable /\ run'.backup = run.backup
        /\ run'.landed = run.landed /\ run'.saved = run.saved /\ ToRename' = ToRename
    BY <1>1, <1>3 DEF FetchFiles, RunFields, ToRename
  <2> QED BY <1>3, <2>1, QueuesMore DEF FetchFiles
<1>4. CASE StartBackup
  <2>1. /\ run.pc = "filled" /\ run'.pc = "backup" /\ run'.v = run.v /\ run'.base = run.base
        /\ run'.unresolvable = run.unresolvable /\ run'.backup = run.backup
        /\ run'.landed = run.landed /\ run'.saved = run.saved /\ ToRename' = ToRename
    BY <1>1, <1>4 DEF StartBackup, RunFields, ToRename
  <2> QED BY <1>4, <2>1, QueuesMore DEF StartBackup
<1> QED BY <1>2, <1>3, <1>4

\* The profile names the version, or a torn one of the same was there.
LEMMA WriteProfileScoped ==
  ASSUME IInv, Scoped, AllHandled, OnBase, WriteProfile, ~abandoned'
  PROVE  Scoped' /\ AllHandled' /\ OnBase'
<1>1. run.pc = "start" /\ run.v \in Versions
      /\ UNCHANGED <<lock, inst, unresolved, unlinking>>
  BY DEF IInv, Owners, WriteProfile, Keep
<1>2. CASE FolderGone
  BY <1>1, <1>2, AfterFail, EndsEarly DEF WriteProfile
<1>3. CASE ~FolderGone
  <2>1. profile.v \in {None, run.v} /\ run.base = lock /\ profile'.v = run.v /\ Goto("plan")
    BY <1>3 DEF WriteProfile
  <2>2. run'.pc = "plan" /\ run'.v = run.v /\ run'.base = run.base
    BY <2>1, AfterGoto DEF IInv
  <2> QED BY <1>1, <2>1, <2>2 DEF Scoped, AllHandled, OnBase, InScope, Fits
<1> QED BY <1>2, <1>3

LEMMA ObsoleteMoved ==
  ASSUME NEW f \in Files, NEW old, NEW touched, f \notin Manifest[run.v], f \in Shipped(old),
         inst[f] # NoFile
  PROVE  Operation(f, old, touched) \in BackedUpOps
BY DEF Operation, BackedUpOps, Obsolete, Shipped

\* The plan deals with all that the lock, or the profile, tells of.
LEMMA PlanScoped ==
  ASSUME IInv, Scoped, AllHandled, OnBase, Plan
  PROVE  Scoped' /\ AllHandled' /\ OnBase'
<1>1. /\ run.pc = "plan" /\ run.v \in Versions
      /\ UNCHANGED <<lock, profile, inst, back, unresolved, unlinking>>
  BY DEF IInv, Owners, Plan, Keep, diskVars
<1>2. PICK old \in OldVersions, touched \in Touched :
        /\ ~Mismatch(old)
        /\ run'.pc = "link" /\ run'.v = run.v /\ run'.base = run.base
        /\ run'.saved = run.saved /\ run'.landed = run.landed
        /\ \A f \in Files :
            /\ Operation(f, old, touched) \in {"add", "backup-add"} =>
                 f \in ToRename' \cup run'.unresolvable
            /\ f \in run'.backup <=> Operation(f, old, touched) \in BackedUpOps
  BY AfterPlan
<1>3. run.saved = {} /\ run.landed = {}
  BY <1>1 DEF IInv, Queues
<1>4. run.base = lock /\ profile.v = run.v /\ Fits(run.v)
  BY <1>1, <1>2 DEF OnBase, OldVersions, Mismatch, Fits, SameOrigin
<1>8. run.base # None => old = lock
  BY <1>2, <1>4 DEF OldVersions
<1>5. Scoped' /\ OnBase'
  BY <1>1, <1>2, <1>3, <1>4 DEF Scoped, OnBase, InScope, Fits
<1>6. ASSUME NEW f \in Files, inst[f].c \in Versions
      PROVE  Handled(f)'
  <2>1. inst[f] # NoFile
    BY <1>6 DEF NoFile
  <2>2. CASE f \in Manifest[run.v]
    <3>1. Operation(f, old, touched) \in {"add", "backup-add", "keep"}
      BY <2>2, Operations
    <3>2. Operation(f, old, touched) = "keep" => inst[f].c = run.v
      BY Operations
    <3> QED BY <1>1, <1>2, <1>3, <2>2, <3>1, <3>2 DEF Handled
  <2>3. CASE f \notin Manifest[run.v]
    <3>1. f \in Shipped(lock) \/ f \in unresolved
      BY <1>1, <1>4, <1>6, <2>3 DEF Scoped, InScope
    <3>2. CASE f \in Shipped(lock)
      <4>1. f \in Shipped(old)
        BY <1>4, <1>8, <3>2 DEF Shipped
      <4> QED BY <1>1, <1>2, <2>1, <2>3, <4>1, ObsoleteMoved DEF Handled
    <3>3. CASE f \in unresolved
      BY <1>1, <1>2, <2>3, <3>3 DEF Handled
    <3> QED BY <3>1, <3>2, <3>3
  <2> QED BY <2>2, <2>3
<1>7. AllHandled'
  BY <1>1, <1>2, <1>6 DEF AllHandled
<1> QED BY <1>5, <1>7

LEMMA BackupFileScoped ==
  ASSUME IInv, Scoped, AllHandled, OnBase, NEW f \in Files, BackupFile(f)
  PROVE  Scoped' /\ AllHandled' /\ OnBase'
<1>1. /\ run.pc = "backup" /\ run'.pc = "backup" /\ run'.v = run.v /\ run'.base = run.base
      /\ run'.unresolvable = run.unresolvable /\ run'.backup = run.backup \ {f}
      /\ run'.landed = run.landed /\ ToRename' = ToRename
      /\ run'.saved = IF inst[f] = NoFile THEN run.saved ELSE run.saved \cup {f}
  BY DEF BackupFile, IInv, Shapes, RunFields, ToRename
<1>2. /\ UNCHANGED <<lock, profile, unresolved, unlinking>>
      /\ inst'[f] = NoFile
      /\ back'[f] = IF inst[f] = NoFile THEN back[f] ELSE inst[f]
      /\ \A g \in Files \ {f} : inst'[g] = inst[g] /\ back'[g] = back[g]
  BY DEF BackupFile, IInv, Shapes, Keep
<1>3. NoFile.c = None
  BY DEF NoFile
<1>4. Scoped' /\ OnBase'
  BY <1>1, <1>2, <1>3 DEF Scoped, OnBase, InScope, Fits
<1>5. AllHandled'
  <2>1. ASSUME NEW g \in Files, inst'[g].c \in Versions
        PROVE  Handled(g)'
    BY <1>1, <1>2, <1>3, <2>1 DEF AllHandled, Handled
  <2> QED BY <1>1, <2>1 DEF AllHandled
<1> QED BY <1>4, <1>5

LEMMA BackedUpScoped ==
  ASSUME IInv, Scoped, AllHandled, OnBase, BackedUp
  PROVE  Scoped' /\ AllHandled' /\ OnBase'
<1>1. /\ run.pc = "backup" /\ run'.pc = "rename" /\ run'.v = run.v /\ run'.base = run.base
      /\ run'.unresolvable = run.unresolvable /\ run'.backup = {} /\ run.backup = {}
      /\ run'.landed = run.landed /\ ToRename' = ToRename /\ run'.saved = run.saved
      /\ UNCHANGED <<lock, profile, inst, back, unresolved, unlinking>>
  <2>1. Shapes /\ Goto("rename")
    BY DEF IInv, BackedUp
  <2> QED BY <2>1, AfterGoto DEF BackedUp, Keep, diskVars, Goto, Shapes, RunFields
<1>2. Scoped' /\ OnBase'
  BY <1>1 DEF Scoped, OnBase, InScope, Fits
<1>3. \A f \in Files : inst[f].c \in Versions => Handled(f)'
  BY <1>1 DEF AllHandled, Handled
<1> QED BY <1>1, <1>2, <1>3 DEF AllHandled

\* Files of the version take their places.
LEMMA RenameScoped ==
  ASSUME IInv, Scoped, AllHandled, OnBase, NEW f \in Files, RenameFile(f)
  PROVE  Scoped' /\ AllHandled' /\ OnBase'
<1>1. /\ run.pc = "rename" /\ run'.pc = "rename" /\ run'.v = run.v /\ run'.base = run.base
      /\ run'.unresolvable = run.unresolvable /\ run'.backup = run.backup
      /\ run'.landed = run.landed \cup {f} /\ ToRename' = ToRename /\ run'.saved = run.saved
  BY DEF RenameFile, IInv, Shapes, RunFields, ToRename
<1>2. /\ UNCHANGED <<lock, profile, back, unresolved, unlinking>>
      /\ inst'[f].c = run.v /\ \A g \in Files \ {f} : inst'[g] = inst[g]
  BY DEF RenameFile, Land, IInv, Shapes, Keep
<1>3. f \in Manifest[run.v] /\ run.v \in Versions
  BY <1>1 DEF RenameFile, IInv, Queues, Queued, Owners
<1>4. Scoped' /\ OnBase'
  BY <1>1, <1>2, <1>3 DEF Scoped, OnBase, InScope, Fits
<1>5. AllHandled'
  <2>1. ASSUME NEW g \in Files, inst'[g].c \in Versions
        PROVE  Handled(g)'
    BY <1>1, <1>2, <1>3, <2>1 DEF AllHandled, Handled
  <2> QED BY <1>1, <2>1 DEF AllHandled
<1> QED BY <1>4, <1>5

\* The steps of a rollback, which has no queue to finish.
LEMMA RollbackScoped ==
  ASSUME IInv, Scoped, AllHandled, OnBase, NEW f \in Files,
         LateRename(f) \/ UndoRename(f) \/ RestoreFile(f)
  PROVE  Scoped' /\ AllHandled' /\ OnBase'
<1>1. /\ run.pc \in {"undo3", "undo2"} /\ run'.pc = run.pc /\ run'.v = run.v /\ run'.base = run.base
      /\ run'.saved \subseteq run.saved
      /\ UNCHANGED <<lock, profile, unresolved, unlinking>>
  <2>1. CASE LateRename(f)
    <3>1. \/ run' = [run EXCEPT !.inflight = @ \ {f},
                      !.landed = IF run.pc = "undo3" THEN @ \cup {f} ELSE @]
          \/ run' = [run EXCEPT !.inflight = @ \ {f}]
      BY <2>1 DEF LateRename
    <3>2. /\ run.pc \in {"undo3", "undo2"} /\ DOMAIN run = RunFields
          /\ UNCHANGED <<lock, profile, unresolved, unlinking>>
      BY <2>1 DEF LateRename, IInv, Shapes, Keep
    <3> QED BY <3>1, <3>2 DEF RunFields
  <2>2. CASE UndoRename(f)
    BY <2>2 DEF UndoRename, IInv, Shapes, RunFields, Keep
  <2>3. CASE RestoreFile(f)
    <3>1. \/ run' = [run EXCEPT !.saved = @ \ {f}]
          \/ run' = [run EXCEPT !.saved = @ \ {f}, !.stuck = @ \cup {f}]
      BY <2>3 DEF RestoreFile
    <3>2. /\ run.pc = "undo2" /\ DOMAIN run = RunFields
          /\ UNCHANGED <<lock, profile, unresolved, unlinking>>
      BY <2>3 DEF RestoreFile, IInv, Shapes, Keep
    <3> QED BY <3>1, <3>2 DEF RunFields
  <2> QED BY <2>1, <2>2, <2>3
<1>2. \A g \in Files \ {f} : inst'[g] = inst[g] /\ back'[g] = back[g]
  BY DEF LateRename, UndoRename, RestoreFile, Land, IInv, Shapes
<1>3. \/ inst'[f].c \in {inst[f].c, None}
      \/ inst'[f].c = run.v /\ f \in Manifest[run.v]
      \/ inst'[f].c = back[f].c /\ f \in run.saved
  <2>1. CASE LateRename(f)
    <3>1. f \in Manifest[run.v]
      BY <1>1, <2>1 DEF LateRename, IInv, Queues, Queued
    <3> QED BY <2>1, <3>1 DEF LateRename, Land, IInv, Shapes
  <2>2. CASE UndoRename(f)
    BY <2>2 DEF UndoRename, NoFile, IInv, Shapes
  <2>3. CASE RestoreFile(f)
    BY <2>3 DEF RestoreFile, IInv, Shapes
  <2> QED BY <2>1, <2>2, <2>3
<1>4. back'[f].c \in {back[f].c, None}
  BY DEF LateRename, UndoRename, RestoreFile, Land, NoFile, IInv, Shapes
<1>5. run.v \in Versions /\ profile.v = run.v /\ Fits(run.v)
  BY <1>1 DEF IInv, Owners, OnBase
<1>6. OnBase' /\ AllHandled'
  BY <1>1 DEF OnBase, AllHandled, Fits
<1>7. Scoped'
  BY <1>1, <1>2, <1>3, <1>4, <1>5 DEF Scoped, InScope, Fits
<1> QED BY <1>6, <1>7

\* A rollback begins, or goes on.
LEMMA UndoScoped ==
  ASSUME IInv, Scoped, AllHandled, OnBase, BackupFails \/ RenamesUndone \/ RenameFails
  PROVE  Scoped' /\ AllHandled' /\ OnBase'
<1>1. /\ run.pc \in Active /\ run'.pc \in {"undo3", "undo2"}
      /\ run'.v = run.v /\ run'.saved = run.saved
      /\ UNCHANGED <<lock, profile, inst, back, unresolved, unlinking>>
  <2>1. CASE RenamesUndone
    BY <2>1, AfterGoto DEF RenamesUndone, IInv, Keep, diskVars
  <2>2. CASE BackupFails \/ RenameFails
    <3>1. \E p \in {"undo3", "undo2"} : \E later : Rollback(p, later)
      BY <2>2 DEF BackupFails, RenameFails
    <3>2. /\ run.pc \in {"backup", "rename"}
          /\ UNCHANGED <<lock, profile, inst, back, unresolved, unlinking>>
      BY <2>2 DEF BackupFails, RenameFails, Keep, diskVars
    <3> QED BY <3>1, <3>2, AfterRollback
  <2> QED BY <2>1, <2>2
<1> QED BY <1>1 DEF Scoped, AllHandled, OnBase, InScope, Fits

\* A run that ends without a word about its files leaves its profile.
LEMMA EndScoped ==
  ASSUME IInv, Scoped, AllHandled, OnBase,
         Aborted \/ Unlisted \/ FillFails \/ RolledBack
  PROVE  Scoped' /\ AllHandled' /\ OnBase'
<1>1. run.pc # "report" /\ UNCHANGED <<lock, inst, unresolved, unlinking>>
  BY DEF Aborted, Unlisted, FillFails, RolledBack, Keep, diskVars
<1>2. Fail \/ End("incomplete")
  BY DEF Aborted, Unlisted, FillFails, RolledBack
<1>3. run'.pc \in {"failed", "incomplete"}
  BY <1>2, AfterEnd, AfterFail
<1>4. profile'.v = profile.v
  <2>1. CASE FillFails
    BY <2>1 DEF FillFails, SaveFailure, OnBase
  <2>2. CASE Aborted \/ Unlisted \/ RolledBack
    BY <2>2 DEF Aborted, Unlisted, RolledBack
  <2> QED BY <2>1, <2>2
<1> QED BY <1>1, <1>3, <1>4, EndsEarly

LEMMA MismatchScoped ==
  ASSUME IInv, Scoped, AllHandled, OnBase, UpstreamMismatch, ~abandoned'
  PROVE  Scoped' /\ AllHandled' /\ OnBase'
<1>1. /\ run.pc = "plan" /\ run'.pc = "mismatch" /\ run'.v = run.v
      /\ UNCHANGED <<lock, profile, inst, unresolved, unlinking>>
  BY AfterEnd DEF UpstreamMismatch, Keep, diskVars
<1>2. ~Fits(run.v)
  BY DEF UpstreamMismatch, OldVersions, Mismatch, OnBase, Fits, SameOrigin
<1> QED BY <1>1, <1>2 DEF Scoped, AllHandled, OnBase, InScope, Fits

\* Every queue is done.
LEMMA DoneScoped ==
  ASSUME IInv, Scoped, AllHandled, OnBase, RenamesDone
  PROVE  Scoped' /\ AllHandled' /\ OnBase'
<1>1. /\ run.pc = "rename" /\ run'.pc = "clean" /\ run'.v = run.v /\ run'.base = run.base
      /\ run'.unresolvable = run.unresolvable /\ run'.backup = run.backup
      /\ run'.landed = run.landed /\ run.landed = ToRename /\ ToRename' = ToRename
      /\ UNCHANGED <<lock, profile, inst, unresolved, unlinking>>
  BY AfterGoto DEF RenamesDone, IInv, Keep, diskVars
<1>2. \A f \in Files : inst[f].c \in Versions => Handled(f)'
  BY <1>1 DEF AllHandled, Handled
<1> QED BY <1>1, <1>2 DEF Scoped, AllHandled, OnBase, InScope, Fits

LEMMA CleanUpScoped ==
  ASSUME IInv, Scoped, AllHandled, OnBase, CleanUp
  PROVE  Scoped' /\ AllHandled' /\ OnBase'
<1>1. run.pc = "clean" /\ UNCHANGED <<lock, profile, inst, unresolved, unlinking>>
  BY DEF CleanUp, Keep
<1>2. CASE End("incomplete")
  BY <1>1, <1>2, AfterEnd, EndsEarly
<1>3. CASE End("lock")
  <2>1. /\ run'.pc = "lock" /\ run'.v = run.v /\ run'.unresolvable = run.unresolvable
        /\ run'.backup = {} /\ ToRename' = {}
    BY <1>3, AfterEnd
  <2>2. \A f \in Files : inst[f].c \in Versions => Handled(f)'
    BY <1>1, <2>1 DEF AllHandled, Handled
  <2> QED BY <1>1, <2>1, <2>2 DEF Scoped, AllHandled, OnBase, InScope, Fits
<1> QED BY <1>2, <1>3 DEF CleanUp

\* The lock names the version whose profile is still there.
LEMMA WriteLockScoped ==
  ASSUME IInv, Scoped, AllHandled, OnBase, WriteLock
  PROVE  Scoped' /\ AllHandled' /\ OnBase'
<1>1. run.pc = "lock" /\ run.v \in Versions /\ UNCHANGED <<profile, unresolved, unlinking>>
  BY DEF WriteLock, Keep, IInv, Owners
<1>2. CASE End("incomplete") /\ UNCHANGED <<lock, inst>>
  BY <1>1, <1>2, AfterEnd, EndsEarly
<1>3. CASE /\ Goto("unlink") /\ lock' = run.v
           /\ inst' = [f \in Files |-> [inst[f] EXCEPT !.fresh = FALSE]]
  <2>1. /\ run'.pc = "unlink" /\ run'.v = run.v /\ run'.unresolvable = run.unresolvable
        /\ run'.backup = run.backup /\ run'.landed = run.landed /\ ToRename' = ToRename
    BY <1>3, AfterGoto DEF IInv
  <2>2. \A f \in Files : inst'[f].c = inst[f].c
    BY <1>3 DEF IInv, Shapes
  <2>3. run.backup = {} /\ ToRename = {} /\ Fits(run.v) /\ profile.v = run.v
    BY <1>1 DEF AllHandled, OnBase
  <2>4. \A f \in Files : inst[f].c \in Versions => Handled(f)
    BY <1>1 DEF AllHandled
  <2>5. \A f \in Files : inst'[f].c \in Versions => Handled(f)'
    BY <1>1, <2>1, <2>2, <2>4 DEF Handled
  <2>6. \A f \in Files : inst'[f].c \in Versions => InScope(f, inst[f].c)'
    BY <1>1, <1>3, <2>2, <2>3, <2>4 DEF Handled, InScope, Fits, SameOrigin, Shipped
  <2>7. Scoped' /\ AllHandled'
    <3>1. Scoped'
      BY <2>1, <2>6 DEF Scoped
    <3>2. AllHandled'
      BY <2>1, <2>3, <2>5 DEF AllHandled
    <3> QED BY <3>1, <3>2
  <2>8. unlinking # None => ~Fits(unlinking)'
    BY <1>1, <1>3, <2>3 DEF OnBase, Fits, SameOrigin
  <2>9. OnBase'
    BY <1>1, <1>3, <2>1, <2>3, <2>8 DEF OnBase
  <2> QED BY <2>7, <2>9
<1> QED BY <1>2, <1>3 DEF WriteLock

LEMMA DropProfileScoped ==
  ASSUME IInv, Scoped, AllHandled, OnBase, DropProfile
  PROVE  Scoped' /\ AllHandled' /\ OnBase'
<1>1. /\ run.pc = "unlink" /\ run'.pc = "report" /\ run'.v = run.v
      /\ run'.unresolvable = run.unresolvable /\ run'.backup = run.backup
      /\ run'.landed = run.landed /\ ToRename' = ToRename
      /\ UNCHANGED <<lock, inst, unresolved, unlinking>>
      /\ profile'.v \in {None, profile.v}
  BY AfterGoto DEF DropProfile, IInv, Keep, diskVars, NoProfile
<1>2. \A f \in Files : inst[f].c \in Versions => Handled(f)'
  BY <1>1 DEF AllHandled, Handled
<1> QED BY <1>1, <1>2 DEF Scoped, AllHandled, OnBase, Fits

\* What is neither in place nor moved away is reported.
LEMMA ReportScoped ==
  ASSUME IInv, Scoped, AllHandled, OnBase, ReportUnresolved
  PROVE  Scoped' /\ AllHandled' /\ OnBase'
<1>1. /\ run.pc = "report" /\ run.v \in Versions /\ run'.pc = "done"
      /\ UNCHANGED <<lock, profile, inst, unlinking>>
      /\ unresolved' = (unresolved \ Manifest[run.v]) \cup run.unresolvable
  BY AfterEnd DEF ReportUnresolved, Keep, IInv, Owners
<1>2. run.backup = {} /\ ToRename = {} /\ lock = run.v
  BY <1>1 DEF AllHandled, OnBase
<1>3. \A f \in Files : inst[f].c \in Versions => InScope(f, inst[f].c)'
  BY <1>1, <1>2 DEF AllHandled, Handled, InScope, Shipped
<1> QED BY <1>1, <1>3 DEF Scoped, AllHandled, OnBase, Fits

LEMMA ReleaseScoped ==
  ASSUME IInv, Scoped, AllHandled, OnBase, Release
  PROVE  Scoped' /\ AllHandled' /\ OnBase'
<1>1. /\ run.pc # "report" /\ run'.pc = "idle"
      /\ UNCHANGED <<lock, profile, inst, unresolved>>
      /\ unlinking' = IF run.pc = "mismatch" THEN run.v ELSE unlinking
  BY DEF Release, Leaves, Ended, NoRun, diskVars
<1> QED BY <1>1 DEF Scoped, AllHandled, OnBase, InScope, Fits

\* The profile of a version that does not fit the lock told of nothing.
LEMMA UnlinkScoped ==
  ASSUME IInv, Scoped, AllHandled, OnBase, UnlinkProfile, ~abandoned'
  PROVE  Scoped' /\ AllHandled' /\ OnBase'
<1>1. /\ profile'.v = None /\ unlinking' = None /\ profile.v \in {None, unlinking}
      /\ ~Fits(unlinking) /\ UNCHANGED <<lock, inst, back, unresolved, run>>
  BY DEF UnlinkProfile, OnBase, diskVars, NoProfile
<1>2. run.pc \notin Active \cup {"clean", "lock", "unlink"}
  BY <1>1 DEF OnBase, UnlinkProfile, IInv, Owners, Fits, SameOrigin
<1>3. ToRename' = ToRename
  BY <1>1 DEF ToRename
<1>4. Scoped'
  BY <1>1, <1>2 DEF Scoped, InScope, Fits
<1> QED BY <1>1, <1>2, <1>3, <1>4 DEF AllHandled, Handled, OnBase, Fits

\* What the user writes is no modpack's.
LEMMA EditScoped ==
  ASSUME IInv, Scoped, AllHandled, OnBase,
         NEW f \in Files, NEW content \in {User, None}, Edit(f, content)
  PROVE  Scoped' /\ AllHandled' /\ OnBase'
<1>1. /\ UNCHANGED <<lock, profile, unresolved, unlinking, run>> /\ ToRename' = ToRename
      /\ inst'[f].c \in {User, None} /\ back'[f].c \in {back[f].c, Stale}
      /\ \A g \in Files \ {f} : inst'[g] = inst[g] /\ back'[g] = back[g]
  BY DEF Edit, IInv, Shapes, NoFile, ToRename
<1>2. Scoped' /\ OnBase'
  BY <1>1 DEF Scoped, OnBase, InScope, Fits
<1>3. \A g \in Files : inst'[g].c \in Versions =>
        inst'[g] = inst[g] /\ (Handled(g) => Handled(g)')
  BY <1>1 DEF Handled
<1> QED BY <1>1, <1>2, <1>3 DEF AllHandled

\* The launcher dies: the profile is still there whenever the lock and the
\* report do not yet tell of all files.
LEMMA CrashScoped ==
  ASSUME IInv, Scoped, AllHandled, OnBase, Crash, ~abandoned'
  PROVE  Scoped' /\ AllHandled' /\ OnBase'
<1>1. run'.pc = "idle" /\ UNCHANGED <<inst, back>> /\ unlinking' = None
  BY DEF Crash, NoRun
<1>2. /\ profile'.v = profile.v /\ UNCHANGED unresolved
      /\ lock' = lock \/ (run.pc = "lock" /\ lock' = None)
  BY DEF Crash
<1>3. run.pc = "report" => lock = run.v /\ profile.v = run.v /\ lock' = lock
  BY <1>2 DEF Crash, OnBase, IInv, Owners
<1>4. run.pc = "lock" => profile.v = run.v
  BY DEF OnBase
<1>5. \A f \in Files : inst[f].c \in Versions =>
        InScope(f, inst[f].c)'
  <2>1. CASE run.pc \in {"lock", "report"}
    <3>1. run.v \in Versions /\ run.backup = {} /\ ToRename = {}
      BY <2>1 DEF AllHandled, IInv, Owners
    <3>2. \A f \in Files : inst[f].c \in Versions => f \in Manifest[run.v] \/ f \in unresolved
      BY <2>1, <3>1 DEF AllHandled, Handled
    <3>3. Fits(profile.v)' /\ profile'.v = run.v
      BY <1>2, <1>3, <1>4, <2>1 DEF Fits, OnBase, SameOrigin
    <3> QED BY <1>1, <1>2, <3>1, <3>2, <3>3 DEF InScope
  <2>2. CASE run.pc \notin {"lock", "report"}
    BY <1>1, <1>2, <2>2 DEF Scoped, InScope, Fits
  <2> QED BY <2>1, <2>2
<1> QED BY <1>1, <1>5 DEF Scoped, AllHandled, OnBase

LEMMA CallScoped ==
  ASSUME IInv, Scoped, AllHandled, OnBase,
         \/ \E v \in Versions : InstallInstanceFiles(v)
         \/ ResumeInstanceInstall \/ Acquire \/ Cancel \/ DeleteInstance \/ UNCHANGED vars
  PROVE  Scoped' /\ AllHandled' /\ OnBase'
<1>1. UNCHANGED <<lock, profile, inst, back, unresolved, unlinking>>
  BY DEF InstallInstanceFiles, ResumeInstanceInstall, Acquire, Cancel, DeleteInstance, vars,
     diskVars
<1>2. CASE Acquire
  <2>1. run.pc = "idle" /\ run'.pc = "start"
    BY <1>2 DEF Acquire, NoRun
  <2> QED BY <1>1, <2>1 DEF Scoped, AllHandled, OnBase, InScope, Fits
<1>3. CASE UNCHANGED run
  <2>1. ToRename' = ToRename
    BY <1>3 DEF ToRename
  <2>2. \A f \in Files : Handled(f) => Handled(f)'
    BY <1>1, <1>3, <2>1 DEF Handled
  <2> QED BY <1>1, <1>3, <2>1, <2>2 DEF Scoped, AllHandled, OnBase, InScope, Fits
<1> QED BY <1>2, <1>3 DEF InstallInstanceFiles, ResumeInstanceInstall, Cancel, DeleteInstance,
           vars, diskVars

LEMMA LockInvInit == Init => LockInv
<1> SUFFICES ASSUME Init PROVE LockInv
  OBVIOUS
<1>1. run.pc = "idle" /\ unlinking = None /\ (~abandoned => lock = Installed)
  BY DEF Init, NoRun
<1>2. \A f \in Files : inst[f].c \in Versions => f \in Shipped(Installed) /\ inst[f].c = Installed
  BY DEF Init, NoFile
<1> QED BY <1>1, <1>2 DEF LockInv, Tracked, Scoped, AllHandled, OnBase, InScope

LEMMA LockInvNext == IInv /\ LockInv /\ [Next]_vars => LockInv'
<1> SUFFICES ASSUME IInv, LockInv, [Next]_vars, Tracked'
             PROVE  Scoped' /\ AllHandled' /\ OnBase'
  BY DEF LockInv
<1>1. CASE Remove
  BY <1>1 DEF Remove, Tracked
<1>2. CASE InstallStep
  <2>1. removal' = removal
    BY <1>2 DEF InstallStep, Keep, Aborted, WriteProfile, UpstreamMismatch, Unlisted, Plan, LinkFiles,
       FetchFiles, FillFails, StartBackup, BackupFails, BackedUp, RenameFails, RenamesUndone,
       RolledBack, RenamesDone, BackupFile, RenameFile, LateRename, UndoRename, RestoreFile,
       CleanUp, WriteLock, DropProfile, ReportUnresolved, Release
  <2>2. ~abandoned
    <3>1. CASE WriteProfile \/ UpstreamMismatch
      BY <3>1 DEF WriteProfile, UpstreamMismatch, Tracked
    <3>2. CASE ~(WriteProfile \/ UpstreamMismatch)
      <4>1. UNCHANGED abandoned
        BY <1>2, <3>2 DEF InstallStep, histVars, Aborted, Unlisted, Plan, LinkFiles,
           FetchFiles, FillFails, StartBackup, BackupFails, BackedUp, RenameFails, RenamesUndone,
           RolledBack, RenamesDone, BackupFile, RenameFile, LateRename, UndoRename, RestoreFile,
           CleanUp, WriteLock, DropProfile, ReportUnresolved, Release
      <4> QED BY <4>1 DEF Tracked
    <3> QED BY <3>1, <3>2
  <2>3. Scoped /\ AllHandled /\ OnBase /\ ~abandoned'
    BY <2>1, <2>2 DEF LockInv, Tracked
  <2> QED BY <1>2, <2>3, WriteProfileScoped, PlanScoped, FillScoped, BackupFileScoped,
             BackedUpScoped, RenameScoped, RollbackScoped, UndoScoped, EndScoped,
             MismatchScoped, DoneScoped, CleanUpScoped, WriteLockScoped, DropProfileScoped,
             ReportScoped, ReleaseScoped DEF InstallStep
<1>3. CASE \E f \in Files, content \in {User, None} : Edit(f, content)
  <2>1. Tracked
    BY <1>3 DEF Edit, Tracked
  <2> QED BY <1>3, <2>1, EditScoped DEF LockInv
<1>4. CASE Crash
  <2>1. Tracked /\ ~abandoned'
    BY <1>4 DEF Crash, Tracked
  <2> QED BY <1>4, <2>1, CrashScoped DEF LockInv
<1>5. CASE UnlinkProfile
  <2>1. Tracked /\ ~abandoned'
    BY <1>5 DEF UnlinkProfile, Tracked
  <2> QED BY <1>5, <2>1, UnlinkScoped DEF LockInv
<1>6. CASE \/ \E v \in Versions : InstallInstanceFiles(v)
           \/ ResumeInstanceInstall \/ Acquire \/ Cancel \/ DeleteInstance \/ UNCHANGED vars
  <2>1. Tracked
    BY <1>6 DEF InstallInstanceFiles, ResumeInstanceInstall, Acquire, Cancel, DeleteInstance,
       vars, histVars, Tracked
  <2> QED BY <1>6, <2>1, CallScoped DEF LockInv
<1> QED BY <1>1, <1>2, <1>3, <1>4, <1>5, <1>6 DEF Next

\* With no install under way or to be resumed, what modpacks put into the
\* instance is what the lock lists, or the user is told of it, unless an install
\* was given up on the way: through failures, rollbacks, crashes and resumed runs.
THEOREM LockIsTruthful == Spec => []LockTruthful
<1>1. LockInv /\ Gone => LockTruthful
  BY DEF LockInv, Tracked, Gone, Scoped, InScope, LockTruthful, NoRun, NoProfile, NoFiles, NoFile
<1> QED BY <1>1, IInvInit, IInvNext, LockInvInit, LockInvNext, GoneInit, GoneNext, PTL DEF Spec

=============================================================================
