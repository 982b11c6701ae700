---------------------------- MODULE InstanceInstall ----------------------------
(***************************************************************************)
(* Installing a modpack version into an instance: the calls of             *)
(* InstanceInstallService (xmcl-runtime/instanceIO), the delta of          *)
(* packages/instance/files_delta.ts, the three phases of files_handler.ts, *)
(* and InstanceService.deleteInstance, which shares the instance's mutex.  *)
(* The launcher may die between any two steps, the user edits files at any *)
(* time, and a rename or a JSON file may fail to be written.               *)
(*                                                                         *)
(* A file is its content and whether its mtime is later than the mtime in  *)
(* instance-lock.json.  A version's manifest gives every file a content of *)
(* its own, named by the version, with a hash.                             *)
(***************************************************************************)
EXTENDS Naturals, FiniteSets

CONSTANTS
  Files,       \* paths in the instance
  Versions,    \* modpack versions
  Manifest,    \* the files each version ships
  Held,        \* paths that other programs may hold open
  Foreign,     \* versions of another upstream than the rest
  Installed,   \* the version that is installed at first, or None
  Locked,      \* whether the launcher that installed it wrote a lock
  MaxCalls, MaxEdits, MaxCrashes  \* bounds

None == "none"
User == "user"    \* what the user last wrote to the path
Stale == "stale"  \* what the user wrote there before that

ASSUME InstanceInstallAssumption ==
  /\ Versions \cap {None, User, Stale} = {}
  /\ Manifest \in [Versions -> SUBSET Files]
  /\ Held \subseteq Files /\ Foreign \subseteq Versions
  /\ Installed \in Versions \cup {None} /\ Locked \in BOOLEAN
  /\ MaxCalls \in Nat /\ MaxEdits \in Nat /\ MaxCrashes \in Nat

VARIABLES
  lock,        \* version in instance-lock.json
  profile,     \* .install-profile: version and finishedPath
  unresolved,  \* paths in unresolved-files.json
  inst,        \* the files of the instance
  back,        \* the files of the backup folder the profile names
  work,        \* complete files of the workspace the profile names
  run,         \* the #install that holds the instance's mutex
  call,        \* the call that waits for it
  abort,       \* task.controller of run is aborted
  removal,     \* deleteInstance: "no", "waiting" for the mutex, "done", or
               \* "kept": it is over and the folder is still there
  unlinking,   \* the version whose profile a failed call is about to unlink
  archive,     \* history: paths whose User content is in an older backup
  shared,      \* history: paths whose User content was in a backup folder when
               \* a later install was given that folder too
  mark,        \* history: what the user may expect of the path's User content
  abandoned,   \* history: the lock cannot tell what is installed: it never
               \* was written, an interrupted install lost its marker, an
               \* install was planned from a lock that was no longer there,
               \* or a deletion failed half way
  calls, edits, crashes  \* counters of the bounds

diskVars == <<inst, back, work, unresolved>>
histVars == <<archive, shared, mark, abandoned>>
countVars == <<calls, edits, crashes>>
vars == <<lock, profile, diskVars, run, call, abort, removal, unlinking,
          histVars, countVars>>

Contents == Versions \cup {None, User, Stale}
File == [c : Contents, fresh : BOOLEAN]
NoFile == [c |-> None, fresh |-> FALSE]
NoFiles == [f \in Files |-> NoFile]

Profile == [v : Versions \cup {None}, finished : SUBSET Files]
NoProfile == [v |-> None, finished |-> {}]

\* fresh: written after the lock and never planned against since; old: it
\* predates the lock; racing: written while an install was already planned.
Marks == {"none", "fresh", "old", "racing"}

\* A call as it waits: it has read the lock (and, to resume, the profile).
Call == [v : Versions, base : Versions \cup {None}, resumes : BOOLEAN,
         finished : SUBSET Files]
NoCall == [v |-> None, base |-> None, resumes |-> FALSE, finished |-> {}]

Ended == {"failed", "mismatch", "incomplete", "done"}
Steps == {"start", "plan", "link", "fetch", "filled", "backup", "rename",
          "undo3", "undo2", "clean", "lock", "unlink", "report"}
Run == [pc : Steps \cup Ended \cup {"idle"}, v : Versions \cup {None},
        base : Versions \cup {None}, resumes : BOOLEAN,
        backup : SUBSET Files, remove : SUBSET Files, link : SUBSET Files,
        fetch : SUBSET Files, ready : SUBSET Files,
        unresolvable : SUBSET Files, finished : SUBSET Files,
        saved : SUBSET Files, landed : SUBSET Files,
        inflight : SUBSET Files, stuck : SUBSET Files, mine : SUBSET Files]
NoRun == [pc |-> "idle", v |-> None, base |-> None, resumes |-> FALSE,
          backup |-> {}, remove |-> {}, link |-> {}, fetch |-> {},
          ready |-> {}, unresolvable |-> {}, finished |-> {},
          saved |-> {}, landed |-> {}, inflight |-> {}, stuck |-> {},
          mine |-> {}]

TypeOK ==
  /\ lock \in Versions \cup {None}
  /\ profile \in Profile
  /\ unresolved \subseteq Files
  /\ inst \in [Files -> File] /\ back \in [Files -> File]
  /\ work \subseteq Files
  /\ run \in Run
  /\ call \in Call \cup {NoCall}
  /\ abort \in BOOLEAN
  /\ removal \in {"no", "waiting", "done", "kept"}
  /\ unlinking \in Versions \cup {None}
  /\ archive \subseteq Files /\ shared \subseteq Files
  /\ mark \in [Files -> Marks]
  /\ abandoned \in BOOLEAN
  /\ calls \in 0..MaxCalls /\ edits \in 0..MaxEdits
  /\ crashes \in 0..MaxCrashes

Shipped(v) == IF v = None THEN {} ELSE Manifest[v]

\* Nothing is installed, or one version is; the user may keep other files in
\* the folder, and may have put them there before that version came.  An
\* instance of a former launcher version has its files and no lock.
Init ==
  /\ profile = NoProfile /\ unresolved = {}
  /\ lock = IF Locked THEN Installed ELSE None
  /\ abandoned = (lock # Installed)
  /\ \E own \in SUBSET (Files \ Shipped(Installed)), late \in BOOLEAN :
       /\ lock = None => late
       /\ inst = [f \in Files |->
                    IF f \in own THEN [c |-> User, fresh |-> late]
                    ELSE IF f \in Shipped(Installed) THEN [c |-> Installed, fresh |-> FALSE]
                    ELSE NoFile]
       /\ mark = [f \in Files |-> IF f \notin own THEN "none"
                                  ELSE IF late THEN "fresh" ELSE "old"]
  /\ back = NoFiles /\ work = {} /\ archive = {} /\ shared = {}
  /\ run = NoRun /\ call = NoCall /\ abort = FALSE
  /\ removal = "no" /\ unlinking = None
  /\ calls = 0 /\ edits = 0 /\ crashes = 0

---------------------------------------------------------------------------
(* The calls.  Both read instance-lock.json before they have the mutex.    *)

SameOrigin(v, w) == (v \in Foreign) <=> (w \in Foreign)

InstallInstanceFiles(v) ==
  /\ call = NoCall /\ calls < MaxCalls
  /\ call' = [v |-> v, base |-> lock, resumes |-> FALSE, finished |-> {}]
  /\ calls' = calls + 1
  /\ UNCHANGED <<lock, profile, diskVars, run, abort, removal, unlinking,
                 histVars, edits, crashes>>

\* The profile is offered for resumption while nothing runs.
ResumeInstanceInstall ==
  /\ call = NoCall /\ run = NoRun /\ profile # NoProfile /\ calls < MaxCalls
  /\ call' = [v |-> profile.v, base |-> lock, resumes |-> TRUE,
              finished |-> profile.finished]
  /\ calls' = calls + 1
  /\ UNCHANGED <<lock, profile, diskVars, run, abort, removal, unlinking,
                 histVars, edits, crashes>>

\* The mutex is fair: a deleteInstance that waits came before the call.
Acquire ==
  /\ run = NoRun /\ call # NoCall /\ removal # "waiting"
  /\ run' = [NoRun EXCEPT !.pc = "start", !.v = call.v, !.base = call.base,
                          !.resumes = call.resumes,
                          !.finished = call.finished]
  /\ call' = NoCall /\ abort' = FALSE
  /\ UNCHANGED <<lock, profile, diskVars, removal, unlinking, histVars,
                 countVars>>

Goto(pc) == run' = [run EXCEPT !.pc = pc]
\* The queues of the handler are forgotten with it.
End(pc) == run' = [NoRun EXCEPT !.pc = pc, !.v = run.v,
                                !.unresolvable = run.unresolvable]
Fail == run' = [NoRun EXCEPT !.pc = "failed", !.v = run.v, !.mine = run.mine,
                             !.stuck = run.stuck]
Keep == UNCHANGED <<call, abort, removal, unlinking, countVars>>

\* Before these steps end the signal is looked at again.
Abortable == Steps \ {"unlink", "report"}

\* task.controller is aborted: by the user, or by the remove handler.
Cancel ==
  /\ run.pc \in Abortable /\ ~abort
  /\ abort' = TRUE
  /\ UNCHANGED <<lock, profile, diskVars, run, call, removal, unlinking,
                 histVars, countVars>>

\* What #getDelta takes for the installed version: the lock's, or without a
\* lock the one of getLegacyLock: the upstream in the instance's own settings,
\* if its file list is cached.
OldVersions == IF run.base = None THEN Versions \cup {None} ELSE {run.base}
Mismatch(old) == old # None /\ ~SameOrigin(old, run.v)

\* throwIfAborted, at the places where the code asks.
Aborted ==
  /\ abort
  /\ \/ run.pc \in {"start", "filled"} /\ Fail
     \/ /\ run.pc = "plan" /\ \E old \in OldVersions : ~Mismatch(old)
        /\ Fail
     \/ run.pc = "lock" /\ End("incomplete")
  /\ UNCHANGED <<lock, profile, diskVars, histVars>>
  /\ Keep

---------------------------------------------------------------------------
(* The marker and the plan.                                                *)

\* mutant: the folder of a deleted instance is made again
FolderGoneNever == FALSE
FolderGone == removal = "done"

\* A call that does not resume names a workspace by the millisecond and a
\* backup folder by the second: the same one as the call before it, if both
\* were made within that second.  writeJson fails when deleteInstance has
\* removed the folder.
WriteProfile ==
  /\ run.pc = "start" /\ ~abort
  /\ IF FolderGone THEN
          /\ Fail
          /\ UNCHANGED <<profile, work, back, archive, shared, abandoned>>
     ELSE /\ Goto("plan")
          /\ profile' = [v |-> run.v, finished |-> run.finished]
          /\ abandoned' =
               (\/ abandoned
                \/ profile.v \notin {None, run.v}
                \/ run.resumes /\ profile = NoProfile
                \/ run.base # lock)
          /\ LET saved == {f \in Files : back[f].c = User}
             IN  \/ run.resumes /\ UNCHANGED <<work, back, archive, shared>>
                 \/ /\ ~run.resumes /\ work' = {} /\ back' = NoFiles
                    /\ archive' = archive \cup saved /\ UNCHANGED shared
                 \/ /\ ~run.resumes /\ work' = {} /\ UNCHANGED <<back, archive>>
                    /\ shared' = shared \cup saved
  /\ UNCHANGED <<lock, inst, unresolved, mark>>
  /\ Keep

\* InstanceUpstreamError: the caller unlinks the profile without waiting.
\* Without a lock it may have taken the place of an interrupted install's.
UpstreamMismatch ==
  /\ run.pc = "plan" /\ \E old \in OldVersions : Mismatch(old)
  /\ End("mismatch")
  /\ abandoned' = (abandoned \/ run.base = None)
  /\ UNCHANGED <<lock, profile, diskVars, archive, shared, mark>>
  /\ Keep

\* getLegacyLock throws when the instance is no longer listed.
Unlisted ==
  /\ run.pc = "plan" /\ run.base = None /\ removal = "kept"
  /\ Fail
  /\ UNCHANGED <<lock, profile, diskVars, histVars>>
  /\ Keep

\* mutant: what the version no longer ships stays
ObsoleteNever(old, f) == FALSE
Obsolete(old, f) == f \in Shipped(old)

\* mutant: a file the user changed is overwritten without a copy
BackedUpSparing == {"backup-remove", "remove"}
BackedUpOps == {"backup-add", "backup-remove", "remove"}

\* computeFileUpdates for one path.  With a lock a file was changed when it is
\* later than the lock; without one, when its content is not the one listed, or
\* nothing is listed.
Operation(f, old, touched) ==
  LET new == f \in Manifest[run.v]
      listed == Obsolete(old, f)
      same == inst[f].c = run.v
      changed == IF run.base # None THEN f \in touched
                 ELSE ~listed \/ inst[f].c # old
  IN  IF ~new /\ ~listed THEN "none"
      ELSE IF inst[f] = NoFile THEN IF new THEN "add" ELSE "none"
      ELSE IF new /\ same THEN "keep"
      ELSE IF changed THEN IF new THEN "backup-add" ELSE "backup-remove"
      ELSE IF new THEN "add" ELSE "remove"

\* A path later than the lock is later than an older base; when the base is
\* no longer the lock, other paths may be later than it too.
Touched ==
  {t \in SUBSET Files :
     /\ {f \in Files : inst[f].fresh} \subseteq t
     /\ run.base = lock => t = {f \in Files : inst[f].fresh}}

\* The delta, and #handleFile for each of its entries: ready in the
\* workspace, or linked from a cached resource, unzipped or downloaded, or
\* unresolvable.  A stale finished marker is dropped.
Plan ==
  /\ run.pc = "plan" /\ ~abort
  /\ \E old \in OldVersions, touched \in Touched,
        linked \in SUBSET Files, fetched \in SUBSET Files :
       LET Op(names) == {f \in Files : Operation(f, old, touched) \in names}
           todo == Op({"add", "backup-add"}) \ work
       IN  /\ ~Mismatch(old)
           /\ linked \subseteq todo /\ fetched \subseteq todo \ linked
           /\ run' = [run EXCEPT
                !.pc = "link",
                !.ready = Op({"add", "backup-add"}) \cap work,
                !.link = linked, !.fetch = fetched,
                !.unresolvable = todo \ (linked \cup fetched),
                !.finished = (@ \ todo) \cup
                               (Op({"add", "backup-add"}) \cap work),
                !.backup = Op(BackedUpOps),
                !.remove = Op({"remove"}),
                !.mine = {f \in Files : inst[f].c = User /\ mark[f] = "fresh"}]
  /\ UNCHANGED <<lock, profile, diskVars, histVars>>
  /\ Keep

---------------------------------------------------------------------------
(* Phase 1: fill the workspace.                                            *)

\* The failure is saved with finishedPath, unless that write fails too.
SaveFailure(finished) ==
  \/ profile' = [v |-> run.v, finished |-> finished]
  \/ UNCHANGED profile

\* linkInstanceFiles: a job marked finished is skipped; a missing source is
\* handed to unzip or download, if the manifest names one, and stays in the
\* link queue; a link that fails otherwise is not noticed.
LinkFiles ==
  /\ run.pc = "link"
  /\ \E gone \in SUBSET (run.link \ run.finished) :
     \E silent \in SUBSET (run.link \ (run.finished \cup gone)) :
     \E fetched \in SUBSET gone :
       /\ run' = [run EXCEPT
            !.pc = "fetch",
            !.finished = @ \cup (run.link \ gone),
            !.fetch = @ \cup fetched,
            !.unresolvable = @ \cup (gone \ fetched)]
       /\ work' = work \cup ((run.link \ run.finished) \ (gone \cup silent))
  /\ UNCHANGED <<lock, profile, inst, back, unresolved, histVars>>
  /\ Keep

\* Unzip and download: an entry missing from the archive is not noticed.
FetchFiles ==
  /\ run.pc = "fetch"
  /\ \E missing \in SUBSET run.fetch :
       /\ run' = [run EXCEPT !.pc = "filled",
                             !.finished = @ \cup (run.fetch \ missing)]
       /\ work' = work \cup (run.fetch \ missing)
  /\ UNCHANGED <<lock, profile, inst, back, unresolved, histVars>>
  /\ Keep

\* Some jobs of linkFiles, unzipFiles or downloadFiles fail.
FillFails ==
  /\ \/ run.pc = "link" /\ run.link # {}
     \/ run.pc = "fetch" /\ run.fetch # {}
  /\ \E claimed \in SUBSET (IF run.pc = "link" THEN run.link ELSE run.fetch) :
     \E done \in SUBSET claimed :
       /\ run.pc = "fetch" => done = claimed
       /\ work' = work \cup done
       /\ Fail
       /\ SaveFailure(run.finished \cup claimed)
  /\ UNCHANGED <<lock, inst, back, unresolved, histVars>>
  /\ Keep

---------------------------------------------------------------------------
(* Phases 2 and 3: backupAndRename.                                        *)

StartBackup ==
  /\ run.pc = "filled" /\ ~abort
  /\ run' = [run EXCEPT !.pc = "backup", !.finished = {},
                        !.ready = @ \cup (run.fetch \ run.link),
                        !.fetch = @ \cap run.link]
  /\ UNCHANGED <<lock, profile, diskVars, histVars>>
  /\ Keep

\* A path that is gone has nothing to back up.
BackupFile(f) ==
  /\ run.pc = "backup" /\ f \in run.backup
  /\ IF inst[f] = NoFile
     THEN UNCHANGED <<inst, back>> /\ run' = [run EXCEPT !.backup = @ \ {f}]
     ELSE /\ back' = [back EXCEPT ![f] = inst[f]]
          /\ inst' = [inst EXCEPT ![f] = NoFile]
          /\ run' = [run EXCEPT !.backup = @ \ {f}, !.saved = @ \cup {f}]
  /\ UNCHANGED <<lock, profile, work, unresolved, histVars>>
  /\ Keep

BackedUp ==
  /\ run.pc = "backup" /\ run.backup = {}
  /\ Goto("rename")
  /\ UNCHANGED <<lock, profile, diskVars, histVars>>
  /\ Keep

\* mutant: what an interrupted install had finished is not queued again
ToRenameNew == run.link \cup run.fetch
ToRename == run.link \cup run.fetch \cup run.ready

\* The workspace file replaces what is there.  Its mtime is the one of its
\* source when it was linked.
Land(f) ==
  /\ \E fresh \in BOOLEAN :
       /\ f \notin run.link => fresh
       /\ inst' = [inst EXCEPT ![f] = [c |-> run.v, fresh |-> fresh]]
  /\ work' = work \ {f}

\* All renames are requested at once and land in any order.
RenameFile(f) ==
  /\ run.pc = "rename" /\ f \in ToRename \ run.landed /\ f \in work
  /\ Land(f)
  /\ run' = [run EXCEPT !.landed = @ \cup {f}]
  /\ UNCHANGED <<lock, profile, back, unresolved, histVars>>
  /\ Keep

\* A rollback looks at nothing else any more.
Rollback(pc, inflight) ==
  run' = [NoRun EXCEPT !.pc = pc, !.v = run.v, !.link = run.link \cap inflight,
                       !.saved = run.saved, !.landed = run.landed,
                       !.mine = run.mine, !.inflight = inflight]

BackupFails ==
  /\ run.pc = "backup" /\ run.backup # {}
  /\ Rollback("undo2", {})
  /\ UNCHANGED <<lock, profile, diskVars, histVars>>
  /\ Keep

\* A rename fails: an error of the disk, no file in the workspace, or the
\* second rename of a path that is both in the link and the fetch queue.
RenameFails ==
  /\ run.pc = "rename"
  /\ \/ \E f \in ToRename \ run.landed :
          Rollback("undo3", ((ToRename \ run.landed) \cap work) \ {f})
     \/ /\ run.link \cap run.fetch \cap run.landed # {}
        /\ Rollback("undo3", (ToRename \ run.landed) \cap work)
  /\ UNCHANGED <<lock, profile, diskVars, histVars>>
  /\ Keep

\* The other renames go on during the rollback; one that lands while the
\* loop over phase3Finished runs is still undone by it.
LateRename(f) ==
  /\ run.pc \in {"undo3", "undo2"} /\ f \in run.inflight
  /\ \/ /\ Land(f)
        /\ run' = [run EXCEPT !.inflight = @ \ {f},
                     !.landed = IF run.pc = "undo3" THEN @ \cup {f} ELSE @]
     \/ UNCHANGED <<inst, work>> /\ run' = [run EXCEPT !.inflight = @ \ {f}]
  /\ UNCHANGED <<lock, profile, back, unresolved, histVars>>
  /\ Keep

\* Back to the workspace, with best effort.
UndoRename(f) ==
  /\ run.pc = "undo3" /\ f \in run.landed
  /\ \/ /\ inst[f] # NoFile
        /\ work' = IF inst[f].c = run.v THEN work \cup {f} ELSE work
        /\ inst' = [inst EXCEPT ![f] = NoFile]
        /\ run' = [run EXCEPT !.landed = @ \ {f}]
     \/ /\ UNCHANGED <<inst, work>>
        /\ run' = [run EXCEPT !.landed = @ \ {f}]
  /\ UNCHANGED <<lock, profile, back, unresolved, histVars>>
  /\ Keep

RenamesUndone ==
  /\ run.pc = "undo3" /\ run.landed = {}
  /\ Goto("undo2")
  /\ UNCHANGED <<lock, profile, diskVars, histVars>>
  /\ Keep

\* Back from the backup folder, with best effort.  Renames of one path take
\* effect in the order in which they were requested.
RestoreFile(f) ==
  /\ run.pc = "undo2" /\ f \in run.saved \ run.inflight
  /\ \/ /\ inst' = [inst EXCEPT ![f] = back[f]]
        /\ back' = [back EXCEPT ![f] = NoFile]
        /\ run' = [run EXCEPT !.saved = @ \ {f}]
     \/ /\ UNCHANGED <<inst, back>>
        /\ run' = [run EXCEPT !.saved = @ \ {f}, !.stuck = @ \cup {f}]
  /\ UNCHANGED <<lock, profile, work, unresolved, histVars>>
  /\ Keep

\* mutant: the second loop of the rollback is left out
UndoneRenames == run.inflight = {}
Undone == run.saved = {} /\ run.inflight = {}

RolledBack ==
  /\ run.pc = "undo2" /\ Undone
  /\ Fail
  /\ UNCHANGED <<lock, profile, diskVars, histVars>>
  /\ Keep

RenamesDone ==
  /\ run.pc = "rename" /\ run.landed = ToRename /\ run.link \cap run.fetch = {}
  /\ Goto("clean")
  /\ UNCHANGED <<lock, profile, diskVars, histVars>>
  /\ Keep

\* Unmodified files of the old version leave the backup; then the workspace
\* is removed, which may fail.
CleanUp ==
  /\ run.pc = "clean"
  /\ back' = [f \in Files |-> IF f \in run.remove THEN NoFile ELSE back[f]]
  /\ \/ End("lock") /\ work' = {}
     \/ End("incomplete") /\ UNCHANGED work
  /\ UNCHANGED <<lock, profile, inst, unresolved, histVars>>
  /\ Keep

---------------------------------------------------------------------------
(* The end of a run.                                                       *)

\* Everything on disk is now older than the lock.
WriteLock ==
  /\ run.pc = "lock" /\ ~abort
  /\ \/ /\ Goto("unlink")
        /\ lock' = run.v
        /\ inst' = [f \in Files |-> [inst[f] EXCEPT !.fresh = FALSE]]
        /\ back' = [f \in Files |-> [back[f] EXCEPT !.fresh = FALSE]]
        /\ mark' = [f \in Files |->
                      IF mark[f] = "fresh" /\ inst[f].c = User
                      THEN "old" ELSE mark[f]]
     \/ End("incomplete") /\ UNCHANGED <<lock, inst, back, mark>>
  /\ UNCHANGED <<profile, work, unresolved, archive, shared, abandoned>>
  /\ Keep

\* unlink of the profile; its failure is ignored.
DropProfile ==
  /\ run.pc = "unlink"
  /\ Goto("report")
  /\ profile' = NoProfile \/ UNCHANGED profile
  /\ UNCHANGED <<lock, diskVars, histVars>>
  /\ Keep

ReportUnresolved ==
  /\ run.pc = "report"
  /\ End("done")
  /\ unresolved' = (unresolved \ Manifest[run.v]) \cup run.unresolvable
  /\ UNCHANGED <<lock, profile, inst, back, work, histVars>>
  /\ Keep

\* mutant: a foreign upstream is thrown past the release of the mutex
LeavesUnlessForeign == run.pc \in Ended \ {"mismatch"}
Leaves == run.pc \in Ended

Release ==
  /\ Leaves
  /\ run' = NoRun /\ abort' = FALSE
  /\ unlinking' = IF run.pc = "mismatch" THEN run.v ELSE unlinking
  /\ mark' = [f \in Files |-> IF mark[f] = "racing" THEN "none" ELSE mark[f]]
  /\ UNCHANGED <<lock, profile, diskVars, call, removal, archive, shared,
                 abandoned, countVars>>

\* The unlink a failed call left behind takes the profile of whoever wrote it.
UnlinkProfile ==
  /\ unlinking # None
  /\ profile' = NoProfile /\ unlinking' = None
  /\ abandoned' = (abandoned \/ profile.v \notin {None, unlinking})
  /\ UNCHANGED <<lock, diskVars, run, call, abort, removal, archive, shared,
                 mark, countVars>>

---------------------------------------------------------------------------
(* deleteInstance, the user, and the launcher's death.                     *)

\* Waiting installs are rejected, the running one is told to abort.
DeleteInstance ==
  /\ removal = "no"
  /\ removal' = "waiting" /\ call' = NoCall
  /\ abort' = (run.pc \in Abortable)
  /\ UNCHANGED <<lock, profile, diskVars, run, unlinking, histVars, countVars>>

\* rm, or the rename of the folder to a hidden name.  What fails is swallowed
\* or thrown, and then anything may still be in the folder; of what the user
\* wanted deleted nothing more is expected.
Remove ==
  /\ removal = "waiting" /\ run = NoRun
  /\ \/ /\ removal' = "done" /\ abandoned' = FALSE
        /\ lock' = None /\ profile' = NoProfile /\ unresolved' = {}
        /\ inst' = NoFiles /\ back' = NoFiles
     \/ /\ removal' = "kept" /\ abandoned' = TRUE
        /\ \/ UNCHANGED <<lock, profile, unresolved, inst, back>>
           \/ /\ lock' \in {lock, None} /\ profile' \in {profile, NoProfile}
              /\ unresolved' = {}
              /\ \E left, copies \in SUBSET Held :
                   /\ inst' = [f \in Files |-> IF f \in left THEN inst[f] ELSE NoFile]
                   /\ back' = [f \in Files |-> IF f \in copies THEN back[f] ELSE NoFile]
  /\ archive' = {} /\ shared' = {} /\ mark' = [f \in Files |-> "none"]
  /\ UNCHANGED <<work, run, call, abort, unlinking, countVars>>

Planned == run.pc \in (Steps \cup Ended) \ {"start", "plan"}

\* The user writes or deletes a file.
Edit(f, content) ==
  /\ edits < MaxEdits /\ removal # "done" /\ inst[f].c # content
  /\ inst' = [inst EXCEPT ![f] =
                IF content = None THEN NoFile
                ELSE [c |-> content, fresh |-> TRUE]]
  /\ back' = [back EXCEPT ![f].c = IF @ = User THEN Stale ELSE @]
  /\ archive' = archive \ {f} /\ shared' = shared \ {f}
  /\ mark' = [mark EXCEPT ![f] = IF Planned THEN "racing"
                                 ELSE IF content = User THEN "fresh"
                                 ELSE "none"]
  /\ edits' = edits + 1
  /\ UNCHANGED <<lock, profile, work, unresolved, run, call, abort, removal,
                 unlinking, abandoned, calls, crashes>>

\* A JSON file that is being written is left torn, and reads as missing.
Crash ==
  /\ crashes < MaxCrashes /\ crashes' = crashes + 1
  /\ run' = NoRun /\ call' = NoCall /\ abort' = FALSE /\ unlinking' = None
  /\ removal' = IF removal = "waiting" THEN "no" ELSE removal
  /\ mark' = [f \in Files |-> IF mark[f] = "racing" THEN "none" ELSE mark[f]]
  /\ \/ UNCHANGED <<lock, profile, unresolved>>
     \/ /\ run.pc = "start" /\ removal # "done"
        /\ profile' = NoProfile /\ UNCHANGED <<lock, unresolved>>
     \/ run.pc = "lock" /\ lock' = None /\ UNCHANGED <<profile, unresolved>>
  /\ abandoned' = (\/ abandoned
                   \/ profile' = NoProfile /\ profile # NoProfile
                   \/ run.pc = "report" /\ profile = NoProfile)
  /\ UNCHANGED <<inst, back, work, archive, shared, calls, edits>>

InstallStep ==
  \/ Aborted \/ WriteProfile \/ UpstreamMismatch \/ Unlisted \/ Plan
  \/ LinkFiles \/ FetchFiles \/ FillFails
  \/ StartBackup \/ BackupFails \/ BackedUp \/ RenameFails \/ RenamesUndone
  \/ RolledBack \/ RenamesDone
  \/ \E f \in Files : \/ BackupFile(f) \/ RenameFile(f) \/ LateRename(f)
                      \/ UndoRename(f) \/ RestoreFile(f)
  \/ CleanUp \/ WriteLock \/ DropProfile \/ ReportUnresolved \/ Release

Next ==
  \/ \E v \in Versions : InstallInstanceFiles(v)
  \/ ResumeInstanceInstall \/ Acquire \/ Cancel
  \/ InstallStep \/ UnlinkProfile
  \/ DeleteInstance \/ Remove
  \/ \E f \in Files, content \in {User, None} : Edit(f, content)
  \/ Crash

Spec == Init /\ [][Next]_vars
\* Whatever the process has begun goes on; nobody has to call or to edit.
FairSpec == Spec /\ WF_vars(InstallStep) /\ WF_vars(Acquire) /\ WF_vars(Remove)

---------------------------------------------------------------------------
(* Properties.                                                             *)

UserHas(f) == User \in {inst[f].c, back[f].c} \/ f \in archive

\* What the user wrote to a path since the last install (and before the
\* running one made its plan) is in the instance or in a backup folder,
\* through failures, crashes, resumed and superseded installs.  The only way to
\* lose it is a later install that is given the backup folder it lies in.
UserContentKept ==
  \A f \in Files : mark[f] = "fresh" => UserHas(f) \/ f \in shared

\* The same without the exception.  It fails: a backup folder is named by the
\* second (README, section 5).
UserContentSafe == \A f \in Files : mark[f] = "fresh" => UserHas(f)

\* The same for what the user wrote before the last install.
UserFilesSurvive == \A f \in Files : mark[f] \in {"fresh", "old"} => UserHas(f)

\* An install that fails before its files are in place leaves the user's
\* files where they were, except those whose rename back failed.
FailureRestoresUser ==
  run.pc = "failed" =>
    \A f \in run.mine \ run.stuck : mark[f] = "fresh" => inst[f].c = User

\* Once the lock names a version, every file of it that was resolvable has
\* its content, linked, fetched, resumed or kept.
Delivered ==
  run.pc \in {"unlink", "report", "done"} =>
    \A f \in Manifest[run.v] \ run.unresolvable :
      mark[f] # "racing" => inst[f].c = run.v

\* With no install under way or to be resumed, what modpacks put into the
\* instance is what the lock lists, or the user is told of it.
LockTruthful ==
  run = NoRun /\ profile = NoProfile /\ ~abandoned =>
    \A f \in Files : inst[f].c \in Versions =>
      (f \in Shipped(lock) /\ inst[f].c = lock) \/ f \in unresolved

\* An install never brings an instance back whose folder is gone: a call that
\* waited for the deletion ends at its first write.
DeletedStaysGone ==
  removal = "done" => inst = NoFiles /\ profile = NoProfile /\ lock = None

\* After a deletion no install gets past its first write.  It fails when the
\* folder could not be removed (README, section 5).
NoInstallAfterDelete ==
  removal \in {"done", "kept"} => run.pc \notin Steps \ {"start"}

\* Every call and every deletion that waits for the mutex gets its turn: calls
\* and deletions are bounded, so in the end nobody waits.
EveryoneServed == <>[](call = NoCall /\ removal # "waiting")

=============================================================================
