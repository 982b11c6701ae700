----------------------------- MODULE UserAccounts -----------------------------
(***************************************************************************)
(* The accounts of the launcher and how they survive it: UserService keeps *)
(* them in memory (xmcl-runtime/user/UserService.ts), saves them after a   *)
(* debounce through a queue of persist() calls, and UserPersistence        *)
(* (UserPersistence.ts) writes user.json, user.json.backup and the marker  *)
(* user.json.meta one after the other.  The launcher may die between any   *)
(* two of these writes, a write may fail, and user.json may be damaged     *)
(* from outside.                                                           *)
(*                                                                         *)
(* A file is the set of accounts in it, and whether the launcher wrote it.  *)
(* Profiles are left out: a refresh changes no set but triggers a save.     *)
(***************************************************************************)
EXTENDS Naturals, Sequences, FiniteSets

CONSTANTS
  Accounts,      \* account ids
  Nameless,      \* accounts without a username, removed at startup
  Unknown,       \* accounts saved with no authority the launcher knows
  Imported,      \* accounts that Minecraft's launcher_profiles.json may hold
  FaultKinds,    \* which file operations may fail, a subset of FaultKind
  MaxFaults, MaxDamages, MaxLogins, MaxStarts, MaxQueue  \* bounds

FaultKind == {"read", "write"}

ASSUME UserAccountsAssumption ==
  /\ Nameless \subseteq Accounts
  /\ IsFiniteSet(Accounts)
  /\ Unknown \subseteq Accounts
  /\ Imported \subseteq Accounts \ Unknown
  /\ FaultKinds \subseteq FaultKind
  /\ MaxFaults \in Nat /\ MaxDamages \in Nat /\ MaxLogins \in Nat
  /\ MaxStarts \in Nat /\ MaxQueue \in Nat

VARIABLES
  app,            \* "down", "loading", "running" or "quitting"
  users,          \* UserState.users
  explicitEmpty,  \* explicitEmptyUserPersistence
  timer,          \* the debounced save is armed
  queue,          \* persistenceQueue: snapshots, the first in persist()
  step,           \* where that persist() is
  seen,           \* what it read in user.json
  refreshing,     \* accounts whose refresh is in flight
  uploading,      \* the account of the skin upload in flight
  primary, backup, meta,  \* user.json, user.json.backup, user.json.meta
  byUser,         \* history: removeUser took the last account from memory
  early,          \* history: it did before the accounts were loaded
  emptied,        \* history: the store was deliberately emptied
  faults, damages, logins, starts  \* counters of the bounds

memoryVars == <<users, explicitEmpty, timer, byUser, early>>
callVars == <<refreshing, uploading>>
queueVars == <<queue, step, seen>>
fileVars == <<primary, backup, meta, emptied>>
counterVars == <<faults, damages, logins, starts>>
vars == <<app, memoryVars, callVars, queueVars, fileVars, counterVars>>

Files == [kind : {"own", "foreign", "malformed"}, accounts : SUBSET Accounts]
File(s) == [kind |-> "own", accounts |-> s]

\* Missing, unreadable or unparsable; valid but not written by the launcher.
Malformed == [kind |-> "malformed", accounts |-> {}]
ForeignEmpty == [kind |-> "foreign", accounts |-> {}]

Jobs == [users : SUBSET Accounts, intent : {"automatic", "explicit-empty"}, byUser : BOOLEAN]

TypeOK ==
  /\ app \in {"down", "loading", "running", "quitting"}
  /\ users \in SUBSET Accounts
  /\ explicitEmpty \in BOOLEAN /\ timer \in BOOLEAN
  /\ emptied \in BOOLEAN /\ early \in BOOLEAN
  /\ queue \in Seq(Jobs)
  /\ step \in {"idle", "backup", "marker", "primary", "meta"}
  /\ seen \in Files /\ primary \in Files /\ backup \in Files
  /\ meta \in {"unknown", "intentional", "not-empty"}
  /\ refreshing \in SUBSET Accounts /\ uploading \in SUBSET Accounts
  /\ byUser \in BOOLEAN
  /\ faults \in Nat /\ damages \in Nat /\ logins \in Nat /\ starts \in Nat

HasAccounts(file) == file.accounts # {}

\* load(), for the contents it found: the backup stands in for a primary that
\* is malformed or that was emptied without the marker.  The marker's hash is
\* that of the file the launcher writes when it empties it.
FromBackup(file, copy, mark) ==
  /\ ~HasAccounts(file)
  /\ ~(file = File({}) /\ mark = "intentional")
  /\ mark # "intentional" /\ HasAccounts(copy)

LoadedFrom(file, copy, mark) ==
  IF HasAccounts(file) THEN file.accounts
  ELSE IF FromBackup(file, copy, mark) THEN copy.accounts ELSE {}

\* What a load finds that can read the three files.
LoadedUsers == LoadedFrom(primary, backup, meta)

Init ==
  /\ app = "down"
  /\ users = {} /\ explicitEmpty = FALSE /\ timer = FALSE
  /\ byUser = FALSE /\ emptied = FALSE /\ early = FALSE
  /\ queue = <<>> /\ step = "idle" /\ seen = Malformed
  /\ refreshing = {} /\ uploading = {}
  /\ primary \in {Malformed, ForeignEmpty} \cup {File(s) : s \in (SUBSET Accounts) \ {{}}}
  /\ backup = Malformed /\ meta = "unknown"
  /\ faults = 0 /\ damages = 0 /\ logins = 0 /\ starts = 0

-----------------------------------------------------------------------------
(* UserService. *)

\* What subscribeAll does after a mutation of the state.
Mutate(next) ==
  /\ users' = next
  /\ IF app = "loading"
     THEN UNCHANGED timer
     ELSE timer' = TRUE

ResetFlag(next, flag) == IF app # "loading" /\ next # {} THEN FALSE ELSE flag

Start ==
  /\ app = "down" /\ starts < MaxStarts
  /\ app' = "loading" /\ starts' = starts + 1
  /\ UNCHANGED <<memoryVars, callVars, queueVars, fileVars, faults, damages, logins>>

\* Reads of one call fail together, as one fault: readCandidate and
\* readMetadata take an error for a missing or malformed file.
Reads(lost) ==
  IF lost = {}
  THEN UNCHANGED faults
  ELSE "read" \in FaultKinds /\ faults < MaxFaults /\ faults' = faults + 1

\* preprocessUserData: accounts of the Minecraft launcher join, as many as can
\* be read, and those migrateUserProfile cannot place are dropped.
Preprocessed(loaded, extra) == (loaded \ Unknown) \cup extra

\* The initializer: load, then the cleanup of accounts without a username and
\* a refresh of the others.  Nothing saves before it is done, and whatever calls
\* brought into memory until then is replaced.
Load ==
  /\ app = "loading" /\ app' = "running"
  /\ \E lost \in SUBSET {"primary", "backup", "meta"}, extra \in SUBSET Imported :
       LET loaded == Preprocessed(LoadedFrom(IF "primary" \in lost THEN Malformed ELSE primary,
                                             IF "backup" \in lost THEN Malformed ELSE backup,
                                             IF "meta" \in lost THEN "unknown" ELSE meta), extra)
           kept == loaded \ Nameless
           cleaned == loaded \cap Nameless # {}
       IN  /\ Reads(lost)
           /\ users' = kept
           /\ timer' = cleaned
           \* A removal that leaves an account, be it one to remove next, resets it.
           /\ explicitEmpty' = (explicitEmpty /\ (cleaned => \E a \in loaded : loaded = {a}))
           /\ byUser' = FALSE
           /\ refreshing' = refreshing \cup kept
  /\ UNCHANGED <<early, uploading, queueVars, fileVars, damages, logins, starts>>

\* Calls do not wait for initialize(): the instance is registered before.
Up == app # "down"

\* login() when its account system has answered, with a username; a profile
\* selected for an account that is gone does the same.
Login(a) ==
  /\ Up /\ a \notin Nameless \cup Unknown /\ logins < MaxLogins
  /\ logins' = logins + 1
  /\ Mutate(users \cup {a})
  /\ explicitEmpty' = ResetFlag(users \cup {a}, explicitEmpty)
  /\ byUser' = FALSE
  /\ UNCHANGED <<app, early, callVars, queueVars, fileVars, faults, damages, starts>>

\* mutant: any removal counts as the removal of the last account
TakesLastAlways(a) == users \subseteq {a}
TakesLast(a) == users = {a}

RemoveUser(a) ==
  /\ Up
  /\ Mutate(users \ {a})
  /\ explicitEmpty' = ResetFlag(users \ {a}, TakesLast(a) \/ explicitEmpty)
  /\ byUser' = (byUser \/ users = {a})
  /\ early' = (early \/ (app = "loading" /\ users = {a}))
  /\ UNCHANGED <<app, callVars, queueVars, fileVars, counterVars>>

\* refreshUser, one at a time for an account.
RefreshUser(a) ==
  /\ Up /\ a \in users
  /\ refreshing' = refreshing \cup {a}
  /\ UNCHANGED <<app, memoryVars, uploading, queueVars, fileVars, counterVars>>

\* "Only update the user if the user is still in the state".
RefreshDone(a) ==
  /\ Up /\ a \in refreshing
  /\ refreshing' = refreshing \ {a}
  /\ IF a \in users
     THEN Mutate(users) /\ explicitEmpty' = ResetFlag(users, explicitEmpty)
     ELSE UNCHANGED <<users, timer, explicitEmpty>>
  /\ UNCHANGED <<app, uploading, byUser, early, queueVars, fileVars, counterVars>>

\* uploadSkin, one at a time.
UploadSkin(a) ==
  /\ Up /\ uploading = {} /\ a \in users
  /\ uploading' = {a}
  /\ UNCHANGED <<app, memoryVars, refreshing, queueVars, fileVars, counterVars>>

SkinUploaded(a) ==
  /\ Up /\ a \in uploading
  /\ uploading' = {}
  /\ Mutate(users \cup {a})
  /\ explicitEmpty' = ResetFlag(users \cup {a}, explicitEmpty)
  /\ byUser' = FALSE
  /\ UNCHANGED <<app, early, refreshing, queueVars, fileVars, counterVars>>

SkinRefused ==
  /\ Up /\ uploading # {}
  /\ uploading' = {}
  /\ UNCHANGED <<app, memoryVars, refreshing, queueVars, fileVars, counterVars>>

\* The debounced save: a snapshot and its intent join the queue.
Snapshot ==
  [users |-> users,
   intent |-> IF users = {} /\ explicitEmpty THEN "explicit-empty" ELSE "automatic",
   byUser |-> users = {} /\ explicitEmpty /\ byUser]

\* mutant: a save is skipped while another one runs
EnqueueIfIdle(job) == IF queue = <<>> THEN <<job>> ELSE queue
Enqueue(job) == Append(queue, job)

SaveUserFile ==
  /\ timer /\ app \in {"running", "quitting"} /\ Len(queue) < MaxQueue
  /\ timer' = FALSE
  /\ queue' = Enqueue(Snapshot)
  /\ UNCHANGED <<app, users, explicitEmpty, byUser, early, callVars, step, seen, fileVars, counterVars>>

\* The disposer flushes the debounce and waits for the queue.
Quit ==
  /\ app = "running" /\ app' = "quitting"
  /\ timer' = FALSE
  /\ queue' = IF timer THEN Enqueue(Snapshot) ELSE queue
  /\ UNCHANGED <<users, explicitEmpty, byUser, early, callVars, step, seen, fileVars, counterVars>>

Die ==
  /\ app' = "down"
  /\ users' = {} /\ explicitEmpty' = FALSE /\ timer' = FALSE
  /\ byUser' = FALSE /\ early' = FALSE
  /\ queue' = <<>> /\ step' = "idle" /\ seen' = Malformed
  /\ refreshing' = {} /\ uploading' = {}
  /\ UNCHANGED <<fileVars, counterVars>>

Exit == app = "quitting" /\ queue = <<>> /\ Die

\* Between any two steps; also quit()'s ten seconds running out.
Crash == app # "down" /\ Die

-----------------------------------------------------------------------------
(* UserPersistence.persist(), for the snapshot at the head of the queue.    *)

Job == Head(queue)
Working(s) == step = s /\ queue # <<>>
UNCHANGEDService == UNCHANGED <<app, memoryVars, callVars>>
EndJob == step' = "idle" /\ queue' = Tail(queue) /\ seen' = Malformed

Guarded(j) == j.users = {} /\ j.intent = "automatic"

\* An automatic empty state is 'guarded' or 'skipped'.
ReadPrimary ==
  /\ Working("idle")
  /\ \E lost \in SUBSET {"primary"} :
       /\ Reads(lost)
       /\ IF Guarded(Job) THEN EndJob
          ELSE /\ seen' = IF lost = {} THEN primary ELSE Malformed
               /\ step' = "backup"
               /\ UNCHANGED queue
  /\ UNCHANGEDService /\ UNCHANGED <<fileVars, damages, logins, starts>>

\* mutant: the marker of a deliberate removal is forgotten
AfterBackupUnmarked(j) == "primary"
AfterBackup(j) == IF j.users = {} THEN "marker" ELSE "primary"

\* mutant: a backup that is there is kept
BackedOnce(file) == IF HasAccounts(backup) THEN backup ELSE file
Backed(file) == IF HasAccounts(file) THEN file ELSE backup

BackupPrimaryIfNonEmpty ==
  /\ Working("backup")
  /\ backup' = Backed(seen)
  /\ step' = AfterBackup(Job)
  /\ UNCHANGEDService /\ UNCHANGED <<queue, seen, primary, meta, emptied, counterVars>>

WriteMarker ==
  /\ Working("marker")
  /\ meta' = "intentional" /\ emptied' = TRUE
  /\ step' = "primary"
  /\ UNCHANGEDService /\ UNCHANGED <<queue, seen, primary, backup, counterVars>>

\* mutant: a save keeps the accounts that were on disk
WrittenMerged(j) == File(j.users \cup seen.accounts)
Written(j) == File(j.users)

WritePrimary ==
  /\ Working("primary")
  /\ primary' = Written(Job)
  /\ emptied' = (Job.users = {})
  /\ IF Job.users = {} THEN EndJob
     ELSE step' = "meta" /\ UNCHANGED <<queue, seen>>
  /\ UNCHANGEDService /\ UNCHANGED <<backup, meta, counterVars>>

WriteMeta ==
  /\ Working("meta")
  /\ meta' = "not-empty"
  /\ EndJob
  /\ UNCHANGEDService /\ UNCHANGED <<primary, backup, emptied, counterVars>>

\* The catch of saveUserFile: the next save goes ahead.
FailJob == EndJob

\* A write throws; it is atomic, so the file is what it was.
WriteFails ==
  /\ "write" \in FaultKinds /\ faults < MaxFaults
  /\ queue # <<>>
  /\ step \in {"backup", "marker", "primary", "meta"}
  /\ step = "backup" => HasAccounts(seen)
  /\ faults' = faults + 1
  /\ FailJob
  /\ UNCHANGEDService /\ UNCHANGED <<fileVars, damages, logins, starts>>

\* user.json is damaged or replaced by something else than the launcher.
Damage ==
  /\ damages < MaxDamages
  /\ damages' = damages + 1
  /\ primary' \in {Malformed, ForeignEmpty}
  /\ UNCHANGEDService
  /\ UNCHANGED <<queueVars, backup, meta, emptied, faults, logins, starts>>

-----------------------------------------------------------------------------
Persist == ReadPrimary \/ BackupPrimaryIfNonEmpty \/ WriteMarker \/ WritePrimary \/ WriteMeta

UserCall ==
  \/ \E a \in Accounts :
        \/ Login(a)
        \/ RemoveUser(a)
        \/ RefreshUser(a)
        \/ RefreshDone(a)
        \/ UploadSkin(a)
        \/ SkinUploaded(a)
  \/ SkinRefused

Stopped == app = "down" /\ starts = MaxStarts /\ UNCHANGED vars

Next ==
  \/ Start \/ Load
  \/ UserCall
  \/ SaveUserFile \/ Quit \/ Exit \/ Crash
  \/ Persist \/ WriteFails
  \/ Damage
  \/ Stopped

Spec == Init /\ [][Next]_vars

\* The mutations pause for the second the debounce waits, and file operations
\* complete.
FairSpec == Spec /\ WF_vars(SaveUserFile) /\ WF_vars(Persist \/ WriteFails)

-----------------------------------------------------------------------------
(* Properties. *)

\* The startup cleanup "must not grant permission to replace a valid profile
\* with empty data" (UserService.ts:100-101): user.json loses its accounts to
\* an empty state only when removeUser took the last one from memory, since
\* there were any or in this life before the accounts were loaded.
NoAutomaticErase ==
  [][HasAccounts(primary) /\ primary' = File({}) => Job.byUser \/ early]_vars

\* The same without the calls that came before the load: the code does not
\* guarantee it.
OnlyLastRemovalErases ==
  [][HasAccounts(primary) /\ primary' = File({}) => Job.byUser]_vars

\* "A crash after this point must not resurrect a deliberately removed account
\* from the backup" (UserPersistence.ts:123-124): until the next save of
\* accounts, whatever happens to user.json, for a load that can read.
RemovalStands == emptied => ~FromBackup(primary, backup, meta)

\* The same for any load: the code does not guarantee it.
NeverResurrected ==
  [][emptied /\ ~HasAccounts(primary) /\ app = "loading" /\ app' = "running"
       => users' \subseteq Imported]_vars

\* A save "keeps the replaced profile as backup" (UserPersistence.test.ts):
\* accounts leave user.json only when the backup holds what it held, provided
\* that the save could read them.
ReplacedKept ==
  [][(HasAccounts(primary) /\ seen # Malformed /\ primary'.kind = "own" /\ primary' # primary)
       => backup = primary]_vars

\* "persistence will retry after the next mutation" (UserService.ts:49-50):
\* once no write fails any more, an armed save stores what is in memory.
Saved(s) ==
  (app = "running" /\ timer /\ users = s /\ faults = MaxFaults)
    ~> (LoadedUsers = s \/ users # s \/ app # "running")
EventuallySaved == \A s \in (SUBSET (Accounts \ Nameless)) \ {{}} : Saved(s)

\* "Only update the user if the user is still in the state" (UserService.ts:243):
\* an account that is gone comes back only by logging in or with the next start.
UpdatesOnlyPresent ==
  [][users' \subseteq users \/ logins' # logins \/ app = "loading"]_vars

\* A save has taken effect once user.json is written.
Pending == IF step = "meta" THEN Tail(queue) ELSE queue
AccountsOf(q) == [i \in 1 .. Len(q) |-> q[i].users]

Store == INSTANCE AccountStore
  WITH durable <- LoadedUsers, snapshots <- AccountsOf(Pending)

\* As long as nobody damages user.json the three files behave as one store
\* that changes atomically, whatever fails or crashes.
ImplementsStore ==
  Store!Init /\ [][Store!Next \/ damages' > 0]_<<LoadedUsers, AccountsOf(Pending)>>

=============================================================================
