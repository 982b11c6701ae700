# Specifications of xmclf

xmclf is a Minecraft launcher: an Electron application (`xmcl-electron-app`, `xmcl-keystone-ui`) over a
service runtime (`xmcl-runtime`) and a set of libraries (`packages`). This directory holds TLA+ modules for
the parts of it whose correctness depends on the order of events, the TLC configurations that check them and
the TLAPS proofs about them.

All of the program is event-loop code. A step of a specification is one turn of a loop, from one `await`,
callback or event to the next; whatever runs in between (the file system's thread pool, sockets, timers,
worker threads, other processes, the power switch) is the environment. Where two effects happen in one turn
they are one action here, and where the code awaits between them they are two.

Paths below are relative to `src/`; `download.ts` and its neighbours are in `packages/file-transfer/`.

## 1. Inventory

The complete list, with a status for each part, is `components` in `PROJECT.json`. These are the parts that
keep state and interact.

| component | state | operations | interacts with | hard behaviour | correct when |
|---|---|---|---|---|---|
| controlled download, segments (`download.ts` runSegment, `controlled_handler.ts`, `file_handler.ts`) | URL index, resume offset, two budgets, committed flag; per attempt a connection, timers, position, pending `fs.write`s | dispatch, response, data, ttfb/stall/slow abort, re-roll, fallback, user abort | the controller, undici, the descriptor shared with other segments | writes and queued requests that outlive their attempt; mirrors that ignore `Range`, serve another range or stop early; budgets shared over URLs | success means no gap, resumption never passes unwritten bytes, requests are bounded, the last URL is tried |
| controlled download, ranges and descriptor (`download.ts` download, downloadWithController, downloadRanged) | descriptor, file, one runSegment per chunk, internal AbortController | open, split, fall back to one stream after a truncation, close, unlink | runSegment, the caller's AbortSignal | old writes landing after the truncation, requests abandoned before they connect, siblings of a failed chunk, writes, truncation and removal that fail | success means the whole file but for failed writes, no call runs past its phase, descriptor closed, removal tried on failure |
| classic download (`download.ts` download, `range_handler.ts`, `range_policy.ts`) | URL index, restart flag, errors, a parent and child handlers on one descriptor | first range, child ranges, restart from byte 0, next URL | undici's retry interceptor, the descriptor | children of a failed attempt are not aborted and write beside the next one; responses of another length or range | success means every byte on disk where responses can be trusted, every URL tried before failing, the call returns |
| mirror controller (`xmcl-runtime/network/BmclDownloadController.ts`) | failure count, cooldown, probe counter, learned speeds | onSample, shouldSkip, shouldReroll, report, save | every download of the launcher | one count over interleaved attempts; half-open probes; two sources that fail alternately | opens only on a streak, finds a recovered CDN, never holds a download on a dead one |
| user accounts (`xmcl-runtime/user/UserService.ts`, `UserPersistence.ts`) | accounts in memory, explicit-empty flag, debounce timer, queue of saves, `user.json` with backup and marker | load, login, remove, refresh, skin upload, debounced save, dispose | the renderer's calls, the file system | crashes between the three writes, failed writes, a state emptied by a cleanup rather than by the user | accounts never vanish unasked, removed ones never return while the files can be read, the files behave as one store |
| services (`service/Service.ts`, `pluginServicesHandler.ts`, `app/MutexManager.ts`) | mutexes by key, running singleton calls, initialization signals | Lock, Singleton, initialize, service call | every service; the installs of `install/InstallService.ts` nest | several keys per call, locked calls nested in locked calls, failures while others wait, calls during initialization | mutual exclusion, order of arrival over all keys, every call ends |
| shared state (`service/ServiceStateContainer.ts`, `ServiceStateManager.ts`, `xmcl-electron-app/preload/service.ts`, `xmcl-keystone-ui/src/composables/syncableState.ts`) | containers by id, clients tracked per container; in each window a replica, its subscribers, pending commits | registerOrGet, track, untrack, commit, revalidate, destroy; receive, subscribe, unref, finalize | all services, all windows | snapshots racing commits, revalidation racing disposal, finalizers racing re-acquisition | a replica converges to its state, a tracked container is alive and registered, an unused one is disposed once |
| lazy workers (`packages/worker`) | the thread, calls in flight, idle timer, disposed flag | call, answer, idle, terminate | worker threads | an idle message crossing a new call | every call is settled |
| job queue (`packages/utils/WorkerQueue.ts`) | queue, busy count, retries | push, work, retry, dispose | unpacking, resource indexing | bursts of pushes, retry waits, dispose in between | each job runs once at a time, onIdle means idle |
| launch history (`launch/LaunchHistoryStore.ts`) | one directory per launch | begin, complete, prune | launch service | completion racing a prune | a running launch keeps its record |
| multiplayer room (`packages/wrtc-multiplayer/lib/peerGorup.ts`, `multiplayerImpl.ts`) | number of the last call, current room; per room a socket, the last snapshot and its revision, role, pending transfer, peer connections; the group shown | createGroup, joinGroup, leaveGroup, transferGroupMaster, drop; take snapshots and signals, restore a lost socket | room server, other launchers | calls that overtake each other at every await, sockets that open after their room was closed, master changes, messages of an old topology, lost sockets | at most one live room, connections follow the snapshots, calls return, the snapshot converges to the server's |
| instance installation (`instanceIO/InstanceInstallService.ts`, `packages/instance/files_delta.ts`, `files_handler.ts`, `instance/InstanceService.ts` deleteInstance) | instance lock, profile of a running install, unresolved list, the instance's files, a workspace, a backup folder; queues of the handler; the instance's mutex | install, resume, cancel, delete; delta, link/unzip/download, back up, rename, roll back | downloads, resources, the user's edits, the file system | crashes and failures between any two of dozens of writes, resumption from a record of what was finished, edits and deletions meanwhile | the user's content is in the instance or in a backup, a failure rolls back, a finished install delivered the version, the lock tells the truth |

The remaining components (installer steps, launcher core, format parsers, remote API clients, views, vendored
code) are sequential, without state between calls, or belong to libraries and remote services; `PROJECT.json`
says for each why it is not modelled.

How they interact: a window calls a service method over IPC; `pluginServicesHandler` creates and initializes
the service, runs the method (under `Lock` or `Singleton`), and answers with a value or with a shared state it
tracks for that window. Installs of game versions nest locked calls; installs of instances hold the mutex of
the instance, which `deleteInstance` takes as well. Installing services start downloads; each of them runs its
own `download()`, all of them over one dispatcher and one mirror controller. `UserService` mutates a shared
state; its own subscriber to that state drives the saves.

## 2. Modules

| module | models | kind |
|---|---|---|
| `SegmentDownload` | one runSegment call with its ControlledFileHandler and the `fs.write`s it issued | detailed |
| `SegmentContract` | what a runSegment call promises: bytes only accumulate, requests are bounded, success means all bytes | abstract |
| `RangedDownload` | downloadWithController: the segments side by side, the fallback, descriptor and file | composition: each segment is an abstract one, guarded as `SegmentContract` says |
| `RangePolicy` | computeRangesInRange as a definition | operators |
| `RangeLoop` | computeRangesInRange as the loop it is | algorithm, against the statement of its result |
| `ClassicDownload` | the classic path of download(), parent and child handlers, leftovers of failed attempts; EXTENDS `RangePolicy` | detailed |
| `DownloadContract` | what download() promises: it returns with every byte it takes for received, or throws after it tried to remove the file | abstract |
| `MirrorBreaker` | the circuit breaker and the downloads that share it | detailed |
| `UserAccounts` | UserService around its state and UserPersistence with its files | detailed |
| `AccountStore` | a store of accounts that changes whole and in order | abstract |
| `InstanceInstall` | the installs and the deletion of one instance with its files on disk | detailed |
| `ServiceCalls` | calls under @Lock and @Singleton over the mutexes, nested | detailed |
| `PeerGroup` | the rooms a launcher creates, joins and leaves, with sockets, snapshots and peer connections; room server and other launchers as environment | detailed |
| `MCInstanceInstall`, `MCServiceCalls` | values of function constants: a manifest; the locks, singletons and nesting of the calls of `InstallService` and `JavaService` | instances for TLC |
| `SegmentProofs`, `RangedProofs`, `ClassicProofs`, `MirrorBreakerProofs`, `UserAccountsProofs`, `InstanceInstallProofs`, `ServiceCallsProofs`, `PeerGroupProofs` | theorems about `SegmentDownload`, `RangedDownload`, `ClassicDownload` with `RangeLoop`, and the modules so named | proofs |

Refinements: `SegmentDownload` implements `SegmentContract` (runs segment, whole); `RangedDownload` and
`ClassicDownload` implement `DownloadContract` (runs ranged, classic); `UserAccounts` implements `AccountStore`
but for the steps in which something else damages `user.json` (run accounts). All of them are theorems,
section 4.

### SegmentDownload

`pc`, `urlIndex`, `resumeOffset`, `resumes`, `noProgress`, `committed`, `lastError` are the locals of
runSegment; `link`, `url`, `start`, `position`, `total`, `limit` are the current ControlledFileHandler and its
response; `inflight` holds the `fs.write` calls of the current handler and `orphans` those of handlers that
are settled, whose errors nobody sees. A byte is its offset and a write is a set of bytes. `Dispatch`,
`SkipUrl` and `RunOffList` are the head of the loop; `AfterSuccess`, `AfterSlow`, `AfterNoProgress` and
`AfterFailure` the four ways one iteration ends, each a part of the action that settles the attempt, because
the loop goes on in the same turn. Mirrors serve the right bytes (downloads are content addressed) but may
ignore `Range`, serve another range, stop early, or announce no length (`MirrorFaults`); `DiskFaults` lets
`fs.write` fail or write less. Speeds are abstracted: at any sample the controller may say abort, within
`Reassignable` and the committed flag.

An attempt that a TTFB timer or another verdict ends before `onConnect` leaves a request that nobody can abort
any more (`file_handler.ts:31,39-48`): it goes to `strays`, connects later, and streams into the descriptor beside
the attempts that replaced it (`StrayAnswered`, `StrayData`); `strayed` are the bytes it handed to `fs.write`.
`MaxStrays` bounds how many there are at one time.

### RangedDownload

`phase` is where download() is, `seg`, `next`, `conn`, `tries` are the runSegment calls, `writes` the
`fs.write`s a handler waits for, `strays` those nobody waits for, `zombies` the requests a TTFB timer gave up
before `onConnect` had stored an abort function. `CallEnds` is the first rejection or the last resolution of
`Promise.all` with the cancellation of the siblings. The descriptor is one for all of them, and writes after
the close fail unseen. `fs.write` may fail or write less (`WriteFails`, `WriteShort`): only the handler that
issued it is told, so the failure of a stray (`StrayFails`) reaches nobody; `lost` remembers what a call lost that
way, up to `MaxLost`. `ftruncate` and `unlink` may fail, which the code swallows: `Truncated` may leave the disk
as it was and `Unlink` the file `stuck`.

### RangePolicy, RangeLoop, ClassicDownload

`RangePolicy` states the pieces by index; `RangeLoop` is the `for` loop over `cur` and `chunkSize`, with the
merge of a short last piece, and `ReturnsRanges` says the loop returns what `RangePolicy` states, which is what
`ClassicDownload` uses. In `ClassicDownload` `handler[0]` is the RangeRequestHandler and the others its
children; a failed attempt moves the handlers nobody aborted to `stale`, where they go on receiving and writing
beside the restart, the next URL and the close. `FileHandler` follows the `Content-Range` it is given and compares
it with nothing, and no length is checked: `Bodies` and `Ends` are all the ranges a 206 may announce and bring
under `MirrorFaults`, and `missing` what the attempt takes for received although no response brought it or no
write wrote it. `DiskFaults` has failing and short writes, and a truncation and a removal that fail unseen.

### MirrorBreaker

`cbFails`, `probeTick` are the fields of the controller; `cbOpenUntil` is split in `openFor`, the ticks until
the clock reaches it, and `armed`, that it is not zero, since the code tests both. Every download has the CDN's
URL first and the official one last. From the end of an attempt to the next dispatch runSegment does not
await, so `EndCdn` is report, re-roll decision and shouldSkip in one step. `Ends` are the ways an attempt can
end: files larger or smaller than `minMeasureBytes`, a 404, an abort after data or before. `Weather` changes the
sources. `barren`, the length of the current streak of CDN attempts below `minMeasureBytes`, and `answered`,
whether the CDN answered one of them after all, are history variables.

### UserAccounts

`users` is the state's account map, reduced to its keys; `explicitEmpty`, `timer`, `queue` are the flag, the
armed debounce and the chain of promises; `step` is where the persist() at the head of the queue is: it reads
and backs up the primary, writes the marker for an intended empty state, writes `user.json`, then the final
marker. `primary`, `backup`, `meta` are the files. `Load` is load() with any of its three reads failing,
preprocessUserData (accounts imported from the Minecraft launcher join, those of an unknown authority are
dropped) and the cleanup of the initializer. Calls are possible from `Start` on, since the service is registered
before it is initialized (`pluginServicesHandler.ts:25-31`); what they change is replaced by `Load`, the flag
they set is not. Service calls that await a remote answer are two actions (`UploadSkin` and `SkinUploaded`,
`RefreshUser` and `RefreshDone`). `Crash` may come between any two steps; `Start` and `Load` follow. The history
variables `emptied`, `byUser` and `early` and the field `byUser` say who emptied the store, and when.

### InstanceInstall

One instance. `lock`, `profile`, `unresolved` are its JSON files; `inst`, `back`, `work` the files of the
instance, of the backup folder and of the workspace; `run` is the `#install` that holds the mutex (with its
InstanceFilesHandler: the queues, what was saved and what has landed), `call` the one that waits for it,
`removal` a `deleteInstance`, `unlinking` the unlink of the profile that a failed caller does not wait for. A
file is its content (a version, the user's, or stale) and whether its mtime is later than the lock's.
`WriteProfile` and `Plan` are the head of `#install` (the delta of `computeFileUpdates` and `#handleFile` for
each of its entries); `LinkFiles`, `FetchFiles`, `FillFails` phase 1; `StartBackup`, `BackupFile`,
`BackupFails`, `BackedUp` phase 2; `RenameFile`, `RenameFails`, `RenamesDone` phase 3, whose renames all run at
once; `LateRename`, `UndoRename`, `RenamesUndone`, `RestoreFile`, `RolledBack` the rollback; `CleanUp`,
`WriteLock`, `DropProfile`, `ReportUnresolved`, `Release` the end. `Crash` may come between any two of them and
tear the JSON file being written; `Edit` is the user. `mark` remembers what the user may expect of what he
wrote to a path: `fresh` after the last install, `old` before it, `racing` while an install was planned.

A call that does not resume may be given the backup folder of the call before it, because the folder is named by
the second (`InstanceInstallService.ts:739-743`); `shared` are the paths whose user content lay in it. Without a
lock the old version is the one in the instance's settings, or none (`OldVersions`, `Unlisted`), and `Operation`
compares contents instead of times. `Remove` removes the folder, or fails in whole or in part: then `removal` is
`kept`, the folder is there, and a later call goes on in it. `Rollback` and `Fail` forget what the code
forgets: the queues of the handler.

### ServiceCalls

A mutex of async-mutex is the queue of the calls that acquired it; the head holds it. `Invoke` is the
synchronous part of both decorators: the call joins the queues of all its keys, or takes the promise of the
running call of its singleton. `Start` is `Promise.all` of the locks; `CallNested`, `SkipNested`, `NestedDone`
the calls a method makes with its locks held; `Return`, `Throw` the end with the `finally`; `Answer` the
settling of a shared promise. `earlier` is a history variable: the calls that were made before and had not
ended.

### PeerGroup

`operation` is the counter of createPeerGroup and numbers the calls; a call makes at most one MultiplayerRoom,
`room[c]`, with its socket, the messages on their way (`inbox`), the last snapshot (`snap`, `rev`, `status`,
`master`, `members`), the pending transfer, `restore`, and the peer connections made for it (`links`, and
`asked`, those the room remembers it asked for). `EnterFromRoom`/`EnterGroup`/`LeaveGroup` are the calls up to
their first await, `Admitted`, `AdmissionFails`, `QuitReturns` what follows; `TakeState` is `applyRoomState`.
The server's part of a room is `room[c].server`: its topology and revision, and the requests it has not
answered.

## 3. Runs

| run | constants | distinct states | what it shows |
|---|---|---|---|
| segment | 2 CDN URLs, bytes 1..2 of 4, budgets of 1, three mirror faults, one stray | @segment@ | resumption backed by writes, bounded requests, last resort, no refetch by attempts, termination, contract |
| whole | CDN then official source, a 2-byte file as one stream; unsized, short and restarted responses, failing and short `fs.write`s | @whole@ | no gap but for failed writes, and the contract for the whole-file stream |
| ranged | 3 bytes in two uneven ranges, two requests each, one abandoned request, one failing or short write | @ranged@ | complete file but for failed writes, siblings cancelled, contract of download() |
| range_loop | every range within the bound | 472 | the pieces tile the range, none is too small, the loop returns what `RangePolicy` states |
| classic | 2 URLs, 2 bytes, threshold 1, every mirror fault and disk fault | @classic@ | every byte on disk but for what a trusted response or write kept from it, in spite of stale handlers; every URL tried, aborts reach all, return, contract |
| accounts | 2 accounts, one of them nameless and possibly imported; 2 starts, one read or write failure, one damage | @accounts@ | a removal stands, no automatic erase, replaced accounts are in the backup, the files refine an atomic store, a later mutation saves everything |
| breaker | 2 downloads of large, small and absent files, threshold 3, one probe in 3, cooldown 2, one re-roll | @breaker@ | opens only on a streak below `minMeasureBytes`, converges to a CDN that delivers measured data, leaves a dead one |
| install | 2 files, 3 versions (one of another upstream), the second installed; 2 calls, 1 edit, 1 crash; nothing held open | @install@ | the user's content is kept outside shared backup folders, a failure rolls back, an install delivers, the lock tells the truth, a folder that is gone stays gone, nobody waits for ever |
| calls | Fabric reinstall with its nested call, assets, dependencies, two calls of a singleton | 149,880 | exclusion, order of arrival, every call ends |
| peers | 2 calls, 2 other launchers, 3 revisions, 1 fault, 2 attempts to restore | 249,245 | one live room, connections follow the snapshots, calls return, convergence |
| install_untracked | 2 files, 2 versions, the first installed | violation | a file the user had put there before the last install is overwritten without a copy |
| calls_deadlock | NeoForge reinstall, assets, dependencies | violation | three installs hold each other's locks for ever |

Why the bounds are enough. Segments of two bytes have a first, a last and a partial delivery; budgets of 1 are
spent and refilled; two URLs have a fallback and a last resort. Three bytes over two ranges is the smallest
uneven split, and one abandoned request meets every later phase. A file of two ranges with a threshold of 1
has a parent, a child and the boundary between them, two URLs a restart and a successor. Two files of an
instance are one that has landed and one that has not; with the second version installed the delta has an
upgrade and a downgrade, with files added, kept, replaced and removed; two calls are an install and the one
that resumes, supersedes or waits for it. The calls run has every key of the install methods, nesting and a
shared promise. Two calls of the peer group overtake each other at every await, three revisions repeat, skip
and follow each other, and two other launchers change places as master. Two accounts are a store that is
emptied in two steps; two starts are a crash and a recovery; one failure and one damage may hit any of the
writes. Two downloads interleave their reports at the breaker, a threshold and a probe spacing of 3
distinguish first, middle and last. In install nothing is held open by other programs and the launcher that
installed wrote a lock (`Held = {}`, `Locked = TRUE`); with a held path, and with an instance that has no lock,
TLC finds the invariants kept as well (3.6 and 3.9 million states), and the theorems hold for all values.

Named bounds of the modules: `MaxStrays` (SegmentDownload); `MaxRequests`, `MaxLost`, `MaxZombies`
(RangedDownload); `MaxFaults`, `MaxDamages`, `MaxLogins`, `MaxStarts`, `MaxQueue` (UserAccounts); `MaxCalls`,
`MaxEdits`, `MaxCrashes` (InstanceInstall); `NCalls`, `MaxRevision`, `MaxFaults` (PeerGroup), where a room has at
most two messages and two requests on their way. `barren` counts only up to `Threshold`. Deadlock is checked
except in install, install_untracked and peers, where the system stops once the bounded calls, edits and
revisions are used up, and in calls_deadlock, which is about one; elsewhere the end states have an explicit
stuttering action (`Finished`, `Stopped`).

### Fairness

- `SegmentDownload`: the loop runs to its next await in one turn; undici's connect, headers (25 s) and body
  (10 s) timeouts (`xmcl-runtime/network/pluginNetworkInterface.ts:108-113`) end a connection that does not
  progress; `fs.write` calls back. The managed aborts, the controller, the caller and strays are not fair.
- `ClassicDownload`: the same, per handler. `stale` handlers are not fair: the call does not wait for them.
- `RangeLoop`: the loop runs.
- `UserAccounts`: the debounce fires once mutations pause for its second, file operations complete. Calls,
  crashes and damage are not fair.
- `MirrorBreaker`: attempts end, by the timeouts above. Neither the clock nor the start of downloads is fair:
  `Converges` has as hypotheses that downloads keep being started and that the CDN in the end delivers measured
  data (`EventuallyMeasured`), and does not need the cooldown to elapse.
- `InstanceInstall`: an install that has begun goes on (its file operations and downloads end), the mutex is
  handed on, and a deletion that waits and is given the mutex runs. Calls, edits, cancellations and crashes
  are not fair, nor is an unlink nobody waits for.
- `ServiceCalls`: a method that runs ends, is granted its locks when it is the head of all its queues, and
  promises settle. Nobody has to call.
- `PeerGroup`: HTTP requests are answered or fail, sockets open or fail, restore() goes on, messages that
  arrived are delivered. The server, the other launchers and the user are not fair.

## 4. Proofs

All proofs are for any values of the constants that the ASSUMEs of the modules allow.

| theorem | property | assumes | argument |
|---|---|---|---|
| `SegmentProofs!Typing` | TypeOK | SegmentAssumption | with `AwaitsUrl` (while an attempt is awaited the index names a URL), because the offsets of a response are typed by the URL that was asked |
| `SegmentProofs!RequestsBounded` | AttemptsBounded | SegmentAssumption | below |
| `SegmentProofs!OffsetBacked` | ResumeBacked | `Aligned` | below |
| `SegmentProofs!SuccessIsWhole` | NoSilentGap | `Aligned`, `KnownEnd` | below |
| `SegmentProofs!NeverTwice` | NoRefetch | SegmentAssumption | `Ceiling`: no attempt handed anything over above the resume offset but what the current response brought; strays are outside it |
| `SegmentProofs!LastUrlTried` | LastResortTried | SegmentAssumption | `OffTheList`: the index leaves the list only from its last URL, and never on slowness alone |
| `SegmentProofs!KeepsContract` | ImplementsContract | `Aligned`, `KnownEnd` | below |
| `RangedProofs!SiblingsStop` | SiblingsCancelled | RangedAssumption | `Calls`: which calls run in which phase, and that only a call that runs has a connection |
| `RangedProofs!RangesFill` | FileComplete | `HintOrThreshold` | below |
| `RangedProofs!KeepsDownloadContract` | ImplementsDownload | `HintOrThreshold` | below |
| `ClassicProofs!Tiling` | Tiles | RangePolicyAssumption, RangeLoopAssumption | what has been pushed tiles the range up to `cur` |
| `ClassicProofs!LargePieces` | NoSmallPiece | the same | a part is never below the threshold, and merging only grows a piece |
| `ClassicProofs!LoopReturnsRangesOf` | the safety half of ReturnsRanges | the same | `Shaped`: the loop has pushed the parts of `RangesOf` in order, and merges the remainder where `RangesOf` does |
| `ClassicProofs!DiskIsComplete` | FileOnDisk | ClassicAssumption | below |
| `ClassicProofs!FaithfulIsWhole` | NoSilentGap (no run has it) | `Faithful` | without misplaced and short responses and short writes nothing is ever `missing` |
| `ClassicProofs!UrlsAreTried` | EveryUrlTried | ClassicAssumption | `Counted`: until the call ends there is one error for each URL left behind |
| `ClassicProofs!AbortIsHeard` | AbortReachesAll | ClassicAssumption | by itself inductive within `CInv`: the signal fires at all handlers and leftovers at once, and none connects after it |
| `ClassicProofs!KeepsContract` | ImplementsContract | ClassicAssumption | below |
| `MirrorBreakerProofs!OpensOnSilence` | TripsOnlyDown | BreakerAssumption | `cbFails <= barren`: every reset of the streak resets the count, not the reverse |
| `UserAccountsProofs!RemovalIsFinal` | RemovalStands | none | below |
| `UserAccountsProofs!ReplacedIsKept` | ReplacedKept | UserAccountsAssumption | between backup and replacement the queue is in one persist(), and outside damage only makes the primary lose accounts; a save that could not read is left out by the property |
| `UserAccountsProofs!OnlyUserErases` | NoAutomaticErase | UserAccountsAssumption | `FlagInv`: the flag is set only by a removal of the last account, which `byUser` remembers until a load or a new account, or `early`; an automatic snapshot never reaches the write |
| `UserAccountsProofs!AtomicStore` | ImplementsStore | UserAccountsAssumption | below |
| `InstanceInstallProofs!UserContentSurvives` | UserContentKept | InstanceInstallAssumption | below |
| `InstanceInstallProofs!VersionDelivered` | Delivered | the same | `Placed`: between plan and lock each file of the version is in place, in the queue of renames, or recorded as unresolvable |
| `InstanceInstallProofs!FailureRestores` | FailureRestoresUser | the same | `Restorable`: what the user had at the plan is in the instance until it is saved, in the backup from then on, and in the instance again when it is restored |
| `InstanceInstallProofs!LockIsTruthful` | LockTruthful | the same | below |
| `InstanceInstallProofs!StaysDeleted` | DeletedStaysGone | none | `Gone`: once the folder is gone a run gets no further than the profile it cannot write |
| `ServiceCallsProofs!Exclusive`, `InOrder` | MutualExclusion, NoOvertaking | ServiceCallsAssumption | below |
| `PeerGroupProofs!OneRoom` | OneLiveRoom | PeerGroupAssumption | `LastCall`: only the last call waits to be admitted without being stale, and while it does there is no current room |
| `PeerGroupProofs!Typing` | TypeOK (no run has it) | PeerGroupAssumption | by itself it is not inductive; part of `TopologyInv` below |
| `PeerGroupProofs!LinksInTopology` | LinksFollowTopology | PeerGroupAssumption | below |

**RequestsBounded.** `attempts <= AttemptBound` is not inductive: nothing in it says how far the loop is. The
invariant adds that the attempts made so far are at most the re-rolls spent plus what each URL already left
may have cost plus the no-progress re-rolls and the committed attempt of the current URL. Each way an iteration
ends spends from a budget or leaves a URL.

**OffsetBacked, SuccessIsWhole, KeepsContract.** `ResumeBacked` says nothing of the attempt that runs, so it is
not inductive. `NothingSkipped` adds that the response under way starts no higher than the resume offset and that
all between its start and its position was handed to `fs.write`: a verdict that moves the offset to the position
then leaves no gap. That a response starts no higher is checked in a segment; in a whole-file stream the start is
the mirror's word, hence `Aligned` (a segment, or mirrors without "wrongStart"). The code ends a stream of
unknown length with success, hence `KnownEnd` for `SuccessIsWhole` (a segment, a size from the caller, or mirrors
without "unsized"). `KeepsContract` puts both together with the budget of `RequestsBounded`. The configurations
of the runs segment and whole satisfy both assumptions.

**RangesFill, KeepsDownloadContract.** `FileComplete` is about the file at the end; the invariant `RInv` says
who is to fill it. `Calls` says which calls run in which phase, `Offsets` that a call stays inside its range and
ends at its end, `HandedOver` that each byte a call has passed is on disk, in a write under way, or in one of its
own that failed (`Obtained`). The last holds only in the phases that can still succeed with those calls: between
the ranges and the fallback the file is truncated, and the fallback starts over, so what the ranges wrote, lost
and left running counts for nothing then (`Disown`). Lemma `ChunksTile` shows that the chunks cover a file of any size at
any concurrency, so that when the last call ends (`LastCallHasAll`) all was handed over. The writes of an
attempt that was given up may still be pending at the close, or fail: `CompleteOnReturn` below. `HintOrThreshold` is needed: with no size from the caller,
a threshold of 0 and a concurrency above 1 the file is split into nothing and the call resolves with an empty
file (`ZeroDisablesSplitting` below). The callers in the launcher leave the threshold at its default.

**DiskIsComplete, KeepsContract of the classic path.** In `CInv`, `Covered` says that during an attempt every
byte is on disk, owed by a handler of the attempt, or `missing`: `Owes` is all of the file for a parent that has
no response yet, the range for a child, what is still to come and the writes under way for a handler that
receives. When every handler has settled nobody owes anything; what the leftovers of earlier attempts write is
never counted on, and does no harm as they write the same bytes. The hard step is the partial response, where the
parent gives up its tail to the children: `Split` and `ChildrenCover` show that the pieces of `RangesOf` cover
the tail behind whatever body it announces, for any sizes; what lies before that body, or outside what a child
announces, is `missing` from that step on. `Outcomes`, `Idle` and `FromStart` say which handlers there are in
which phase and that the parent asks for the beginning. The refinement needs no more than `CInv`, and
`FaithfulIsWhole` says when nothing is missing.

**RemovalIsFinal.** `emptied => ~FromBackup(primary, backup, meta)` is about the files alone, and a crash may come when only
some of them are written. The invariant `JobInv` relates the step of the persist() at the head of the queue to
the marker: from the step that empties `user.json` on the marker is `intentional`, a guarded automatic state
never passes the read, and `emptied` implies the marker until accounts are saved again. `load()` takes nothing
from the backup under a marker it can read, however `user.json` is damaged.

**AtomicStore.** It is a property of every step but a damage. The refinement mapping takes the accounts
`load()` would return for the store's contents and the queue, without the save whose `user.json` is already
written, for the saves that are pending. `IntactInv` says that nothing was damaged yet; that `user.json` holds
accounts, or the marker says it is empty on purpose, or the backup holds none either, so that `load()` would
return what `user.json` holds; that a backup in progress copies from a `user.json` that still holds accounts;
and that `user.json` is what was saved while the last marker is pending. It follows that only the write of
`user.json` changes what would be loaded; it is `Save`, a failure or a guarded empty state is `Drop`, a crash
is `Crash`, and everything else stutters or is `Snapshot`.

**UserContentSurvives.** The property is about the disk; the invariant ties it to the run. `Owners` says whose
profile, call and run there is, `Queues` what each step of the run still has to do and that only paths of the
version are renamed, `FreshContent` that what the user may expect is later than the lock, so that any plan
sees it as touched. `CopiedBeforeReplaced` says that a path that is to be renamed holds the user's content
only while its backup is still to be made, `SavedContent` what a run has saved, `FirstCopyKept` that a resumed
run never backs up a second content over the first, and `HiddenByOwner` that a file which stands where the
user's content was moved away is of the version the backup folder belongs to, so that the plan of a run that
resumes keeps it and does not back it up. The last two are about `Kept` content: a backup folder that another
call was given as well (`shared`) has no one owner, and neither holds for what lay in it.

**LockIsTruthful.** The property is about an idle launcher; `LockInv` says what makes it come out so. `Scoped`
says that modpack content is always told of by the lock, by the report, or by the profile of a version that
ships the path and may be installed over the lock (`Fits`). `AllHandled` says that from the plan to the report
each such file is in place or unresolvable, is still to be replaced or moved away, or was reported before;
when the lock is written nothing is left to move, so the report may replace the profile. `OnBase` says that the
run was planned from the lock there is and owns the profile, and that a profile about to be unlinked by a refused
call is of a version that does not fit, so that it told of nothing. All of it is under `Tracked`: there
was a lock, no install was given up on the way, and the instance is not deleted.

**LinksInTopology.** A connection is made on a signal, which follows the snapshots the server sent. `Ordered` says
that every snapshot in the inbox is news: revisions rise along it and are above the one the room has. `Timely`
says that a signal is read only while the room has a master, because before it a snapshot is read that opens the
room. `Offline` says that a socket that opens finds no snapshot left of an earlier one. `Linked` says that
connections are among those the room asked for, and these within what the snapshot allows. They are needed of
rooms that are not closed only; `TopologyInv` adds the types, without which no step can be followed.

**Exclusive, InOrder.** Mutual exclusion over one queue is immediate; over several it needs that the queues
never disagree. `QueuesPending` says that the queues hold exactly the pending calls with their key,
`QueuesAgree` that a call stands only behind calls that were made earlier, `EarlierOrder` that "earlier" is a
strict order of the pending calls, `HoldersRun` that a running call heads all its queues. All of them hold
because a call joins its queues in one step, before anything is awaited.

Model-checked only: everything temporal under fairness (`Terminates`, `Returns`, `Converges`, `LeavesDeadCdn`,
`EventuallySaved`, `EveryoneServed`, `Served`, `CallsReturn`, and of `ReturnsRanges` that the loop ends), which
the prover does not do. Lemmas by induction over data and facts about RECURSIVE operators are out of the
prover's reach; no module here needs either.

## 5. What the code does not do

Two runs show it, install_untracked and calls_deadlock; `findings` in `PROJECT.json` quotes the statements and
the code. The modules also state promises that the code does not keep, as definitions no run has; TLC refutes
each of them with the constants given here (others as in the run of the component).

| definition | module | constants | the statement, and what happens |
|---|---|---|---|
| `NoGapOnWriteError` | SegmentDownload | a 2-byte segment, 2 URLs, `Reassignable = {1}`, `MirrorFaults = {}`, `DiskFaults = {"error"}` | success means every byte is on disk; a chunk counts as received before its write called back (`file_handler.ts:162`), so the fallback resumes behind a write that failed, and the call succeeds with a gap |
| `ManagedAbortNeverTerminal` | SegmentDownload | `NUrls = 1`, `Reassignable = {1}`, no faults | "a managed abort must never be the terminal failure once the re-roll budget is spent" (`controlled_handler.ts:38-39`); a TTFB or stall abort on the last URL is what the call throws |
| `CommittedIgnoresTtfb` | SegmentDownload | the same | noAbort: "ignore the controller's speed-based abort and the TTFB deadline" (`controlled_handler.ts:37-38`); the timer is armed regardless, as a later comment (121-123) says it must be |
| `BudgetSpentSurfaces` | SegmentDownload | the same | maxResumes: the download "stops resuming and surfaces the underlying failure" (`controller.ts:95-97`); a slow mirror is committed to and requested again |
| `RejectedMeansAborted` | RangedDownload | `MaxZombies = 1` | "Rejecting the resolver triggers the undici abort" (`controlled_handler.ts:305-307`); before onConnect there is no abort function |
| `ZeroDisablesSplitting` | RangedDownload | `ExpectedTotal = 0`, `SplitThreshold = 0` | "`0` disables splitting" (`controller.ts:127`); 0 splits every file, and one of unknown size into nothing |
| `NoRefetchByStrays` | SegmentDownload | as segment | "we never re-download bytes already on disk" (`download.ts:471-472`); a request given up before onConnect stays queued (`file_handler.ts:31`) and streams the range once more beside its successor |
| `CompleteOnReturn` | RangedDownload | as ranged | a call resumes "from the bytes already written" (`download.ts:243-244`); it resumes behind writes that were only issued, and one of an abandoned attempt may fail, or be pending when the descriptor is closed |
| `NoSilentGap` | ClassicDownload | as classic | an un-delivered tail "stays as zero bytes on disk - a silent gap that corrupts the file" (`download.ts:444-446`); the classic path checks neither place nor length of a response (`file_handler.ts:97-104`) and no short write (155), and returns with such a gap |
| `OnlyLastRemovalErases` | UserAccounts | as accounts | the startup cleanup "must not grant permission to replace a valid profile with empty data" (`UserService.ts:100-101`); a removeUser that passes while initialize() runs (`pluginServicesHandler.ts:25`) grants it, and the cleanup empties `user.json` |
| `NeverResurrected` | UserAccounts | as accounts | "A crash after this point must not resurrect a deliberately removed account from the backup" (`UserPersistence.ts:123-124`); a marker that cannot be read at load counts as unknown (199), and the backup comes back |
| `UpdatesOnlyPresent` | UserAccounts | as accounts | "Only update the user if the user is still in the state" (`UserService.ts:243`); uploadSkin does not ask |
| `TripsOnlySilent` | MirrorBreaker | as breaker | the breaker is for a CDN "delivering nothing — down or unreachable" (`BmclDownloadController.ts:110-111`); files that complete below `minMeasureBytes` and 404 answers count as well (340-350) |
| `ConvergesOnceUp` | MirrorBreaker | as breaker | "we converge back to the (faster) CDN as soon as it works again" (314-315); while it serves small files or 404s to the probes, a healthy CDN keeps being abandoned |
| `StreakKept` | MirrorBreaker | as breaker | "The breaker is forcing traffic onto the official fallback" (356); the condition holds for ever after the first trip until the CDN delivers or the fallback fails |
| `UserContentSafe` | InstanceInstall | as install | the replaced files are moved to a backup; its folder is named by the second and before the mutex is held (`InstanceInstallService.ts:739-743`), so two calls of one second share it, and the second copy of a path replaces the user's (`files_handler.ts:185`) |
| `NoInstallAfterDelete` | InstanceInstall | as install | no install works on a deleted instance: waiting ones are rejected "so they don't start work that we are about to wipe out" (`InstanceService.ts:543-545`); a call that joins the queue behind the deletion is not, and when the folder could not be removed or renamed (589-606) it installs into it |
| `NoLinkAfterLeave` | PeerGroup | `Peers = {"p"}`, `NCalls = 3`, `MaxRevision = 2`, `MaxFaults = 0` | "Leave the group" (`xmcl-runtime-api/src/multiplayer.ts:203`); a master's quit() awaits closeRoom with its socket open (`peerGorup.ts:835`), and a snapshot or signal that arrives meanwhile opens a connection that nobody closes |
| `ShownIsCurrent` | PeerGroup | the same | leaveGroup() and a failed enterGroup() reset what is shown after their await (`peerGorup.ts:354`) although a later call has entered a room |

Found by reading, outside what the definitions state:

- Installs. The double entry of a file whose link source is gone, in the link and in the fetch queue
  (`packages/instance/files_handler.ts:151-168`, `212-231`, `instanceIO/utils/linkInstanceFiles.ts:68-73`),
  makes phase 3 rename it twice and fail; it is in the model, as a failure. After a failed rollback the
  instance is not "restored to the original state" (`files_handler.ts:85`): what could not be renamed stays
  where it was. A link that fails with another error than a missing source is not noticed
  (`xmcl-runtime/util/fs.ts:296-305`), nor an entry missing from an archive
  (`instanceIO/utils/unzipInstanceFiles.ts:56-57`). The JSON files are not written atomically, the failed call
  does not wait for the unlink of the profile (`InstanceInstallService.ts:605`, `756`), and the lock file is
  read before the mutex is held. Edits made after the plan are not protected.
- Services. `@Lock((v: string) => LockKey.version(v))` on `installMinecraftJar(options)` makes every call wait
  on the same key, `[object Object]` (`install/InstallService.ts:785`); reinstall writes assets and libraries
  without their locks (682-715). `@Singleton()` without a key ignores the parameters: a second `installJava`
  with another target gets the first one's Java (`java/JavaService.ts:128`), and the lists of
  `InstanceLogService` the other instance's; `removeLog` and `getLogContent` of different files of one
  instance share a key. The same key twice in one `@Lock` would wait for itself. A service whose initialize()
  failed stays registered (`pluginServicesHandler.ts:25`).
- Shared state. The preload replays commits that waited for a snapshot before the window has subscribed
  (`xmcl-electron-app/preload/service.ts:85-93`); two uses of one container in one window send each commit
  twice (`ServiceStateContainer.ts:130`); the finalizer of a collected object unrefs its replacement
  (`preload/service.ts:102`); registerOrGet returns a container that was destroyed while it awaited the
  revalidation (`ServiceStateManager.ts:93-98`), and keeps a factory that was rejected.
- A lazy worker that announces that it is idle while a call is on its way to it is terminated with that call
  pending (`packages/worker/index.ts:34`).
- The reputation per host is recorded (`BmclDownloadController.ts:377-387`) but never read, although
  "repeatedly-slow hosts are abandoned sooner" (141-142). `UserPersistence` saves without a backup when
  `user.json` cannot be read, which ReplacedKept therefore leaves out.

## 6. Not modelled, and why

- Shared state containers. Their races are listed above; a model of them hangs on when each window collects
  garbage and on whether every kind of mutation may be applied twice, which depends on the views and not on
  the protocol, so that a property would be refuted or not by what the model assumes of them.
- Lazy workers, the job queue, launch history: small protocols in memory that nothing modelled here depends
  on.
- `InstanceInstall`: the diff install a peer asks for (installInstanceFiles without upstream), which writes no
  lock; the staging of manifests, resource metadata, progress. Two runs never share the mutex, so one `run` is
  enough. Workspaces, named by the millisecond, are taken as different; a file of a workspace counts as complete
  content, although the code asks only for its size; without a lock a listed file is told by its content, although
  the code may have its size alone.
- `UserAccounts`: profile contents, tokens and the account systems; a profile that is selected for an account that
  is gone is a login.
- `MirrorBreaker`: the learned speeds, the abort threshold and what of the scores is saved; the loop of a URL list
  is two URLs, with one budget for both kinds of re-roll.
- `ServiceCalls`: the serializer of parameters; keys are constants, and the configurations give those that
  occur.
- `PeerGroup`: the members' connection status and profiles, TURN servers, jitter of the delays; a message that
  is refused by validation is one message, `malformed`; a peer id that is not one's own is not sent; the
  repeated creation of a broken connection (up to six times) is a stutter; the await for the launcher's own id
  is taken as over; two calls are admitted to different rooms of the server.
- Data: contents of bytes, headers beyond range and length, profiles and tokens, speeds and the EWMA scores.
  The properties do not tell them apart; where a decision depends on one, the model takes every decision.
- undici's retry interceptor and connection pool, the operating system's descriptors, Electron's IPC:
  external, by the outcomes the code can observe. That a closed descriptor number is taken again by another
  open while a stray write is pending is outside the models.
- `rangeThreshold = 0` (the splitting loop would not advance), an empty URL list (the download would succeed
  with an empty file) and `cbThreshold = 0` are excluded by the ASSUMEs; no caller uses them.
- Progress trackers, snapshots for the log, telemetry.
- Liveness of downloads inside `RangedDownload`: each call's termination is `Terminates` of `SegmentDownload`.
- The rest of the repository, by far its larger part, is sequential: the views, the format parsers and codecs,
  the API clients, the steps of the installers, vendored code. A model of them would restate the code;
  `PROJECT.json` gives the reason for each part.

What would come next: the components that `PROJECT.json` lists as partly modelled, as far as their order of
events matters.
