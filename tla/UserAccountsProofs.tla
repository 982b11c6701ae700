-------------------------- MODULE UserAccountsProofs --------------------------
(***************************************************************************)
(* What the persistence of the accounts guarantees for any accounts, any   *)
(* number of starts, faults and damages: a deliberate removal is not taken *)
(* back from the backup, accounts leave user.json only into the backup,    *)
(* and an automatic empty state never empties user.json.                   *)
(***************************************************************************)
EXTENDS UserAccounts, SequenceTheorems, TLAPS

Steps == {"idle", "backup", "marker", "primary", "meta"}

-----------------------------------------------------------------------------
(* The queue of snapshots. *)

LEMMA AppendJob ==
  ASSUME NEW q \in Seq(Jobs), NEW j \in Jobs
  PROVE  /\ Append(q, j) \in Seq(Jobs) /\ Append(q, j) # <<>>
         /\ \A i \in 1 .. Len(Append(q, j)) : i \in 1 .. Len(q) \/ Append(q, j)[i] = j
         /\ \A i \in 1 .. Len(q) : Append(q, j)[i] = q[i]
         /\ q # <<>> => Head(Append(q, j)) = Head(q)
<1>1. /\ Append(q, j) \in Seq(Jobs) /\ Append(q, j) # <<>>
      /\ Len(Append(q, j)) = Len(q) + 1
      /\ \A i \in 1 .. Len(q) : Append(q, j)[i] = q[i]
      /\ Append(q, j)[Len(q) + 1] = j
  BY AppendProperties
<1>2. Len(q) \in Nat
  BY LenProperties
<1>3. ASSUME NEW i \in 1 .. Len(Append(q, j)) PROVE i \in 1 .. Len(q) \/ Append(q, j)[i] = j
  BY <1>1, <1>2
<1>4. ASSUME q # <<>> PROVE Head(Append(q, j)) = Head(q)
  <2>1. Head(q) = q[1] /\ 1 \in 1 .. Len(q)
    BY <1>2, <1>4, EmptySeq, SeqEqual
  <2>2. Head(Append(q, j)) = Append(q, j)[1]
    BY <1>1
  <2> QED BY <1>1, <2>1, <2>2
<1> QED BY <1>1, <1>3, <1>4

LEMMA TailJob ==
  ASSUME NEW q \in Seq(Jobs), q # <<>>
  PROVE  /\ Head(q) \in Jobs /\ Tail(q) \in Seq(Jobs)
         /\ 1 \in 1 .. Len(q) /\ Head(q) = q[1]
         /\ \A i \in 1 .. Len(Tail(q)) : i + 1 \in 1 .. Len(q) /\ Tail(q)[i] = q[i + 1]
<1>1. Len(q) \in Nat /\ Len(q) # 0
  BY LenProperties, EmptySeq, SeqEqual
<1> QED BY <1>1, HeadTailProperties

-----------------------------------------------------------------------------
(* Types. *)

LEMMA FileTypes ==
  ASSUME NEW s \in SUBSET Accounts
  PROVE  File(s) \in Files /\ Malformed \in Files /\ ForeignEmpty \in Files
BY DEF File, Files, Malformed, ForeignEmpty

LEMMA LoadedType ==
  ASSUME NEW f \in Files, NEW c \in Files, NEW m
  PROVE  LoadedFrom(f, c, m) \in SUBSET Accounts
BY DEF LoadedFrom, Files

LEMMA SnapshotType == TypeOK => Snapshot \in Jobs
BY DEF TypeOK, Snapshot, Jobs

LEMMA TypeInit == Init => TypeOK
<1> SUFFICES ASSUME Init PROVE TypeOK
  OBVIOUS
<1>1. <<>> \in Seq(Jobs)
  BY EmptySeq
<1>2. Malformed \in Files /\ primary \in Files
  BY DEF Init, File, Files, Malformed, ForeignEmpty
<1> QED BY <1>1, <1>2 DEF Init, TypeOK

LEMMA TypeNext == TypeOK /\ [Next]_vars => TypeOK'
<1> SUFFICES ASSUME TypeOK, [Next]_vars PROVE TypeOK'
  OBVIOUS
<1> USE UserAccountsAssumption
<1>1. CASE Start
  BY <1>1 DEF Start, TypeOK, memoryVars, callVars, queueVars, fileVars
<1>2. CASE Load
  <2> DEFINE File1(lost) == IF "primary" \in lost THEN Malformed ELSE primary
             File2(lost) == IF "backup" \in lost THEN Malformed ELSE backup
             Mark(lost) == IF "meta" \in lost THEN "unknown" ELSE meta
             Loaded(lost, extra) == Preprocessed(LoadedFrom(File1(lost), File2(lost), Mark(lost)), extra)
  <2>1. PICK lost \in SUBSET {"primary", "backup", "meta"} : \E extra \in SUBSET Imported :
          /\ Reads(lost)
          /\ users' = Loaded(lost, extra) \ Nameless
          /\ timer' = (Loaded(lost, extra) \cap Nameless # {})
          /\ explicitEmpty' \in BOOLEAN /\ byUser' = FALSE
          /\ refreshing' = refreshing \cup (Loaded(lost, extra) \ Nameless)
    BY <1>2 DEF Load
  <2>2. PICK extra \in SUBSET Imported :
          /\ Reads(lost)
          /\ users' = Loaded(lost, extra) \ Nameless
          /\ timer' = (Loaded(lost, extra) \cap Nameless # {})
          /\ explicitEmpty' \in BOOLEAN /\ byUser' = FALSE
          /\ refreshing' = refreshing \cup (Loaded(lost, extra) \ Nameless)
    BY <2>1
  <2>3. File1(lost) \in Files /\ File2(lost) \in Files
    BY DEF TypeOK, Malformed, Files
  <2>4. LoadedFrom(File1(lost), File2(lost), Mark(lost)) \in SUBSET Accounts
    BY <2>3, LoadedType
  <2>5. Loaded(lost, extra) \in SUBSET Accounts
    BY <2>4 DEF Preprocessed
  <2> HIDE DEF Loaded
  <2>6. faults' \in Nat
    BY <2>2 DEF Reads, TypeOK
  <2>7. users' \in SUBSET Accounts /\ refreshing' \in SUBSET Accounts /\ timer' \in BOOLEAN
    BY <2>2, <2>5 DEF TypeOK
  <2> QED BY <1>2, <2>2, <2>6, <2>7 DEF Load, TypeOK, queueVars, fileVars
<1>3. ASSUME NEW a \in Accounts, Login(a) PROVE TypeOK'
  <2>1. users' \in SUBSET Accounts /\ timer' \in BOOLEAN
    BY <1>3 DEF Login, Mutate, TypeOK
  <2>2. explicitEmpty' \in BOOLEAN
    BY <1>3 DEF Login, ResetFlag, TypeOK
  <2>3. logins' \in Nat
    BY <1>3 DEF Login, TypeOK
  <2> QED BY <1>3, <2>1, <2>2, <2>3 DEF Login, TypeOK, callVars, queueVars, fileVars
<1>4. ASSUME NEW a \in Accounts, RemoveUser(a) PROVE TypeOK'
  BY <1>4 DEF RemoveUser, Mutate, ResetFlag, TypeOK, callVars, queueVars, fileVars, counterVars
<1>5. ASSUME NEW a \in Accounts, RefreshDone(a) PROVE TypeOK'
  <2>1. users' = users /\ timer' \in BOOLEAN /\ explicitEmpty' \in BOOLEAN
    BY <1>5 DEF RefreshDone, Mutate, ResetFlag, TypeOK
  <2> QED BY <1>5, <2>1 DEF RefreshDone, TypeOK, queueVars, fileVars, counterVars
<1>6. ASSUME NEW a \in Accounts, RefreshUser(a) \/ UploadSkin(a) \/ SkinUploaded(a) PROVE TypeOK'
  <2>1. CASE RefreshUser(a)
    BY <2>1 DEF RefreshUser, TypeOK, memoryVars, queueVars, fileVars, counterVars
  <2>2. CASE UploadSkin(a)
    BY <2>2 DEF UploadSkin, TypeOK, memoryVars, queueVars, fileVars, counterVars
  <2>3. CASE SkinUploaded(a)
    <3>1. users' \in SUBSET Accounts /\ timer' \in BOOLEAN /\ explicitEmpty' \in BOOLEAN
      BY <2>3 DEF SkinUploaded, Mutate, ResetFlag, TypeOK
    <3> QED BY <2>3, <3>1 DEF SkinUploaded, TypeOK, queueVars, fileVars, counterVars
  <2> QED BY <1>6, <2>1, <2>2, <2>3
<1>7. CASE SkinRefused
  BY <1>7 DEF SkinRefused, TypeOK, memoryVars, queueVars, fileVars, counterVars
<1>8. CASE SaveUserFile \/ Quit
  <2>1. queue' \in Seq(Jobs)
    BY <1>8, SnapshotType, AppendJob DEF SaveUserFile, Quit, Enqueue, TypeOK
  <2> QED BY <1>8, <2>1 DEF SaveUserFile, Quit, TypeOK, callVars, fileVars, counterVars
<1>9. CASE Exit \/ Crash
  <2>1. <<>> \in Seq(Jobs) /\ Malformed \in Files
    BY EmptySeq DEF Malformed, Files
  <2> QED BY <1>9, <2>1 DEF Exit, Crash, Die, TypeOK, fileVars, counterVars
<1>10. CASE Persist
  <2>1. queue # <<>>
    BY <1>10 DEF Persist, ReadPrimary, BackupPrimaryIfNonEmpty, WriteMarker, WritePrimary, WriteMeta, Working
  <2>2. Job \in Jobs /\ Tail(queue) \in Seq(Jobs)
    BY <2>1, TailJob DEF TypeOK, Job
  <2>3. Job.users \in SUBSET Accounts
    BY <2>2 DEF Jobs
  <2>4. File(Job.users) \in Files /\ Malformed \in Files
    BY <2>3, FileTypes
  <2>5. CASE ReadPrimary
    <3>1. seen' \in Files /\ faults' \in Nat
      BY <2>4, <2>5 DEF ReadPrimary, EndJob, Reads, TypeOK
    <3>2. queue' \in Seq(Jobs) /\ step' \in Steps
      BY <2>2, <2>5 DEF ReadPrimary, EndJob, TypeOK, Steps
    <3> QED BY <2>5, <3>1, <3>2 DEF ReadPrimary, UNCHANGEDService, TypeOK, Steps, memoryVars, callVars, fileVars
  <2>6. CASE BackupPrimaryIfNonEmpty
    BY <2>6 DEF BackupPrimaryIfNonEmpty, Backed, AfterBackup, UNCHANGEDService, TypeOK, memoryVars, callVars, counterVars
  <2>7. CASE WriteMarker
    BY <2>7 DEF WriteMarker, UNCHANGEDService, TypeOK, memoryVars, callVars, counterVars
  <2>8. CASE WritePrimary
    <3>1. queue' \in Seq(Jobs) /\ step' \in Steps /\ seen' \in Files
      BY <2>2, <2>4, <2>8 DEF WritePrimary, EndJob, TypeOK, Steps
    <3>2. primary' \in Files /\ emptied' \in BOOLEAN
      BY <2>4, <2>8 DEF WritePrimary, Written
    <3> QED BY <2>8, <3>1, <3>2 DEF WritePrimary, UNCHANGEDService, TypeOK, Steps, memoryVars, callVars, counterVars
  <2>9. CASE WriteMeta
    BY <2>2, <2>4, <2>9 DEF WriteMeta, EndJob, UNCHANGEDService, TypeOK, memoryVars, callVars, counterVars
  <2> QED BY <1>10, <2>5, <2>6, <2>7, <2>8, <2>9 DEF Persist
<1>11. CASE WriteFails
  <2>1. Tail(queue) \in Seq(Jobs) /\ Malformed \in Files
    BY <1>11, TailJob DEF WriteFails, TypeOK, Malformed, Files
  <2> QED BY <1>11, <2>1 DEF WriteFails, FailJob, EndJob, UNCHANGEDService, TypeOK, memoryVars, callVars, fileVars
<1>12. CASE Damage
  <2>1. primary' \in Files
    BY <1>12 DEF Damage, Malformed, ForeignEmpty, Files
  <2> QED BY <1>12, <2>1 DEF Damage, UNCHANGEDService, TypeOK, memoryVars, callVars, queueVars
<1>13. CASE Stopped \/ UNCHANGED vars
  BY <1>13 DEF Stopped, vars, TypeOK, memoryVars, callVars, queueVars, fileVars, counterVars
<1> QED
  BY <1>1, <1>2, <1>3, <1>4, <1>5, <1>6, <1>7, <1>8, <1>9, <1>10, <1>11, <1>12, <1>13 DEF Next, UserCall

\* Every state is well typed.
THEOREM Typing == Spec => []TypeOK
<1> QED BY TypeInit, TypeNext, PTL DEF Spec

-----------------------------------------------------------------------------
(* A deliberate removal: the marker is on disk before user.json is emptied  *)
(* and until accounts are written again.                                    *)

JobInv ==
  /\ step # "idle" => queue # <<>> /\ ~Guarded(Job)
  /\ step = "marker" => Job.users = {}
  /\ step = "meta" => Job.users # {} /\ ~emptied
  /\ step = "primary" /\ Job.users = {} => meta = "intentional"
  /\ emptied => meta = "intentional"

\* The steps of the service leave persist() where it is.
ServiceStep ==
  \/ Start \/ Load \/ UserCall
  \/ Stopped \/ UNCHANGED vars

LEMMA ServiceFrame ==
  ASSUME ServiceStep
  PROVE  queue' = queue /\ step' = step /\ seen' = seen /\ UNCHANGED fileVars
<1>1. CASE Start \/ Load
  BY <1>1 DEF Start, Load, queueVars, fileVars
<1>2. CASE UserCall
  BY <1>2 DEF UserCall, Login, RemoveUser, RefreshUser, RefreshDone, UploadSkin, SkinUploaded,
              SkinRefused, queueVars, fileVars
<1>3. CASE Stopped \/ UNCHANGED vars
  BY <1>3 DEF Stopped, vars, queueVars, fileVars
<1> QED BY <1>1, <1>2, <1>3 DEF ServiceStep

\* A snapshot joins behind the one being saved.
LEMMA EnqueueFrame ==
  ASSUME TypeOK, SaveUserFile \/ Quit
  PROVE  /\ queue' = queue \/ queue' = Append(queue, Snapshot)
         /\ queue # <<>> => queue' # <<>> /\ Job' = Job
         /\ step' = step /\ seen' = seen /\ UNCHANGED fileVars
<1>1. queue' = queue \/ queue' = Append(queue, Snapshot)
  BY DEF SaveUserFile, Quit, Enqueue
<1>2. Snapshot \in Jobs /\ queue \in Seq(Jobs)
  BY SnapshotType DEF TypeOK
<1>3. ASSUME queue # <<>> PROVE queue' # <<>> /\ Job' = Job
  BY <1>1, <1>2, <1>3, AppendJob DEF Job
<1>4. step' = step /\ seen' = seen /\ UNCHANGED fileVars
  BY DEF SaveUserFile, Quit
<1> QED BY <1>1, <1>3, <1>4

LEMMA StepKinds ==
  ASSUME [Next]_vars
  PROVE  \/ ServiceStep
         \/ SaveUserFile \/ Quit
         \/ Exit \/ Crash
         \/ ReadPrimary \/ BackupPrimaryIfNonEmpty \/ WriteMarker \/ WritePrimary \/ WriteMeta
         \/ WriteFails \/ Damage
BY DEF Next, Persist, ServiceStep

LEMMA JobInvNext == TypeOK /\ JobInv /\ [Next]_vars => JobInv'
<1> SUFFICES ASSUME TypeOK, JobInv, [Next]_vars PROVE JobInv'
  OBVIOUS
<1>1. CASE ServiceStep
  BY <1>1, ServiceFrame DEF JobInv, Job, Guarded, fileVars
<1>2. CASE SaveUserFile \/ Quit
  <2>1. step' = step /\ meta' = meta /\ emptied' = emptied
    BY <1>2, EnqueueFrame DEF fileVars
  <2>2. CASE step = "idle"
    BY <2>1, <2>2 DEF JobInv
  <2>3. CASE step # "idle"
    <3>1. queue' # <<>> /\ Job' = Job
      BY <1>2, <2>3, EnqueueFrame DEF JobInv
    <3> QED BY <2>1, <2>3, <3>1 DEF JobInv, Guarded
  <2> QED BY <2>2, <2>3
<1>3. CASE Exit \/ Crash
  BY <1>3 DEF Exit, Crash, Die, JobInv, fileVars
<1>4. CASE ReadPrimary
  <2>1. CASE Guarded(Job)
    BY <1>4, <2>1 DEF ReadPrimary, EndJob, JobInv, fileVars
  <2>2. CASE ~Guarded(Job)
    BY <1>4, <2>2 DEF ReadPrimary, Working, JobInv, fileVars, Job, Guarded
  <2> QED BY <2>1, <2>2
<1>5. CASE BackupPrimaryIfNonEmpty
  <2>1. queue' = queue /\ meta' = meta /\ emptied' = emptied /\ step' = AfterBackup(Job)
    BY <1>5 DEF BackupPrimaryIfNonEmpty
  <2>2. step = "backup"
    BY <1>5 DEF BackupPrimaryIfNonEmpty, Working
  <2> QED BY <2>1, <2>2 DEF AfterBackup, JobInv, Job, Guarded
<1>6. CASE WriteMarker
  BY <1>6 DEF WriteMarker, Working, JobInv, Job, Guarded
<1>7. CASE WritePrimary
  <2>1. CASE Job.users = {}
    BY <1>7, <2>1 DEF WritePrimary, Working, EndJob, JobInv
  <2>2. CASE Job.users # {}
    BY <1>7, <2>2 DEF WritePrimary, Working, JobInv, Job, Guarded
  <2> QED BY <2>1, <2>2
<1>8. CASE WriteMeta
  BY <1>8 DEF WriteMeta, Working, EndJob, JobInv
<1>9. CASE WriteFails
  BY <1>9 DEF WriteFails, FailJob, EndJob, JobInv, fileVars
<1>10. CASE Damage
  BY <1>10 DEF Damage, JobInv, queueVars, Job, Guarded
<1> QED
  BY <1>1, <1>2, <1>3, <1>4, <1>5, <1>6, <1>7, <1>8, <1>9, <1>10, StepKinds

LEMMA JobInvariance == Spec => [](TypeOK /\ JobInv)
<1>1. Init => JobInv
  BY DEF Init, JobInv
<1> QED BY <1>1, JobInvNext, Typing, PTL DEF Spec

\* A deliberately emptied store is not refilled from the backup: wherever the
\* launcher crashes, whichever write fails and however user.json is damaged.
THEOREM RemovalIsFinal == Spec => []RemovalStands
<1>1. JobInv => RemovalStands
  BY DEF JobInv, RemovalStands, FromBackup
<1> QED BY <1>1, JobInvariance, PTL

-----------------------------------------------------------------------------
(* The backup holds what a save replaces, when the save could read it.       *)

KeptInv ==
  /\ step = "backup" /\ HasAccounts(primary) => seen \in {primary, Malformed}
  /\ step \in {"marker", "primary"} /\ HasAccounts(primary)
       => backup = primary \/ seen = Malformed

LEMMA KeptNext == TypeOK /\ JobInv /\ KeptInv /\ [Next]_vars => KeptInv'
<1> SUFFICES ASSUME TypeOK, JobInv, KeptInv, [Next]_vars PROVE KeptInv'
  OBVIOUS
<1>1. CASE ServiceStep
  BY <1>1, ServiceFrame DEF KeptInv, HasAccounts, fileVars
<1>2. CASE SaveUserFile \/ Quit
  BY <1>2, EnqueueFrame DEF KeptInv, HasAccounts, fileVars
<1>3. CASE Exit \/ Crash
  BY <1>3 DEF Exit, Crash, Die, KeptInv
<1>4. CASE ReadPrimary
  <2>1. seen' \in {primary, Malformed}
    BY <1>4 DEF ReadPrimary, EndJob
  <2>2. step' \in {"idle", "backup"} /\ primary' = primary
    BY <1>4 DEF ReadPrimary, EndJob, fileVars
  <2> QED BY <2>1, <2>2 DEF KeptInv
<1>5. CASE BackupPrimaryIfNonEmpty
  <2>1. step' \in {"marker", "primary"} /\ primary' = primary /\ seen' = seen
    BY <1>5 DEF BackupPrimaryIfNonEmpty, AfterBackup
  <2>2. ASSUME HasAccounts(primary) PROVE backup' = primary \/ seen = Malformed
    BY <1>5, <2>2 DEF BackupPrimaryIfNonEmpty, Backed, Working, KeptInv
  <2> QED BY <2>1, <2>2 DEF KeptInv, HasAccounts
<1>6. CASE WriteMarker
  BY <1>6 DEF WriteMarker, Working, KeptInv, HasAccounts
<1>7. CASE WritePrimary \/ WriteMeta \/ WriteFails
  <2>1. step' \in {"idle", "meta"}
    BY <1>7 DEF WritePrimary, WriteMeta, WriteFails, FailJob, EndJob
  <2> QED BY <2>1 DEF KeptInv
<1>8. CASE Damage
  BY <1>8 DEF Damage, Malformed, ForeignEmpty, HasAccounts, KeptInv
<1> QED BY <1>1, <1>2, <1>3, <1>4, <1>5, <1>6, <1>7, <1>8, StepKinds

\* A save that could read user.json and changes accounts on disk has put
\* what they were in the backup first: also between the two writes of two
\* saves, after a failed one and beside a damage.
THEOREM ReplacedIsKept == Spec => ReplacedKept
<1>1. Init => KeptInv
  BY DEF Init, KeptInv
<1>2. KeptInv /\ [Next]_vars
        => ((HasAccounts(primary) /\ seen # Malformed /\ primary'.kind = "own" /\ primary' # primary) => backup = primary)
  <2> SUFFICES ASSUME KeptInv, [Next]_vars, HasAccounts(primary), seen # Malformed,
                      primary'.kind = "own", primary' # primary
               PROVE  backup = primary
    OBVIOUS
  <2>1. CASE WritePrimary
    BY <2>1 DEF WritePrimary, Working, KeptInv
  <2>2. CASE Damage
    BY <2>2 DEF Damage, Malformed, ForeignEmpty
  <2>3. CASE ServiceStep \/ SaveUserFile \/ Quit \/ Exit \/ Crash \/ ReadPrimary
             \/ BackupPrimaryIfNonEmpty \/ WriteMarker \/ WriteMeta \/ WriteFails
    <3>1. primary' = primary
      BY <2>3, ServiceFrame DEF SaveUserFile, Quit, Exit, Crash, Die, ReadPrimary,
         BackupPrimaryIfNonEmpty, WriteMarker, WriteMeta, WriteFails, fileVars
    <3> QED BY <3>1
  <2> QED BY <2>1, <2>2, <2>3, StepKinds
<1>3. Spec => [](TypeOK /\ JobInv /\ KeptInv)
  BY <1>1, KeptNext, JobInvariance, PTL DEF Spec
<1>4. KeptInv /\ [Next]_vars
        => [(HasAccounts(primary) /\ seen # Malformed /\ primary'.kind = "own" /\ primary' # primary) => backup = primary]_vars
  BY <1>2
<1> QED BY <1>3, <1>4, PTL DEF Spec, ReplacedKept

-----------------------------------------------------------------------------
(* Only a removal by the user empties user.json.                            *)

AllByUser(q) == \A i \in 1 .. Len(q) : q[i].intent = "explicit-empty" => q[i].byUser \/ early

\* The flag is set by a removal, and outlives accounts in memory only through
\* the load, which replaces them without a mutation anyone is told of.
FlagInv ==
  /\ app = "down" => ~explicitEmpty
  /\ app = "loading" /\ explicitEmpty => early
  /\ explicitEmpty /\ users = {} => byUser \/ early

LEMMA FlagNext == TypeOK /\ FlagInv /\ [Next]_vars => FlagInv'
<1> SUFFICES ASSUME TypeOK, FlagInv, [Next]_vars PROVE FlagInv'
  OBVIOUS
<1>1. ASSUME UNCHANGED <<app, users, explicitEmpty, byUser, early>> PROVE FlagInv'
  BY <1>1 DEF FlagInv
<1>2. CASE Start
  BY <1>2 DEF Start, FlagInv, memoryVars
<1>3. CASE Load
  <2>1. app = "loading" /\ app' = "running" /\ early' = early /\ (explicitEmpty' => explicitEmpty)
    BY <1>3 DEF Load
  <2> QED BY <2>1 DEF FlagInv
<1>4. ASSUME NEW a \in Accounts, Login(a) \/ SkinUploaded(a) PROVE FlagInv'
  <2>1. users' # {} /\ app' = app /\ early' = early /\ app # "down"
    BY <1>4 DEF Login, SkinUploaded, Mutate, Up
  <2>2. app = "loading" => explicitEmpty' = explicitEmpty
    BY <1>4 DEF Login, SkinUploaded, ResetFlag
  <2> QED BY <2>1, <2>2 DEF FlagInv
<1>5. ASSUME NEW a \in Accounts, RemoveUser(a) PROVE FlagInv'
  <2>1. /\ app' = app /\ app # "down" /\ users' = users \ {a}
        /\ byUser' = (byUser \/ users = {a})
        /\ early' = (early \/ (app = "loading" /\ users = {a}))
    BY <1>5 DEF RemoveUser, Mutate, Up
  <2>2. explicitEmpty' = IF app # "loading" /\ users \ {a} # {} THEN FALSE ELSE (users = {a} \/ explicitEmpty)
    BY <1>5 DEF RemoveUser, ResetFlag, TakesLast
  <2>3. CASE users = {a}
    BY <2>1, <2>2, <2>3 DEF FlagInv
  <2>4. CASE users # {a}
    <3>1. explicitEmpty' => explicitEmpty
      BY <2>2, <2>4 DEF TypeOK
    <3>2. early => early'
      BY <2>1
    <3>3. app = "loading" /\ explicitEmpty' => early'
      BY <3>1, <3>2 DEF FlagInv
    <3>4. ASSUME explicitEmpty', users' = {} PROVE byUser' \/ early'
      <4>1. users = {}
        BY <2>1, <2>4, <3>4 DEF TypeOK
      <4> QED BY <2>1, <3>1, <3>2, <3>4, <4>1 DEF FlagInv
    <3> QED BY <2>1, <3>3, <3>4 DEF FlagInv
  <2> QED BY <2>3, <2>4
<1>6. ASSUME NEW a \in Accounts, RefreshDone(a) PROVE FlagInv'
  <2>1. app' = app /\ app # "down" /\ users' = users /\ byUser' = byUser /\ early' = early
    BY <1>6 DEF RefreshDone, Mutate, Up
  <2>2. explicitEmpty' => explicitEmpty
    BY <1>6 DEF RefreshDone, ResetFlag, TypeOK
  <2> QED BY <2>1, <2>2 DEF FlagInv
<1>7. CASE Quit
  BY <1>7 DEF Quit, FlagInv
<1>8. CASE Exit \/ Crash
  BY <1>8 DEF Exit, Crash, Die, FlagInv
<1>9. ASSUME NEW a \in Accounts, RefreshUser(a) \/ UploadSkin(a) PROVE FlagInv'
  BY <1>1, <1>9 DEF RefreshUser, UploadSkin, memoryVars
<1>10. CASE UserCall
  BY <1>1, <1>4, <1>5, <1>6, <1>9, <1>10 DEF UserCall, SkinRefused, memoryVars
<1>11. CASE SaveUserFile \/ Stopped \/ UNCHANGED vars
  BY <1>1, <1>11 DEF SaveUserFile, Stopped, vars, memoryVars
<1>12. CASE Persist \/ WriteFails \/ Damage
  <2>1. UNCHANGED <<app, memoryVars>>
    BY <1>12 DEF Persist, ReadPrimary, BackupPrimaryIfNonEmpty, WriteMarker, WritePrimary, WriteMeta,
                 WriteFails, Damage, UNCHANGEDService
  <2> QED BY <1>1, <2>1 DEF memoryVars
<1> QED
  BY <1>2, <1>3, <1>7, <1>8, <1>10, <1>11, <1>12 DEF Next

\* In one life of the launcher what came early is not forgotten.
LEMMA EarlyStays ==
  ASSUME TypeOK, [Next]_vars, ~Exit, ~Crash
  PROVE  early => early'
<1>1. CASE Start \/ Load \/ Stopped \/ UNCHANGED vars
  BY <1>1 DEF Start, Load, Stopped, vars, memoryVars
<1>2. CASE UserCall
  BY <1>2 DEF UserCall, Login, RemoveUser, RefreshUser, RefreshDone, UploadSkin, SkinUploaded, SkinRefused, memoryVars
<1>3. CASE SaveUserFile \/ Quit
  BY <1>3 DEF SaveUserFile, Quit
<1>4. CASE Persist \/ WriteFails \/ Damage
  BY <1>4 DEF Persist, ReadPrimary, BackupPrimaryIfNonEmpty, WriteMarker, WritePrimary, WriteMeta,
              WriteFails, Damage, UNCHANGEDService, memoryVars
<1> QED BY <1>1, <1>2, <1>3, <1>4 DEF Next

LEMMA ByUserNext == TypeOK /\ FlagInv /\ AllByUser(queue) /\ [Next]_vars => AllByUser(queue)'
<1> SUFFICES ASSUME TypeOK, FlagInv, AllByUser(queue), [Next]_vars PROVE AllByUser(queue)'
  OBVIOUS
<1>1. queue \in Seq(Jobs)
  BY DEF TypeOK
<1>2. ASSUME queue # <<>> PROVE AllByUser(Tail(queue))
  <2> SUFFICES ASSUME NEW i \in 1 .. Len(Tail(queue)), Tail(queue)[i].intent = "explicit-empty"
               PROVE  Tail(queue)[i].byUser \/ early
    BY DEF AllByUser
  <2>1. i + 1 \in 1 .. Len(queue) /\ Tail(queue)[i] = queue[i + 1]
    BY <1>1, <1>2, TailJob
  <2> QED BY <2>1 DEF AllByUser
<1>3. AllByUser(Append(queue, Snapshot))
  <2>1. Snapshot \in Jobs
    BY SnapshotType
  <2> SUFFICES ASSUME NEW i \in 1 .. Len(Append(queue, Snapshot)),
                      Append(queue, Snapshot)[i].intent = "explicit-empty"
               PROVE  Append(queue, Snapshot)[i].byUser \/ early
    BY DEF AllByUser
  <2>2. CASE i \in 1 .. Len(queue)
    BY <1>1, <2>1, <2>2, AppendJob DEF AllByUser
  <2>3. CASE Append(queue, Snapshot)[i] = Snapshot
    <3>1. Snapshot.intent = "explicit-empty"
      BY <2>3
    <3>2. users = {} /\ explicitEmpty
      BY <3>1 DEF Snapshot
    <3>3. Snapshot.byUser \/ early
      BY <3>2 DEF Snapshot, FlagInv
    <3> QED BY <2>3, <3>3
  <2> QED BY <1>1, <2>1, <2>2, <2>3, AppendJob
<1>4. ASSUME NEW q, queue' = q, AllByUser(q), early => early' PROVE AllByUser(queue)'
  BY <1>4 DEF AllByUser
<1>5. CASE Exit \/ Crash
  <2>1. queue' = <<>>
    BY <1>5 DEF Exit, Crash, Die
  <2> QED BY <2>1, EmptySeq DEF AllByUser
<1>6. CASE ~Exit /\ ~Crash
  <2>1. early => early'
    BY <1>6, EarlyStays
  <2>2. CASE SaveUserFile \/ Quit
    <3>1. queue' = queue \/ queue' = Append(queue, Snapshot)
      BY <2>2, EnqueueFrame
    <3> QED BY <1>3, <1>4, <2>1, <3>1
  <2>3. CASE ReadPrimary \/ BackupPrimaryIfNonEmpty \/ WriteMarker \/ WritePrimary \/ WriteMeta \/ WriteFails
    <3>1. queue' = queue \/ (queue # <<>> /\ queue' = Tail(queue))
      BY <2>3 DEF ReadPrimary, BackupPrimaryIfNonEmpty, WriteMarker, WritePrimary, WriteMeta, WriteFails,
                  Working, EndJob, FailJob
    <3> QED BY <1>2, <1>4, <2>1, <3>1
  <2>4. CASE ServiceStep \/ Damage
    <3>1. queue' = queue
      BY <2>4, ServiceFrame DEF Damage, queueVars
    <3> QED BY <1>4, <2>1, <3>1
  <2> QED BY <1>6, <2>2, <2>3, <2>4, StepKinds
<1> QED BY <1>5, <1>6

\* Accounts vanish from user.json only because removeUser took the last one
\* from memory, before the load was done or since there were any: the startup
\* cleanup and any other automatic empty state leave them.
THEOREM OnlyUserErases == Spec => NoAutomaticErase
<1>1. Init => FlagInv /\ AllByUser(queue)
  <2>1. Init => FlagInv
    BY DEF Init, FlagInv
  <2>2. Init => AllByUser(queue)
    BY EmptySeq DEF Init, AllByUser
  <2> QED BY <2>1, <2>2
<1>2. TypeOK /\ JobInv /\ AllByUser(queue) /\ [Next]_vars
        => (HasAccounts(primary) /\ primary' = File({}) => Job.byUser \/ early)
  <2> SUFFICES ASSUME TypeOK, JobInv, AllByUser(queue), [Next]_vars,
                      HasAccounts(primary), primary' = File({})
               PROVE  Job.byUser \/ early
    OBVIOUS
  <2>1. primary' # primary
    BY DEF HasAccounts, File
  <2>2. CASE WritePrimary
    <3>1. queue # <<>> /\ step = "primary" /\ File(Job.users) = File({})
      BY <2>2 DEF WritePrimary, Working, Written
    <3>2. Job.users = {}
      BY <3>1 DEF File
    <3>3. Job.intent # "automatic"
      BY <3>1, <3>2 DEF JobInv, Guarded
    <3>4. Job = queue[1] /\ 1 \in 1 .. Len(queue) /\ Job \in Jobs
      BY <3>1, TailJob DEF Job, TypeOK
    <3> QED BY <3>3, <3>4 DEF AllByUser, Jobs
  <2>3. CASE Damage
    BY <2>3 DEF Damage, Malformed, ForeignEmpty, File
  <2>4. CASE ServiceStep \/ SaveUserFile \/ Quit \/ Exit \/ Crash \/ ReadPrimary
             \/ BackupPrimaryIfNonEmpty \/ WriteMarker \/ WriteMeta \/ WriteFails
    <3>1. primary' = primary
      BY <2>4, ServiceFrame DEF SaveUserFile, Quit, Exit, Crash, Die, ReadPrimary,
         BackupPrimaryIfNonEmpty, WriteMarker, WriteMeta, WriteFails, fileVars
    <3> QED BY <2>1, <3>1
  <2> QED BY <2>2, <2>3, <2>4, StepKinds
<1>3. Spec => [](TypeOK /\ JobInv /\ FlagInv /\ AllByUser(queue))
  <2>1. TypeOK /\ FlagInv /\ AllByUser(queue) /\ [Next]_vars => FlagInv' /\ AllByUser(queue)'
    BY FlagNext, ByUserNext
  <2> QED BY <1>1, <2>1, JobInvariance, PTL DEF Spec
<1>4. TypeOK /\ JobInv /\ AllByUser(queue) /\ [Next]_vars
        => [HasAccounts(primary) /\ primary' = File({}) => Job.byUser \/ early]_vars
  BY <1>2
<1> QED BY <1>3, <1>4, PTL DEF Spec, NoAutomaticErase

-----------------------------------------------------------------------------
(* The three files are one store, as long as user.json is not damaged: then *)
(* the next start loads what user.json holds, and nothing else.             *)

IntactInv ==
  /\ damages = 0
  /\ HasAccounts(primary) \/ meta = "intentional" \/ ~HasAccounts(backup)
  /\ step = "backup" /\ HasAccounts(seen) => HasAccounts(primary)
  /\ step = "meta" => primary = File(Job.users)

Undamaged == damages > 0 \/ IntactInv

\* The count of damages grows with a damage and with nothing else.
LEMMA DamageStep ==
  ASSUME TypeOK, [Next]_vars
  PROVE  (Damage /\ damages' > 0) \/ (~Damage /\ damages' = damages)
<1>1. ASSUME Damage PROVE damages' > 0
  BY <1>1 DEF Damage, TypeOK
<1>2. ASSUME ~Damage PROVE damages' = damages
  <2>1. ~Damage
    BY <1>2
  <2>2. CASE ServiceStep
    <3>1. CASE Start \/ Load
      BY <2>1, <3>1 DEF Start, Load
    <3>2. CASE UserCall
      BY <2>1, <3>2 DEF UserCall, Login, RemoveUser, RefreshUser, RefreshDone, UploadSkin, SkinUploaded,
                      SkinRefused, counterVars
    <3>3. CASE Stopped \/ UNCHANGED vars
      BY <2>1, <3>3 DEF Stopped, vars, counterVars
    <3> QED BY <2>1, <2>2, <3>1, <3>2, <3>3 DEF ServiceStep
  <2>3. CASE ~ServiceStep
    BY <2>1, <2>3, StepKinds DEF SaveUserFile, Quit, Exit, Crash, Die, ReadPrimary, BackupPrimaryIfNonEmpty,
       WriteMarker, WritePrimary, WriteMeta, WriteFails, counterVars
  <2> QED BY <2>1, <2>2, <2>3
<1> QED BY <1>1, <1>2

LEMMA IntactNext == TypeOK /\ JobInv /\ Undamaged /\ [Next]_vars => Undamaged'
<1> SUFFICES ASSUME TypeOK, JobInv, Undamaged, [Next]_vars, ~(damages' > 0) PROVE IntactInv'
  BY DEF Undamaged
<1>0. damages' = damages /\ ~Damage /\ IntactInv
  BY DamageStep DEF Undamaged
<1> USE <1>0
<1>1. CASE ServiceStep
  BY <1>0, <1>1, ServiceFrame DEF IntactInv, HasAccounts, File, Job, fileVars
<1>2. CASE SaveUserFile \/ Quit
  <2>1. step' = step /\ seen' = seen /\ UNCHANGED fileVars
    BY <1>2, EnqueueFrame
  <2>2. step = "meta" => Job' = Job
    BY <1>2, EnqueueFrame DEF JobInv
  <2> QED BY <1>0, <2>1, <2>2 DEF IntactInv, HasAccounts, File, fileVars
<1>3. CASE Exit \/ Crash
  BY <1>0, <1>3 DEF Exit, Crash, Die, IntactInv, HasAccounts, fileVars
<1>4. CASE ReadPrimary
  <2>1. HasAccounts(seen') => HasAccounts(primary)
    BY <1>4 DEF ReadPrimary, EndJob, Malformed, HasAccounts
  <2>2. step' \in {"idle", "backup"} /\ UNCHANGED <<primary, backup, meta>>
    BY <1>4 DEF ReadPrimary, EndJob, fileVars
  <2> QED BY <1>0, <2>1, <2>2 DEF IntactInv, HasAccounts
<1>5. CASE BackupPrimaryIfNonEmpty
  <2>1. step' \in {"marker", "primary"} /\ primary' = primary /\ meta' = meta
    BY <1>5 DEF BackupPrimaryIfNonEmpty, AfterBackup
  <2>2. CASE HasAccounts(seen)
    <3>1. HasAccounts(primary)
      BY <1>5, <2>2 DEF BackupPrimaryIfNonEmpty, Working, IntactInv
    <3> QED BY <1>0, <2>1, <3>1 DEF IntactInv, HasAccounts
  <2>3. CASE ~HasAccounts(seen)
    <3>1. backup' = backup
      BY <1>5, <2>3 DEF BackupPrimaryIfNonEmpty, Backed
    <3> QED BY <1>0, <2>1, <3>1 DEF IntactInv, HasAccounts
  <2> QED BY <2>2, <2>3
<1>6. CASE WriteMarker
  BY <1>0, <1>6 DEF WriteMarker, IntactInv
<1>7. CASE WritePrimary
  <2>1. primary' = File(Job.users) /\ meta' = meta
    BY <1>7 DEF WritePrimary, Written
  <2>2. CASE Job.users = {}
    <3>1. meta = "intentional" /\ step' = "idle"
      BY <1>7, <2>2 DEF WritePrimary, Working, EndJob, JobInv
    <3> QED BY <1>0, <2>1, <3>1 DEF IntactInv
  <2>3. CASE Job.users # {}
    <3>1. step' = "meta" /\ Job' = Job
      BY <1>7, <2>3 DEF WritePrimary, Job
    <3>2. HasAccounts(primary')
      BY <2>1, <2>3 DEF HasAccounts, File
    <3>3. primary' = File(Job'.users)
      BY <2>1, <3>1
    <3> QED BY <1>0, <3>1, <3>2, <3>3 DEF IntactInv, HasAccounts, File
  <2> QED BY <2>2, <2>3
<1>8. CASE WriteMeta
  <2>1. HasAccounts(primary)
    BY <1>8 DEF WriteMeta, Working, IntactInv, JobInv, HasAccounts, File
  <2> QED BY <1>0, <1>8, <2>1 DEF WriteMeta, EndJob, IntactInv, HasAccounts
<1>9. CASE WriteFails
  BY <1>0, <1>9 DEF WriteFails, FailJob, EndJob, IntactInv, HasAccounts, fileVars
<1> QED BY <1>0, <1>1, <1>2, <1>3, <1>4, <1>5, <1>6, <1>7, <1>8, <1>9, StepKinds

\* What the next start loads is user.json.
LEMMA IntactLoads ==
  ASSUME TypeOK, IntactInv
  PROVE  LoadedUsers = primary.accounts
<1>1. ~FromBackup(primary, backup, meta)
  BY DEF IntactInv, FromBackup
<1> QED BY <1>1 DEF LoadedUsers, LoadedFrom, HasAccounts

\* The accounts of the snapshots, as the store sees the queue.
LEMMA AccountsOfQueue ==
  ASSUME NEW q \in Seq(Jobs)
  PROVE  /\ AccountsOf(q) \in Seq(SUBSET Accounts)
         /\ q = <<>> => AccountsOf(q) = <<>>
         /\ \A j \in Jobs : AccountsOf(Append(q, j)) = Append(AccountsOf(q), j.users)
         /\ q # <<>> => /\ AccountsOf(q) # <<>>
                        /\ Head(AccountsOf(q)) = Head(q).users
                        /\ AccountsOf(Tail(q)) = Tail(AccountsOf(q))
<1>1. Len(q) \in Nat /\ \A i \in 1 .. Len(q) : q[i] \in Jobs /\ q[i].users \in SUBSET Accounts
  <2>1. Len(q) \in Nat
    BY LenProperties
  <2>2. ASSUME NEW i \in 1 .. Len(q) PROVE q[i] \in Jobs /\ q[i].users \in SUBSET Accounts
    <3>1. q[i] \in Jobs
      BY ElementOfSeq
    <3> QED BY <3>1 DEF Jobs
  <2> QED BY <2>1, <2>2
<1>2. AccountsOf(q) \in Seq(SUBSET Accounts) /\ Len(AccountsOf(q)) = Len(q)
      /\ \A i \in 1 .. Len(q) : AccountsOf(q)[i] = q[i].users
  BY <1>1 DEF AccountsOf
<1>3. ASSUME q = <<>> PROVE AccountsOf(q) = <<>>
  BY <1>2, <1>3, EmptySeq, SeqEqual
<1>4. ASSUME NEW j \in Jobs
      PROVE  AccountsOf(Append(q, j)) = Append(AccountsOf(q), j.users)
  <2>1. /\ Append(q, j) \in Seq(Jobs) /\ Len(Append(q, j)) = Len(q) + 1
        /\ \A i \in 1 .. Len(q) : Append(q, j)[i] = q[i]
        /\ Append(q, j)[Len(q) + 1] = j
    BY AppendProperties
  <2>2. j.users \in SUBSET Accounts
    BY DEF Jobs
  <2>3. \A i \in 1 .. Len(Append(q, j)) : Append(q, j)[i].users \in SUBSET Accounts
    BY <1>1, <2>1, <2>2
  <2>4. /\ AccountsOf(Append(q, j)) \in Seq(SUBSET Accounts)
        /\ Len(AccountsOf(Append(q, j))) = Len(q) + 1
        /\ \A i \in 1 .. (Len(q) + 1) : AccountsOf(Append(q, j))[i] = Append(q, j)[i].users
    BY <1>1, <2>1, <2>3 DEF AccountsOf
  <2>5. /\ Append(AccountsOf(q), j.users) \in Seq(SUBSET Accounts)
        /\ Len(Append(AccountsOf(q), j.users)) = Len(q) + 1
        /\ \A i \in 1 .. Len(q) : Append(AccountsOf(q), j.users)[i] = q[i].users
        /\ Append(AccountsOf(q), j.users)[Len(q) + 1] = j.users
    BY <1>2, <2>2, AppendProperties
  <2>6. \A i \in 1 .. (Len(q) + 1) :
          AccountsOf(Append(q, j))[i] = Append(AccountsOf(q), j.users)[i]
    BY <1>1, <2>1, <2>4, <2>5
  <2> QED BY <2>4, <2>5, <2>6, SeqEqual
<1>5. ASSUME q # <<>>
      PROVE  /\ AccountsOf(q) # <<>>
             /\ Head(AccountsOf(q)) = Head(q).users
             /\ AccountsOf(Tail(q)) = Tail(AccountsOf(q))
  <2>1. Len(q) # 0
    BY <1>5, EmptySeq, SeqEqual
  <2>2. AccountsOf(q) # <<>>
    BY <1>2, <2>1, EmptySeq
  <2>3. /\ Tail(q) \in Seq(Jobs) /\ Len(Tail(q)) = Len(q) - 1 /\ Head(q) = q[1]
        /\ \A i \in 1 .. Len(Tail(q)) : Tail(q)[i] = q[i + 1]
    BY <1>5, HeadTailProperties
  <2>4. /\ Tail(AccountsOf(q)) \in Seq(SUBSET Accounts) /\ Len(Tail(AccountsOf(q))) = Len(q) - 1
        /\ Head(AccountsOf(q)) = AccountsOf(q)[1]
        /\ \A i \in 1 .. (Len(q) - 1) : Tail(AccountsOf(q))[i] = AccountsOf(q)[i + 1]
    BY <1>2, <2>2, HeadTailProperties
  <2>5. \A i \in 1 .. (Len(q) - 1) : Tail(q)[i].users = q[i + 1].users /\ q[i + 1].users \in SUBSET Accounts
    BY <1>1, <2>3
  <2>6. /\ AccountsOf(Tail(q)) \in Seq(SUBSET Accounts) /\ Len(AccountsOf(Tail(q))) = Len(q) - 1
        /\ \A i \in 1 .. (Len(q) - 1) : AccountsOf(Tail(q))[i] = Tail(q)[i].users
    BY <1>1, <2>1, <2>3, <2>5 DEF AccountsOf
  <2>7. \A i \in 1 .. (Len(q) - 1) : AccountsOf(Tail(q))[i] = Tail(AccountsOf(q))[i]
    BY <1>1, <1>2, <2>4, <2>5, <2>6
  <2>8. AccountsOf(Tail(q)) = Tail(AccountsOf(q))
    BY <2>4, <2>6, <2>7, SeqEqual
  <2>9. Head(AccountsOf(q)) = Head(q).users
    BY <1>1, <1>2, <2>1, <2>3, <2>4
  <2> QED BY <2>2, <2>8, <2>9
<1> QED BY <1>2, <1>3, <1>4, <1>5

\* How the store moves when user.json and the snapshots do not.
LEMMA StoreStutters ==
  ASSUME TypeOK, IntactInv, IntactInv', TypeOK', UNCHANGED <<primary, Pending>>
  PROVE  UNCHANGED <<LoadedUsers, AccountsOf(Pending)>>
<1>1. LoadedUsers = primary.accounts /\ LoadedUsers' = primary'.accounts
  <2>1. LoadedUsers = primary.accounts
    BY IntactLoads
  <2>2. ~FromBackup(primary, backup, meta)'
    BY DEF IntactInv, FromBackup
  <2>3. LoadedUsers' = primary'.accounts
    BY <2>2 DEF LoadedUsers, LoadedFrom, HasAccounts
  <2> QED BY <2>1, <2>3
<1> QED BY <1>1 DEF AccountsOf

LEMMA StoreStep ==
  /\ TypeOK /\ JobInv /\ Undamaged /\ TypeOK' /\ JobInv' /\ Undamaged' /\ [Next]_vars
  => [Store!Next \/ damages' > 0]_<<LoadedUsers, AccountsOf(Pending)>>
<1> SUFFICES ASSUME TypeOK, JobInv, Undamaged, TypeOK', JobInv', Undamaged', [Next]_vars, ~(damages' > 0)
             PROVE  [Store!Next]_<<LoadedUsers, AccountsOf(Pending)>>
  OBVIOUS
<1>13. IntactInv /\ IntactInv' /\ ~Damage
  BY DamageStep DEF Undamaged
<1> USE <1>13
<1>0. queue \in Seq(Jobs) /\ Pending \in Seq(Jobs)
  <2>1. step = "meta" => queue # <<>>
    BY DEF JobInv
  <2> QED BY <2>1, TailJob DEF Pending, TypeOK
<1>1. LoadedUsers = primary.accounts /\ LoadedUsers' = primary'.accounts
  <2>1. LoadedUsers = primary.accounts
    BY IntactLoads
  <2>2. ~FromBackup(primary, backup, meta)'
    BY DEF IntactInv, FromBackup
  <2>3. LoadedUsers' = primary'.accounts
    BY <2>2 DEF LoadedUsers, LoadedFrom, HasAccounts
  <2> QED BY <2>1, <2>3
<1>2. ASSUME primary' = primary, Pending' = Pending
      PROVE  [Store!Next]_<<LoadedUsers, AccountsOf(Pending)>>
  BY <1>2, StoreStutters
<1>3. ASSUME primary' = primary, Pending # <<>>, Pending' = Tail(Pending)
      PROVE  Store!Drop
  <2>1. AccountsOf(Pending) # <<>> /\ AccountsOf(Tail(Pending)) = Tail(AccountsOf(Pending))
    BY <1>0, <1>3, AccountsOfQueue
  <2>2. AccountsOf(Pending)' = AccountsOf(Tail(Pending))
    BY <1>3 DEF AccountsOf
  <2> QED BY <1>1, <1>3, <2>1, <2>2 DEF Store!Drop
<1>4. CASE ServiceStep
  <2>1. queue' = queue /\ step' = step /\ primary' = primary
    BY <1>4, ServiceFrame DEF fileVars
  <2> QED BY <1>2, <2>1 DEF Pending
<1>5. CASE SaveUserFile \/ Quit
  <2>1. primary' = primary /\ step' = step /\ (queue' = queue \/ queue' = Append(queue, Snapshot))
    BY <1>5, EnqueueFrame DEF fileVars
  <2>2. CASE queue' = queue
    BY <1>2, <2>1, <2>2 DEF Pending
  <2>3. CASE queue' = Append(queue, Snapshot)
    <3>1. Snapshot \in Jobs /\ Snapshot.users \in SUBSET Accounts
      BY SnapshotType DEF Jobs
    <3>2. Pending' = Append(Pending, Snapshot)
      <4>1. CASE step = "meta"
        <5>1. queue # <<>>
          BY <4>1 DEF JobInv
        <5>2. Tail(Append(queue, Snapshot)) = Append(Tail(queue), Snapshot)
          BY <1>0, <3>1, <5>1
        <5> QED BY <2>1, <2>3, <4>1, <5>2 DEF Pending
      <4>2. CASE step # "meta"
        BY <2>1, <2>3, <4>2 DEF Pending
      <4> QED BY <4>1, <4>2
    <3>3. AccountsOf(Append(Pending, Snapshot)) = Append(AccountsOf(Pending), Snapshot.users)
      BY <1>0, <3>1, AccountsOfQueue
    <3>4. AccountsOf(Pending)' = AccountsOf(Append(Pending, Snapshot))
      BY <3>2 DEF AccountsOf
    <3>5. Store!Snapshot
      BY <1>1, <2>1, <3>1, <3>3, <3>4 DEF Store!Snapshot
    <3> QED BY <3>5 DEF Store!Next
  <2> QED BY <2>1, <2>2, <2>3
<1>6. CASE Exit \/ Crash
  <2>1. primary' = primary /\ Pending' = <<>>
    BY <1>6 DEF Exit, Crash, Die, Pending, fileVars
  <2>2. AccountsOf(Pending)' = AccountsOf(<<>>)
    BY <2>1 DEF AccountsOf
  <2>3. AccountsOf(<<>>) = <<>>
    BY AccountsOfQueue, EmptySeq
  <2>4. Store!Crash
    BY <1>1, <2>1, <2>2, <2>3 DEF Store!Crash
  <2> QED BY <2>4 DEF Store!Next
<1>7. CASE ReadPrimary
  <2>1. primary' = primary /\ step = "idle" /\ queue # <<>> /\ Pending = queue
    BY <1>7 DEF ReadPrimary, Working, Pending, fileVars
  <2>2. CASE Guarded(Job)
    <3>1. Pending' = Tail(Pending)
      BY <1>7, <2>1, <2>2 DEF ReadPrimary, EndJob, Pending
    <3> QED BY <1>3, <2>1, <3>1 DEF Store!Next
  <2>3. CASE ~Guarded(Job)
    <3>1. Pending' = Pending
      BY <1>7, <2>1, <2>3 DEF ReadPrimary, Pending
    <3> QED BY <1>2, <2>1, <3>1
  <2> QED BY <2>2, <2>3
<1>8. CASE BackupPrimaryIfNonEmpty \/ WriteMarker
  <2>1. primary' = primary /\ queue' = queue /\ step # "meta" /\ step' # "meta"
    BY <1>8 DEF BackupPrimaryIfNonEmpty, WriteMarker, Working, AfterBackup
  <2> QED BY <1>2, <2>1 DEF Pending
<1>9. CASE WritePrimary
  <2>1. /\ step = "primary" /\ queue # <<>> /\ Pending = queue
        /\ primary' = File(Job.users)
    BY <1>9 DEF WritePrimary, Working, Pending, Written
  <2>2. Pending' = Tail(Pending)
    BY <1>9, <2>1 DEF WritePrimary, EndJob, Pending
  <2>3. /\ AccountsOf(Pending) # <<>>
        /\ Head(AccountsOf(Pending)) = Job.users
        /\ AccountsOf(Tail(Pending)) = Tail(AccountsOf(Pending))
    BY <1>0, <2>1, AccountsOfQueue DEF Job
  <2>4. AccountsOf(Pending)' = AccountsOf(Tail(Pending))
    BY <2>2 DEF AccountsOf
  <2>5. LoadedUsers' = Job.users
    BY <1>1, <2>1 DEF File
  <2>6. Store!Save
    BY <2>3, <2>4, <2>5 DEF Store!Save
  <2> QED BY <2>6 DEF Store!Next
<1>10. CASE WriteMeta
  <2>1. primary' = primary /\ Pending = Tail(queue) /\ Pending' = Tail(queue)
    BY <1>10 DEF WriteMeta, Working, EndJob, Pending
  <2> QED BY <1>2, <2>1
<1>11. CASE WriteFails
  <2>1. primary' = primary /\ queue # <<>> /\ Pending' = Tail(queue)
    BY <1>11 DEF WriteFails, FailJob, EndJob, Pending, fileVars
  <2>2. CASE step = "meta"
    BY <1>2, <2>1, <2>2 DEF Pending
  <2>3. CASE step # "meta"
    BY <1>3, <2>1, <2>3 DEF Pending, Store!Next
  <2> QED BY <2>2, <2>3
<1>12. ~Damage
  OBVIOUS
<1> QED
  BY <1>4, <1>5, <1>6, <1>7, <1>8, <1>9, <1>10, <1>11, <1>12, StepKinds

\* As long as user.json has not been damaged from outside, the launcher's
\* three files are a store that changes from one snapshot to a later one at
\* once, wherever the launcher crashes and whatever write or read fails.
THEOREM AtomicStore == Spec => ImplementsStore
<1>1. Init => IntactInv
  BY DEF Init, IntactInv, Malformed, HasAccounts
<1>2. Init => Store!Init
  <2> SUFFICES ASSUME Init PROVE Store!Init
    OBVIOUS
  <2>1. TypeOK /\ IntactInv
    BY <1>1, TypeInit
  <2>2. LoadedUsers \in SUBSET Accounts
    BY <2>1, IntactLoads DEF TypeOK, Files
  <2>3. Pending = <<>>
    BY DEF Init, Pending
  <2>4. AccountsOf(Pending) = <<>>
    BY <2>3, AccountsOfQueue, EmptySeq
  <2> QED BY <2>2, <2>4 DEF Store!Init
<1>3. Init => Undamaged
  BY <1>1 DEF Undamaged
<1>4. Spec => [](TypeOK /\ JobInv /\ Undamaged)
  BY <1>3, IntactNext, JobInvariance, PTL DEF Spec
<1> QED
  BY <1>2, <1>4, StoreStep, PTL DEF Spec, ImplementsStore

=============================================================================
