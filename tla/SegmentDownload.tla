--------------------------- MODULE SegmentDownload ---------------------------
(***************************************************************************)
(* One call of runSegment (packages/file-transfer/download.ts): a byte     *)
(* range of a file, or the whole file, fetched over one resumable          *)
(* connection at a time.  The loop over the fallback URLs, the             *)
(* ControlledFileHandler of the current attempt and the fs.write calls it  *)
(* has issued are one state machine, because the loop reads the handler's  *)
(* position while those writes may still be running.                       *)
(*                                                                         *)
(* The program is a single event loop: a verdict on an attempt (a rejected *)
(* or resolved `resolvers` promise) and the iteration of the loop it       *)
(* causes run in one turn, so each verdict is one action.                  *)
(*                                                                         *)
(* A byte is its offset in the file.  An fs.write call is the set of bytes *)
(* it was given, a mirror is trusted to serve the right content for an     *)
(* offset (downloads are content addressed, download.ts:243-245) but not   *)
(* to honour Range or to deliver all it announced.                         *)
(*                                                                         *)
(* A request that is given up while the dispatcher still queues it has no  *)
(* abort function yet (file_handler.ts:31): it is a stray that connects    *)
(* and streams later, beside the call, which no longer waits for it.       *)
(***************************************************************************)
EXTENDS Naturals, FiniteSets

CONSTANTS
  NUrls,          \* number of candidate URLs, tried in order
  Reassignable,   \* the URLs of a distributed CDN: abortable, re-rollable
  MaxResumes,     \* controller.maxResumes
  MaxNoProgress,  \* controller.maxNoProgressRerolls
  FileSize,       \* size of the file every mirror serves
  Segmented,      \* TRUE: a segment of the file, FALSE: a whole-file stream
  Start, End,     \* the bytes asked for are Start .. End - 1
  ExpectedTotal,  \* the caller's size hint, 0 when unknown
  MirrorFaults,   \* what mirrors may do wrong, a subset of MirrorFault
  DiskFaults,     \* what fs.write may do wrong, a subset of DiskFault
  MaxStrays       \* bound: strays at one time

MirrorFault == {"ignoresRange", "wrongStart", "short", "unsized"}
DiskFault == {"error", "short"}

ASSUME SegmentAssumption ==
  /\ NUrls \in Nat \ {0}
  /\ Reassignable \subseteq 1 .. NUrls
  /\ MaxResumes \in Nat
  /\ MaxNoProgress \in Nat
  /\ FileSize \in Nat
  /\ Start \in Nat
  /\ End \in Nat
  /\ Start < End
  /\ End <= FileSize
  /\ Segmented \in BOOLEAN
  /\ ~Segmented => Start = 0 /\ End = FileSize
  /\ ExpectedTotal \in {0, FileSize}
  /\ MirrorFaults \subseteq MirrorFault
  /\ DiskFaults \subseteq DiskFault
  /\ MaxStrays \in Nat

VARIABLES
  pc,            \* where runSegment is: iterating, awaiting, or how it ended
  urlIndex,      \* 1-based; NUrls + 1 once the loop runs off the list
  resumeOffset, resumes, noProgress, committed, lastError,
  signalled,     \* the caller's AbortSignal fired before the first attempt
  link,          \* the current attempt's connection
  url,           \* the URL it was dispatched to (ops.origin)
  start, position, total,   \* the handler's fields of the same names
  limit,         \* end of the body the mirror will deliver on it
  inflight,      \* its fs.write calls without a callback yet (`pending`)
  orphans,       \* the same of attempts already given up
  disk,          \* bytes on disk
  lost,          \* history: bytes of an fs.write call that failed or was short
  strays,        \* requests given up before onConnect, and what became of them
  strayed,       \* history: the bytes strays handed to fs.write
  attempts       \* history: requests dispatched so far, saturating

loopVars == <<urlIndex, resumeOffset, resumes, noProgress, committed, lastError>>
connVars == <<link, url, start, position, total, limit>>
diskVars == <<inflight, orphans, disk, lost>>
strayVars == <<strays, strayed>>
vars == <<pc, loopVars, signalled, connVars, diskVars, strayVars, attempts>>

Final == {"done", "failed", "rangeRejected", "aborted"}
LinkPhase == {"idle", "connecting", "open", "body", "ended"}
Cause == {"none", "slow", "ttfb", "stall", "short", "http", "network", "disk"}
Bytes == 0 .. (FileSize - 1)
Span(lo, hi) == lo .. (hi - 1)
Larger(a, b) == IF a > b THEN a ELSE b

\* A stray asked for the bytes from next on; once it streams, next is its
\* position and limit the end of its body.
StrayRequest == [link : {"queued", "body"}, next : 0 .. FileSize, limit : 0 .. FileSize]

\* Most requests one call can make: the re-roll budget is shared by all
\* URLs, each URL adds its no-progress tries and one committed attempt.
AttemptBound == MaxResumes + NUrls * (MaxNoProgress + 2)

LoopTypeOK ==
  /\ pc \in {"select", "await"} \cup Final
  /\ urlIndex \in 1 .. (NUrls + 1)
  /\ resumeOffset \in Start .. FileSize
  /\ resumes \in 0 .. MaxResumes
  /\ noProgress \in 0 .. MaxNoProgress
  /\ committed \in BOOLEAN
  /\ lastError \in Cause

ConnTypeOK ==
  /\ link \in LinkPhase
  /\ url \in 0 .. NUrls
  /\ start \in 0 .. FileSize
  /\ position \in start .. FileSize
  /\ limit \in position .. FileSize
  /\ total \in 0 .. FileSize

DiskTypeOK ==
  /\ inflight \subseteq SUBSET Bytes
  /\ orphans \subseteq SUBSET Bytes
  /\ disk \subseteq Bytes
  /\ lost \subseteq Bytes

StrayTypeOK == strays \subseteq StrayRequest /\ strayed \subseteq Bytes

TypeOK ==
  /\ LoopTypeOK
  /\ ConnTypeOK
  /\ DiskTypeOK
  /\ StrayTypeOK
  /\ signalled \in BOOLEAN
  /\ attempts \in 0 .. (AttemptBound + 1)

Init ==
  /\ pc = "select"
  /\ urlIndex = 1
  /\ resumeOffset = Start
  /\ resumes = 0
  /\ noProgress = 0
  /\ committed = FALSE
  /\ lastError = "none"
  /\ signalled = FALSE
  /\ link = "idle"
  /\ url = 0
  /\ start = 0 /\ position = 0 /\ total = 0 /\ limit = 0
  /\ inflight = {} /\ orphans = {} /\ disk = {} /\ lost = {}
  /\ strays = {} /\ strayed = {}
  /\ attempts = 0

-----------------------------------------------------------------------------
(* The head of the loop. *)

\* The breaker of the controller may skip a re-assignable URL, never the last.
MaySkipAny == urlIndex \in Reassignable  \* mutant: the last resort is skipped too
MaySkip == urlIndex < NUrls /\ urlIndex \in Reassignable

SkipUrl ==
  /\ pc = "select"
  /\ urlIndex <= NUrls
  /\ MaySkip
  /\ urlIndex' = urlIndex + 1
  /\ UNCHANGED <<pc, resumeOffset, resumes, noProgress, committed, lastError,
                 signalled, connVars, diskVars, strayVars, attempts>>

\* new ControlledFileHandler + dispatcher.dispatch: a fresh position.
Dispatch ==
  /\ pc = "select"
  /\ urlIndex <= NUrls
  /\ pc' = "await"
  /\ link' = "connecting"
  /\ url' = urlIndex
  /\ start' = 0 /\ position' = 0 /\ limit' = 0
  /\ total' = IF Segmented THEN End - Start ELSE ExpectedTotal
  /\ attempts' = IF attempts <= AttemptBound THEN attempts + 1 ELSE attempts
  /\ UNCHANGED <<loopVars, signalled, diskVars, strayVars>>

RunOffList ==
  /\ pc = "select"
  /\ urlIndex > NUrls
  /\ pc' = "failed"
  /\ UNCHANGED <<loopVars, signalled, connVars, diskVars, strayVars, attempts>>

-----------------------------------------------------------------------------
(* The tail of the loop: what an attempt's verdict does to its state. *)

CarryLatest == position  \* mutant: an attempt without bytes rewinds the offset
Carry == Larger(resumeOffset, position)

\* mutant: a spent budget does not commit, the same URL is re-rolled for ever
AfterSlowForever ==
  /\ pc' = "select"
  /\ resumeOffset' = Carry
  /\ lastError' = "slow"
  /\ IF resumes < MaxResumes THEN resumes' = resumes + 1 ELSE UNCHANGED resumes
  /\ UNCHANGED <<urlIndex, noProgress, committed>>

\* Speed abort: re-roll while the budget lasts, then commit to finishing.
AfterSlow ==
  /\ pc' = "select"
  /\ resumeOffset' = Carry
  /\ lastError' = "slow"
  /\ resumes' = IF resumes < MaxResumes THEN resumes + 1 ELSE resumes
  /\ committed' = (committed \/ resumes >= MaxResumes)
  /\ UNCHANGED <<urlIndex, noProgress>>

\* mutant: the tries start over on the same URL
AfterNoProgressStuck(reason) ==
  /\ pc' = "select"
  /\ resumeOffset' = Carry
  /\ lastError' = reason
  /\ noProgress' = IF noProgress < MaxNoProgress THEN noProgress + 1 ELSE 0
  /\ UNCHANGED <<urlIndex, resumes, committed>>

\* No byte arrived: a few fresh tries, then the next URL.
AfterNoProgress(reason) ==
  /\ pc' = "select"
  /\ resumeOffset' = Carry
  /\ lastError' = reason
  /\ noProgress' = IF noProgress < MaxNoProgress THEN noProgress + 1 ELSE 0
  /\ urlIndex' = IF noProgress < MaxNoProgress THEN urlIndex ELSE urlIndex + 1
  /\ committed' = (committed /\ noProgress < MaxNoProgress)
  /\ UNCHANGED resumes

\* A failed attempt: the controller may ask for a re-roll of the same URL.
AfterFailure(cause, reroll) ==
  /\ pc' = "select"
  /\ resumeOffset' = Carry
  /\ lastError' = cause
  /\ IF reroll /\ resumes < MaxResumes
     THEN resumes' = resumes + 1 /\ UNCHANGED urlIndex
     ELSE urlIndex' = urlIndex + 1 /\ UNCHANGED resumes
  /\ UNCHANGED <<noProgress, committed>>

\* A response that ended short of the target is resumed, or given up.
AfterShort ==
  /\ pc' = "select"
  /\ resumeOffset' = Carry
  /\ IF resumes < MaxResumes
     THEN resumes' = resumes + 1 /\ UNCHANGED <<urlIndex, lastError>>
     ELSE urlIndex' = urlIndex + 1 /\ lastError' = "short" /\ UNCHANGED resumes
  /\ UNCHANGED <<noProgress, committed>>

TargetLastByte == IF Segmented THEN End - 1 ELSE total  \* mutant: end taken as exclusive
Target == IF Segmented THEN End ELSE total

AfterSuccessUnchecked == pc' = "done" /\ UNCHANGED loopVars  \* mutant: a completed response is believed
AfterSuccess ==
  IF Target > 0 /\ position < Target
  THEN AfterShort
  ELSE pc' = "done" /\ UNCHANGED loopVars

\* throwIfAborted comes before any verdict on an error.
Aborted == pc' = "aborted" /\ UNCHANGED loopVars

\* The handler settles: nobody waits for its running writes any more.
Release ==
  /\ link' = "idle"
  /\ orphans' = orphans \cup inflight
  /\ inflight' = {}
  /\ UNCHANGED <<url, start, position, total, limit, disk, lost>>

Rerolls == IF url \in Reassignable THEN BOOLEAN ELSE {FALSE}

-----------------------------------------------------------------------------
(* The connection. *)

Connect ==
  /\ pc = "await" /\ link = "connecting"
  /\ IF signalled
     THEN Release /\ Aborted
     ELSE /\ link' = "open"
          /\ UNCHANGED <<pc, loopVars, url, start, position, total, limit, diskVars>>
  /\ UNCHANGED <<signalled, strayVars, attempts>>

\* HTTP status >= 400, or a 206 without Content-Range.
ErrorResponse ==
  /\ pc = "await" /\ link = "open"
  /\ \E reroll \in Rerolls : AfterFailure("http", reroll)
  /\ Release
  /\ UNCHANGED <<signalled, strayVars, attempts>>

\* A total the headers carry replaces the hint of a whole-file stream.
LearnTotal(sized) ==
  total' = IF ~Segmented /\ sized THEN FileSize ELSE total

\* Whether the header says how long the file is (Content-Length, or a
\* Content-Range total other than *).
Sizes == IF "unsized" \in MirrorFaults THEN BOOLEAN ELSE {TRUE}

\* A range that is not the one the segment asked for is refused.
MisplacedIgnored(s) == FALSE  \* mutant: the start is not compared
Misplaced(s) == Segmented /\ s # resumeOffset

\* Asked for the bytes from offset on, a mirror may answer with s .. l - 1.
Partial(offset, s, l) ==
  /\ Segmented \/ offset > 0
  /\ offset < End \/ "wrongStart" \in MirrorFaults
  /\ s = offset \/ "wrongStart" \in MirrorFaults
  /\ s < l
  /\ l >= End \/ "short" \in MirrorFaults

\* Or with all of it, of which the first l bytes come.
Full(offset, l, sized) ==
  /\ (~Segmented /\ offset = 0) \/ "ignoresRange" \in MirrorFaults
  /\ l = FileSize \/ ("short" \in MirrorFaults /\ ~sized)

\* 206 whose Content-Range starts at s and whose body ends before l.
PartialResponse(s, l, sized) ==
  /\ pc = "await" /\ link = "open"
  /\ Partial(resumeOffset, s, l)
  /\ start' = s /\ position' = s
  /\ IF Misplaced(s)
     THEN /\ pc' = "rangeRejected"
          /\ link' = "idle" /\ limit' = s
          /\ UNCHANGED total
     ELSE /\ link' = "body" /\ limit' = l
          /\ LearnTotal(sized)
          /\ UNCHANGED pc
  /\ UNCHANGED <<loopVars, signalled, url, diskVars, strayVars, attempts>>

\* 200 with the whole file, announced or (chunked) not; the position stays
\* where a new handler has it, at 0.
FullResponse(l, sized) ==
  /\ pc = "await" /\ link = "open"
  /\ Full(resumeOffset, l, sized)
  /\ start' = 0 /\ position' = 0
  /\ IF Segmented
     THEN /\ pc' = "rangeRejected"
          /\ link' = "idle" /\ limit' = 0
          /\ UNCHANGED total
     ELSE /\ link' = "body" /\ limit' = l
          /\ LearnTotal(sized)
          /\ UNCHANGED pc
  /\ UNCHANGED <<loopVars, signalled, url, diskVars, strayVars, attempts>>

\* onData: the write is issued and the position moves on at once.
Data(n) ==
  /\ pc = "await" /\ link = "body"
  /\ position + n <= limit
  /\ inflight' = inflight \cup {Span(position, position + n)}
  /\ position' = position + n
  /\ UNCHANGED <<pc, loopVars, signalled, link, url, start, total, limit,
                 orphans, disk, lost, strayVars, attempts>>

\* onComplete: success only when no write is pending (checkTermination).
Complete ==
  /\ pc = "await" /\ link = "body"
  /\ position = limit
  /\ IF inflight = {}
     THEN Release /\ AfterSuccess
     ELSE /\ link' = "ended"
          /\ UNCHANGED <<pc, loopVars, url, start, position, total, limit, diskVars>>
  /\ UNCHANGED <<signalled, strayVars, attempts>>

\* onError: connect, header or body timeout of the dispatcher, a reset, ...
NetworkError ==
  /\ pc = "await" /\ link \in {"connecting", "open", "body"}
  /\ Release
  /\ IF signalled
     THEN Aborted
     ELSE \E reroll \in Rerolls : AfterFailure("network", reroll)
  /\ UNCHANGED <<signalled, strayVars, attempts>>

FirstByteSeen == link = "body" /\ position > start

\* The rejection finds no abort function before onConnect has stored one.
LeavesStray ==
  /\ Cardinality(strays) < MaxStrays
  /\ strays' = strays \cup {[link |-> "queued", next |-> resumeOffset, limit |-> 0]}
  /\ UNCHANGED strayed

\* The TTFB timer runs from construction, also while the request queues.
TtfbAbort ==
  /\ pc = "await" /\ link \in {"connecting", "open", "body"}
  /\ ~FirstByteSeen
  /\ url \in Reassignable
  /\ Release
  /\ IF signalled THEN Aborted ELSE AfterNoProgress("ttfb")
  /\ IF link = "connecting" THEN LeavesStray ELSE UNCHANGED strayVars
  /\ UNCHANGED <<signalled, attempts>>

\* sample(): no byte for stallTimeout, watched even when committed.
StallAbort ==
  /\ pc = "await" /\ FirstByteSeen
  /\ url \in Reassignable
  /\ Release
  /\ AfterNoProgress("stall")
  /\ UNCHANGED <<signalled, strayVars, attempts>>

\* sample(): the controller gives up a slow mirror of a re-assignable URL.
SlowAbort ==
  /\ pc = "await" /\ FirstByteSeen
  /\ url \in Reassignable
  /\ ~committed
  /\ Release
  /\ AfterSlow
  /\ UNCHANGED <<signalled, strayVars, attempts>>

\* The caller's AbortSignal, seen by a listener once a handler exists.
UserAbort ==
  /\ UNCHANGED <<loopVars, strayVars, attempts>>
  /\ \/ /\ pc = "select" /\ attempts = 0 /\ urlIndex = 1 /\ ~signalled
        /\ signalled' = TRUE
        /\ UNCHANGED <<pc, connVars, diskVars>>
     \/ /\ pc = "await" /\ ~signalled
        /\ pc' = "aborted"
        /\ Release
        /\ UNCHANGED signalled

-----------------------------------------------------------------------------
(* fs.write callbacks, of the current handler and of abandoned ones. *)

\* The last callback after onComplete settles the attempt.
Settled(c) == link = "ended" /\ inflight = {c}

CallBack(c, written) ==
  /\ pc = "await" /\ c \in inflight
  /\ disk' = disk \cup written /\ lost' = lost \cup (c \ written)
  /\ inflight' = inflight \ {c}
  /\ UNCHANGED <<orphans, url, start, position, total, limit, signalled, strayVars, attempts>>
  /\ IF Settled(c)
     THEN link' = "idle" /\ AfterSuccess
     ELSE UNCHANGED <<pc, loopVars, link>>

WriteDone(c) == CallBack(c, c)

\* fewer bytes written than asked, which onWritten does not look at
ShortWrite(c, part) ==
  "short" \in DiskFaults /\ CallBack(c, part)

WriteError(c) ==
  /\ "error" \in DiskFaults
  /\ pc = "await" /\ c \in inflight
  /\ orphans' = orphans \cup (inflight \ {c})
  /\ inflight' = {}
  /\ link' = "idle"
  /\ \E reroll \in Rerolls : AfterFailure("disk", reroll)
  /\ lost' = lost \cup c
  /\ UNCHANGED <<disk, url, start, position, total, limit, signalled, strayVars, attempts>>

\* The rejection of a settled promise is lost, and with it the bytes.
OrphanCallBack(c, written) ==
  /\ c \in orphans
  /\ orphans' = orphans \ {c}
  /\ disk' = disk \cup written /\ lost' = lost \cup (c \ written)
  /\ UNCHANGED <<pc, loopVars, signalled, connVars, inflight, strayVars, attempts>>

OrphanDone(c) == OrphanCallBack(c, c)

OrphanFault(c) == DiskFaults # {} /\ OrphanCallBack(c, {})

-----------------------------------------------------------------------------
(* Strays. *)

\* onConnect aborts a request whose signal has fired; a segment refuses what
\* it did not ask for, and its handler takes no byte of it.
StrayAnswered(r, s, l) ==
  /\ r \in strays /\ r.link = "queued"
  /\ ~signalled /\ pc # "aborted"
  /\ \/ Partial(r.next, s, l) /\ (Segmented => s = r.next)
     \/ ~Segmented /\ s = 0 /\ \E sized \in Sizes : Full(r.next, l, sized)
  /\ strays' = (strays \ {r}) \cup {[link |-> "body", next |-> s, limit |-> l]}
  /\ UNCHANGED <<pc, loopVars, signalled, connVars, diskVars, strayed, attempts>>

\* It writes the bytes of the file at their offsets, as the call does.
StrayData(r, n) ==
  /\ r \in strays /\ r.link = "body"
  /\ r.next + n <= r.limit
  /\ strays' = (strays \ {r}) \cup {[r EXCEPT !.next = r.next + n]}
  /\ strayed' = strayed \cup Span(r.next, r.next + n)
  /\ UNCHANGED <<pc, loopVars, signalled, connVars, diskVars, attempts>>

\* It completes, fails, is refused or is stopped at onConnect.
StrayEnds(r) ==
  /\ r \in strays
  /\ strays' = strays \ {r}
  /\ UNCHANGED <<pc, loopVars, signalled, connVars, diskVars, strayed, attempts>>

Finished ==
  /\ pc \in Final
  /\ UNCHANGED vars

-----------------------------------------------------------------------------
Iterate == SkipUrl \/ Dispatch \/ RunOffList

Response ==
  \/ ErrorResponse
  \/ \E s \in 0 .. (FileSize - 1), l \in 1 .. FileSize, sized \in Sizes :
        PartialResponse(s, l, sized)
  \/ \E l \in 1 .. FileSize, sized \in Sizes : FullResponse(l, sized)

Transfer == \/ \E n \in 1 .. FileSize : Data(n)
            \/ Complete

LinkStep == Connect \/ Response \/ Transfer \/ NetworkError

ManagedAbort == TtfbAbort \/ StallAbort \/ SlowAbort

DiskStep ==
  \/ \E c \in inflight :
        \/ WriteDone(c)
        \/ \E k \in c : ShortWrite(c, {b \in c : b <= k})
        \/ WriteError(c)
  \/ \E c \in orphans : OrphanDone(c) \/ OrphanFault(c)

StrayStep ==
  \E r \in strays :
     \/ \E s \in 0 .. (FileSize - 1), l \in 1 .. FileSize : StrayAnswered(r, s, l)
     \/ \E n \in 1 .. FileSize : StrayData(r, n)
     \/ StrayEnds(r)

Next ==
  \/ Iterate \/ LinkStep \/ ManagedAbort \/ UserAbort \/ DiskStep \/ StrayStep
  \/ Finished

Spec == Init /\ [][Next]_vars

\* The loop runs to its next await in one turn; the dispatcher's own
\* timeouts end a connection that does not progress (connect, headers and
\* body timeouts, with or without a controller); fs.write calls back.  No
\* fairness for the managed aborts, as no timer has to fire for termination,
\* nor for strays, which the call does not wait for.
Fairness ==
  /\ WF_vars(Iterate)
  /\ WF_vars(LinkStep)
  /\ WF_vars(DiskStep)

FairSpec == Spec /\ Fairness

-----------------------------------------------------------------------------
(* Properties. *)

Accounted == disk \cup (UNION inflight) \cup (UNION orphans) \cup lost

\* "a silent gap that corrupts the file" (download.ts:441-447): when the
\* call succeeds, every byte it was asked for has been written or is being
\* written, unless an fs.write call of it failed.
NoSilentGap == pc = "done" => Span(Start, End) \subseteq disk \cup (UNION orphans) \cup lost

\* The same, also when writes fail: the code does not keep this.
NoGapOnWriteError == pc = "done" => Span(Start, End) \subseteq disk \cup (UNION orphans)

\* "resuming from the bytes already written" (download.ts:243-245): bytes
\* below the resume offset, which no later request asks for, have all been
\* handed to fs.write.
ResumeBacked == Span(Start, resumeOffset) \subseteq Accounted

\* "Bounds worst-case rerolls" (controller.ts:95-99): however verdicts, skips
\* and fallbacks interleave, a call never makes more requests than its budgets.
AttemptsBounded == attempts <= AttemptBound

\* "never skip the last remaining URL (it is the last resort)"
\* (download.ts:391-393) and "a slow-but-working connection is never a hard
\* failure" (485-487): the call fails only after the last URL was tried, and
\* with the error of an attempt that was not given up for its speed.
LastResortTried == pc = "failed" => url = NUrls /\ lastError \notin {"none", "slow"}

\* "we never re-download bytes already on disk" (download.ts:471-472): unless
\* a mirror of a whole-file stream disregards Range, no byte that an attempt of
\* the call wrote or is writing is received again by a later attempt, by
\* whatever route the earlier one ended.  Strays are not covered: what they
\* bring is received a second time (NoRefetchByStrays).
NoRefetch ==
  [][ Segmented \/ MirrorFaults \cap {"ignoresRange", "wrongStart"} = {}
      => \A c \in inflight' \ inflight : c \cap Accounted = {} ]_vars

\* Every call ends, whatever the mirrors do, by the dispatcher's timeouts.
Terminates == <>(pc \in Final)

-----------------------------------------------------------------------------
(* The contract the callers rely on. *)

Outcome == IF pc \in Final THEN pc ELSE "running"

Contract == INSTANCE SegmentContract
  WITH Wanted <- Span(Start, End), FileBytes <- Bytes, MaxRequests <- AttemptBound,
       outcome <- Outcome, held <- Accounted, requests <- attempts

\* Every run of the segment is a run of the contract: bytes handed over are
\* never taken back, requests stay within the bound, success only with all
\* bytes.
ImplementsContract == Contract!Spec

-----------------------------------------------------------------------------
(* What comments promise and the code does not do. *)

\* "a managed abort must never be the terminal failure once the re-roll
\* budget is spent" (controlled_handler.ts:37-39).
ManagedAbortNeverTerminal ==
  pc = "failed" /\ resumes = MaxResumes => lastError \notin {"slow", "ttfb", "stall"}

\* noAbort: "ignore the controller's speed-based abort and the TTFB deadline"
\* (controlled_handler.ts:37-38): a committed attempt is not given up for TTFB.
CommittedIgnoresTtfb ==
  [][ lastError' = "ttfb" /\ lastError # "ttfb" => ~committed ]_vars

\* "we never re-download bytes already on disk" (download.ts:471-472): what an
\* attempt wrote is not received again by a request that was given up before it.
NoRefetchByStrays ==
  [][ Segmented => (strayed' \ strayed) \cap Accounted = {} ]_vars

\* maxResumes: "Maximum number of managed aborts before `download` stops
\* resuming and surfaces the underlying failure" (controller.ts:95-97).
BudgetSpentSurfaces ==
  [][ pc = "await" /\ resumes = MaxResumes /\ lastError' = "slow" /\ lastError # "slow"
      => pc' = "failed" ]_vars

=============================================================================
