---------------------------- MODULE RangedDownload ----------------------------
(***************************************************************************)
(* The controlled path of download() (packages/file-transfer/download.ts): *)
(* a large file is split into byte ranges fetched in parallel on one file  *)
(* descriptor (downloadRanged), a mirror that refuses Range sends the      *)
(* whole file back to a single stream (downloadWithController), and the    *)
(* descriptor is closed, and on failure the file removed, at the end       *)
(* (download).                                                             *)
(*                                                                         *)
(* Each runSegment call is here an abstract segment, whose actions are     *)
(* guarded as its contract SegmentContract says: the loop over URLs and    *)
(* budgets is the subject of SegmentDownload, which implements it.  What   *)
(* is kept of an attempt is what outlives it: fs.write calls that have not *)
(* called back and requests abandoned while still queued.                  *)
(***************************************************************************)
EXTENDS Naturals, FiniteSets

CONSTANTS
  FileSize,        \* size of the file
  ExpectedTotal,   \* the caller's hint, 0 when unknown
  SplitThreshold,  \* controller.rangeSplitThreshold
  Concurrency,     \* controller.rangeConcurrency
  MaxRequests,     \* requests one runSegment makes at most
  RangeRefused,    \* TRUE: mirrors may answer a Range request with a 200
  MaxLost,         \* bound: writes of a segment that fail or are short
  MaxZombies       \* bound: requests abandoned while queued, at one time

ASSUME RangedAssumption ==
  /\ FileSize \in Nat \ {0}
  /\ ExpectedTotal \in {0, FileSize}
  /\ SplitThreshold \in Nat
  /\ Concurrency \in Nat \ {0}
  /\ MaxRequests \in Nat \ {0}
  /\ RangeRefused \in BOOLEAN
  /\ MaxLost \in Nat
  /\ MaxZombies \in Nat

\* Math.ceil(expectedTotal / concurrency)
ChunkSize == (ExpectedTotal + Concurrency - 1) \div Concurrency

\* One chunk for every start below the total.
ChunkCount == IF ChunkSize = 0 THEN 0 ELSE (ExpectedTotal + ChunkSize - 1) \div ChunkSize

Whole == 0                  \* the single stream
Ranges == 1 .. ChunkCount   \* the parallel segments
Segments == {Whole} \cup Ranges
Nobody == ChunkCount + 1    \* whose the writes of a zombie are

Lesser(a, b) == IF a < b THEN a ELSE b

\* First byte of a segment, and the byte after its last.
From(i) == IF i = Whole THEN 0 ELSE (i - 1) * ChunkSize
\* mutant: the inclusive end of the code read as exclusive
UntilExclusive(i) == IF i = Whole THEN FileSize
                     ELSE Lesser(ExpectedTotal, From(i) + ChunkSize) - 1
Until(i) == IF i = Whole THEN FileSize
            ELSE Lesser(ExpectedTotal, From(i) + ChunkSize)

Bytes == 0 .. (FileSize - 1)
Span(lo, hi) == lo .. (hi - 1)

VARIABLES
  phase,      \* where download() is
  result,     \* how it will end: "ok" or "error", decided before the close
  signalled,  \* the caller's AbortSignal fired
  cancelled,  \* the internal AbortController of downloadRanged fired
  fd,         \* "open" or "closed"
  file,       \* "present", "removed", or "stuck" when it could not be removed
  seg,        \* outcome of each runSegment call
  next,       \* offset each call has reached
  conn,       \* connection of the call's current attempt
  tries,      \* requests the call made
  writes,     \* fs.write calls a waiting handler has pending: <<segment, byte>>
  strays,     \* pending fs.write calls nobody waits for: <<segment or Nobody, byte>>
  lost,       \* history: writes of a segment that failed or were short
  zombies,    \* requests given up before they connected: <<segment, offset, state>>
  disk        \* bytes in the file

callVars == <<seg, next, conn, tries>>
vars == <<phase, result, signalled, cancelled, fd, file, callVars, writes, strays, lost, zombies, disk>>

Phase == {"opened", "ranged", "truncating", "single", "closing", "unlinking", "returned"}
SegmentEnd == {"done", "failed", "rangeRejected", "aborted"}

TypeOK ==
  /\ phase \in Phase
  /\ result \in {"pending", "ok", "error"}
  /\ signalled \in BOOLEAN /\ cancelled \in BOOLEAN
  /\ fd \in {"open", "closed"} /\ file \in {"present", "removed", "stuck"}
  /\ seg \in [Segments -> {"unstarted", "running"} \cup SegmentEnd]
  /\ next \in [Segments -> 0 .. FileSize]
  /\ conn \in [Segments -> {"idle", "queued", "open"}]
  /\ tries \in [Segments -> 0 .. MaxRequests]
  /\ writes \subseteq Segments \X Bytes
  /\ strays \subseteq (Segments \cup {Nobody}) \X Bytes
  /\ lost \subseteq Segments \X Bytes
  /\ zombies \subseteq Segments \X (0 .. FileSize) \X {"queued", "open"}
  /\ disk \subseteq Bytes

Init ==
  /\ phase = "opened" /\ result = "pending"
  /\ signalled = FALSE /\ cancelled = FALSE
  /\ fd = "open" /\ file = "present"
  /\ seg = [i \in Segments |-> "unstarted"]
  /\ next = [i \in Segments |-> From(i)]
  /\ conn = [i \in Segments |-> "idle"]
  /\ tries = [i \in Segments |-> 0]
  /\ writes = {} /\ strays = {} /\ lost = {} /\ zombies = {} /\ disk = {}

-----------------------------------------------------------------------------
(* download() and downloadWithController. *)

MustSplit == ExpectedTotal >= SplitThreshold /\ Concurrency > 1

\* The check after openFd, then the choice between split and single stream.
\* Splitting nothing is Promise.all of no call at all, which resolves.
Begin ==
  /\ phase = "opened"
  /\ IF signalled
     THEN phase' = "closing" /\ result' = "error" /\ UNCHANGED seg
     ELSE IF ~MustSplit
     THEN /\ phase' = "single" /\ UNCHANGED result
          /\ seg' = [seg EXCEPT ![Whole] = "running"]
     ELSE IF Ranges # {}
     THEN /\ phase' = "ranged" /\ UNCHANGED result
          /\ seg' = [i \in Segments |-> IF i \in Ranges THEN "running" ELSE seg[i]]
     ELSE phase' = "closing" /\ result' = "ok" /\ UNCHANGED seg
  /\ UNCHANGED <<signalled, cancelled, fd, file, next, conn, tries, writes, strays,
                 lost, zombies, disk>>

\* ftruncate(fd, 0) has run, or failed unseen: the whole file again, as a
\* single stream.
Truncated ==
  /\ phase = "truncating"
  /\ disk' \in {{}, disk}
  /\ phase' = "single"
  /\ seg' = [seg EXCEPT ![Whole] = "running"]
  /\ UNCHANGED <<result, signalled, cancelled, fd, file, next, conn, tries, writes, strays,
                 lost, zombies>>

\* Writes that are still to come fail on the closed descriptor, and nobody is
\* told: from here on they are left out.
Close ==
  /\ phase = "closing"
  /\ fd' = "closed"
  /\ strays' = {} /\ zombies' = {}
  /\ phase' = IF result = "ok" THEN "returned" ELSE "unlinking"
  /\ UNCHANGED <<result, signalled, cancelled, file, callVars, writes, lost, disk>>

\* A failure to remove the file is swallowed.
Unlink ==
  /\ phase = "unlinking"
  /\ file' \in {"removed", "stuck"}
  /\ phase' = "returned"
  /\ UNCHANGED <<result, signalled, cancelled, fd, callVars, writes, strays, lost, zombies, disk>>

-----------------------------------------------------------------------------
(* A runSegment call. *)

Active(i) == seg[i] = "running" /\ phase \in {"ranged", "single"}

Request(i) ==
  /\ Active(i) /\ conn[i] = "idle"
  /\ tries[i] < MaxRequests
  /\ conn' = [conn EXCEPT ![i] = "queued"]
  /\ tries' = [tries EXCEPT ![i] = @ + 1]
  /\ UNCHANGED <<phase, result, signalled, cancelled, fd, file, seg, next, writes, strays, lost,
                 zombies, disk>>

\* One byte per step; offsets are those of the Content-Range.
Receive(i) ==
  /\ Active(i) /\ conn[i] = "open"
  /\ next[i] < Until(i)
  /\ writes' = writes \cup {<<i, next[i]>>}
  /\ next' = [next EXCEPT ![i] = @ + 1]
  /\ UNCHANGED <<phase, result, signalled, cancelled, fd, file, seg, conn, tries, strays, lost, zombies, disk>>

SiblingsOf(i) == {j \in Segments \ {i} : seg[j] = "running"}

\* The calls that end when i ends this way.  Promise.all settles on the first
\* rejection, whose handler cancels the siblings in the same turn: their
\* listeners reject, open connections are aborted, queued ones refused.
EndingAlone(i, how) == {i}  \* mutant: the siblings are not cancelled
Ending(i, how) == {i} \cup IF how = "done" THEN {} ELSE SiblingsOf(i)

\* Handlers that settle stop waiting for their writes.
Release(gone) ==
  /\ conn' = [j \in Segments |-> IF j \in gone THEN "idle" ELSE conn[j]]
  /\ writes' = {w \in writes : w[1] \notin gone}

\* The writes of these handlers, nobody's business from here on.
Left(gone) == {w \in writes : w[1] \in gone}

\* When a call ends otherwise than done, what it and its siblings wrote, still
\* write or lost counts for nothing any more.
Disown(gone) ==
  /\ strays' = {<<Nobody, w[2]>> : w \in strays \cup Left(gone)}
  /\ lost' = {}

CallEnds(i, how) ==
  /\ Release(Ending(i, how))
  /\ IF how = "done" THEN UNCHANGED <<strays, lost>> ELSE Disown(Ending(i, how))
  /\ seg' = [j \in Segments |->
               IF j = i THEN how ELSE IF j \in Ending(i, how) THEN "aborted" ELSE seg[j]]
  /\ cancelled' = (cancelled \/ (phase = "ranged" /\ how # "done"))
  /\ \/ /\ how = "done" /\ SiblingsOf(i) # {}
        /\ UNCHANGED <<phase, result>>
     \/ /\ how = "done" /\ SiblingsOf(i) = {}
        /\ phase' = "closing" /\ result' = "ok"
     \/ /\ how = "rangeRejected"
        /\ phase' = "truncating" /\ UNCHANGED result
     \/ /\ how \in {"failed", "aborted"}
        /\ phase' = "closing" /\ result' = "error"
  /\ UNCHANGED <<signalled, fd, file, next, tries, disk>>

\* Rejecting the handler's promise calls the abort function onConnect stored;
\* before onConnect there is none, and the TTFB timer, which runs since the
\* handler was built, leaves the queued request with the dispatcher.
LeftQueued(i) ==
  IF conn[i] = "queued" /\ Cardinality(zombies) < MaxZombies
  THEN {<<i, next[i], "queued">>} ELSE {}

\* runSegment goes on to its next request, unless its signal has fired; failed
\* is the write that ended the attempt, if it was one.
AttemptEnds(i, failed) ==
  IF signalled
  THEN CallEnds(i, "aborted")
  ELSE /\ Release({i})
       /\ strays' = strays \cup (Left({i}) \ failed)
       /\ lost' = lost \cup failed
       /\ UNCHANGED <<phase, result, signalled, cancelled, fd, file, seg, next, tries, disk>>

\* A managed abort, or an attempt the network or the mirror failed.
GiveUpAttempt(i) ==
  /\ Active(i) /\ conn[i] # "idle"
  /\ \E left \in {{}, LeftQueued(i)} : zombies' = zombies \cup left
  /\ AttemptEnds(i, {})

\* mutant: the length of a completed response is not checked
SucceedShort(i) ==
  /\ Active(i) /\ conn[i] = "open"
  /\ \A w \in writes : w[1] # i
  /\ CallEnds(i, "done")
  /\ UNCHANGED zombies

\* The attempt completes and the writes of its handler have called back.
Succeed(i) ==
  /\ Active(i) /\ conn[i] = "open"
  /\ next[i] = Until(i)
  /\ \A w \in writes : w[1] # i
  /\ CallEnds(i, "done")
  /\ UNCHANGED zombies

\* Every URL failed.
Exhausted(i) ==
  /\ Active(i) /\ conn[i] = "idle" /\ tries[i] > 0
  /\ CallEnds(i, "failed")
  /\ UNCHANGED zombies

\* A 200, or a 206 that starts elsewhere, for a range.
RefuseRange(i) ==
  /\ RangeRefused
  /\ Active(i) /\ conn[i] = "open" /\ i \in Ranges
  /\ CallEnds(i, "rangeRejected")
  /\ UNCHANGED zombies

\* onConnect refuses a request whose signal has fired.
Connect(i) ==
  /\ Active(i) /\ conn[i] = "queued"
  /\ UNCHANGED zombies
  /\ IF signalled
     THEN CallEnds(i, "aborted")
     ELSE /\ conn' = [conn EXCEPT ![i] = "open"]
          /\ UNCHANGED <<phase, result, signalled, cancelled, fd, file, seg, next,
                         tries, writes, strays, lost, disk>>

\* The caller's signal: seen at once where handlers listen, by the check
\* after openFd, or by the next onConnect after the truncation.
UserAbort ==
  /\ ~signalled /\ phase \in {"opened", "ranged", "truncating", "single"}
  /\ signalled' = TRUE
  /\ UNCHANGED <<fd, file, next, tries, zombies, disk>>
  /\ IF phase \in {"ranged", "single"}
     THEN /\ seg' = [i \in Segments |-> IF seg[i] = "running" THEN "aborted" ELSE seg[i]]
          /\ Release(Segments) /\ Disown(Segments)
          /\ cancelled' = (cancelled \/ phase = "ranged")
          /\ phase' = "closing" /\ result' = "error"
     ELSE UNCHANGED <<phase, result, cancelled, seg, conn, writes, strays, lost>>

-----------------------------------------------------------------------------
(* What outlives an attempt. *)

\* An fs.write runs; after the close it fails, and nobody is told.
Land(b) == disk' = IF fd = "open" THEN disk \cup {b} ELSE disk

WriteLands(w) ==
  /\ w \in writes
  /\ writes' = writes \ {w}
  /\ Land(w[2])
  /\ UNCHANGED <<phase, result, signalled, cancelled, fd, file, callVars, strays, lost, zombies>>

\* The handler of w takes fewer bytes written than it asked for as written.
WriteShort(w) ==
  /\ Cardinality(lost) < MaxLost
  /\ w \in writes
  /\ writes' = writes \ {w}
  /\ lost' = lost \cup {w}
  /\ UNCHANGED <<phase, result, signalled, cancelled, fd, file, callVars, strays, zombies, disk>>

\* An error rejects the handler: its attempt ends, and the next one resumes
\* from the position, past the bytes that were not written.
WriteFails(w) ==
  /\ Cardinality(lost) < MaxLost
  /\ w \in writes /\ Active(w[1])
  /\ AttemptEnds(w[1], {w})
  /\ UNCHANGED zombies

StrayLands(w) ==
  /\ w \in strays
  /\ strays' = strays \ {w}
  /\ Land(w[2])
  /\ UNCHANGED <<phase, result, signalled, cancelled, fd, file, callVars, writes, lost, zombies>>

\* The error rejects a handler that has settled: nobody is told.
StrayFails(w) ==
  /\ Cardinality(lost) < MaxLost
  /\ w \in strays
  /\ strays' = strays \ {w}
  /\ lost' = lost \cup ({w} \ ({Nobody} \X Bytes))
  /\ UNCHANGED <<phase, result, signalled, cancelled, fd, file, callVars, writes, zombies, disk>>

\* The signal an attempt of segment i was dispatched with.
SignalFired(i) == IF i = Whole THEN signalled ELSE cancelled

\* The socket takes up a request abandoned while queued: onConnect stores an
\* abort function nobody will call again.
ZombieConnects(z) ==
  /\ z \in zombies /\ z[3] = "queued"
  /\ zombies' = (zombies \ {z}) \cup
                 (IF SignalFired(z[1]) THEN {} ELSE {<<z[1], z[2], "open">>})
  /\ UNCHANGED <<phase, result, signalled, cancelled, fd, file, callVars, writes, strays, lost, disk>>

\* It streams into the descriptor it was given.
ZombieWrites(z) ==
  /\ z \in zombies /\ z[3] = "open" /\ z[2] < Until(z[1])
  /\ zombies' = (zombies \ {z}) \cup {<<z[1], z[2] + 1, "open">>}
  /\ strays' = strays \cup {<<Nobody, z[2]>>}
  /\ UNCHANGED <<phase, result, signalled, cancelled, fd, file, callVars, writes, lost, disk>>

ZombieEnds(z) ==
  /\ z \in zombies
  /\ zombies' = zombies \ {z}
  /\ UNCHANGED <<phase, result, signalled, cancelled, fd, file, callVars, writes, strays, lost, disk>>

Finished ==
  /\ phase = "returned"
  /\ UNCHANGED vars

-----------------------------------------------------------------------------
Orchestrate == Begin \/ Truncated \/ Close \/ Unlink

\* Until it ends, a call always has one of these to take.
Advance(i) ==
  \/ Request(i) \/ Connect(i) \/ Receive(i) \/ GiveUpAttempt(i)
  \/ Succeed(i) \/ Exhausted(i) \/ RefuseRange(i)

Stray ==
  \/ \E w \in strays : StrayLands(w) \/ StrayFails(w)
  \/ \E z \in zombies : ZombieConnects(z) \/ ZombieWrites(z) \/ ZombieEnds(z)

Next ==
  \/ Orchestrate
  \/ \E i \in Segments : Advance(i)
  \/ \E w \in writes : WriteLands(w) \/ WriteShort(w) \/ WriteFails(w)
  \/ UserAbort
  \/ Stray
  \/ Finished

Spec == Init /\ [][Next]_vars

-----------------------------------------------------------------------------
(* Properties. *)

\* What a call handed to fs.write is in the file, on its way there, or lost.
Backed(i) == disk \cup {w[2] : w \in {v \in writes \cup strays \cup lost : v[1] = i}}

\* The calls a normal return stands on.
Relied == IF seg[Whole] = "done" THEN {Whole} ELSE Ranges

\* The ranges of downloadRanged tile the file: when download() has decided to
\* return normally every byte is on disk, or a call that succeeded has its
\* fs.write in progress, or lost it to an fs.write that failed - also when a
\* refused range made it truncate the file and start over while writes of the
\* cancelled segments were still landing.
FileComplete ==
  result = "ok" /\ fd = "open" => Bytes \subseteq UNION {Backed(i) : i \in Relied}

\* "one chunk's terminal failure cancels its siblings" (download.ts:312-313):
\* no segment runs once download() is past the parallel phase, so none can
\* write under the single stream or after the close.
SiblingsCancelled ==
  /\ \A i \in Ranges : seg[i] = "running" => phase = "ranged"
  /\ seg[Whole] = "running" => phase = "single" /\ \A i \in Ranges : conn[i] = "idle"
  /\ fd = "closed" => \A i \in Segments : conn[i] = "idle"

-----------------------------------------------------------------------------
(* The contract of download(). *)

State == CASE phase = "returned" /\ result = "ok" -> "returned"
           [] phase = "returned" /\ result # "ok" -> "thrown"
           [] phase # "returned" /\ result = "ok" -> "complete"
           [] phase # "returned" /\ result = "error" -> "giving up"
           [] OTHER -> "working"

\* While it works, the bytes the calls of the present phase handed over count.
Held == CASE result = "ok" -> Bytes
          [] result = "error" -> {}
          [] OTHER -> IF phase = "single" THEN Span(0, next[Whole])
                      ELSE UNION {Span(From(i), next[i]) : i \in Ranges}

Download == INSTANCE DownloadContract
  WITH Content <- Bytes, state <- State, held <- Held

\* The controlled path is a run of the contract: it returns only when the calls
\* it stands on handed over every byte, and otherwise throws, the file removed.
ImplementsDownload == Download!Spec

-----------------------------------------------------------------------------
(* What comments promise and the code does not do. *)

\* rangeSplitThreshold: "`0` disables splitting" (controller.ts:123-129): with
\* it a successful download was made by the single stream.
ZeroDisablesSplitting ==
  SplitThreshold = 0 /\ result = "ok" => seg[Whole] = "done"

\* A call resumes "from the bytes already written" (download.ts:243-244), so that
\* a normal return leaves every byte on disk.  It resumes behind writes that were
\* only issued: one of an attempt that was given up may fail, or be pending when
\* the descriptor is closed.
CompleteOnReturn == phase = "returned" /\ result = "ok" => Bytes \subseteq disk

\* "Rejecting the resolver triggers the undici abort wired up in the base
\* FileHandler constructor" (controlled_handler.ts:305-307): a request whose
\* handler was rejected does not go on to stream.
RejectedMeansAborted == \A z \in zombies : z[3] # "open"

=============================================================================
