---------------------------- MODULE ClassicDownload ----------------------------
(***************************************************************************)
(* The classic path of download() (packages/file-transfer/download.ts): no *)
(* controller.  For each URL in turn a RangeRequestHandler asks for the    *)
(* first RangeThreshold bytes; when its response shows that more follows   *)
(* it requests the rest as child ranges, all writing to one descriptor.    *)
(* The URL has succeeded when the parent and every child have.  The first  *)
(* of them to fail makes the loop go on - to a restart of the URL from     *)
(* byte 0 or to the next URL - and is the only one whose connection is     *)
(* aborted: the others run on beside the new attempt.                      *)
(*                                                                         *)
(* Mirrors serve the same content under every URL; a byte is its offset.   *)
(***************************************************************************)
EXTENDS RangePolicy, FiniteSets

CONSTANTS
  NUrls,          \* number of URLs
  FileSize,       \* size of the file
  ExpectedTotal,  \* the caller's hint, 0 when unknown
  MirrorFaults,   \* what mirrors may do wrong, a subset of MirrorFault
  DiskFaults      \* what the disk may do wrong, a subset of DiskFault

\* "misplaced": a 206 for another range than the one asked for; "short": a 206
\* that ends before it, or a body that completes before its own end.
MirrorFault == {"ignoresRange", "unsized", "misplaced", "short"}
\* "error": fs.write reports an error; "short": it writes less than asked;
\* "stuck": ftruncate and unlink fail, and the code swallows it.
DiskFault == {"error", "short", "stuck"}

ASSUME ClassicAssumption ==
  /\ NUrls \in Nat \ {0}
  /\ FileSize \in Nat \ {0}
  /\ ExpectedTotal \in {0, FileSize}
  /\ MirrorFaults \subseteq MirrorFault
  /\ DiskFaults \subseteq DiskFault

VARIABLES
  phase,      \* where download() is
  result,     \* "ok" or "error" once decided, before the close
  signalled,  \* the caller's AbortSignal fired
  urlIndex,   \* the URL being tried
  restarted,  \* restartedForRangeRetry
  errors,     \* number of errors collected
  handler,    \* the handlers of the current attempt: 0 the parent, 1.. children
  stale,      \* where handlers of failed attempts are that nobody aborted
  strays,     \* pending fs.write calls, by byte, nobody waits for
  missing,    \* history: bytes the current attempt takes for received, which its
              \* responses did not bring or its writes did not write
  fd,
  file,       \* "present", "removed", or "stuck" when it could not be removed
  disk

loopVars == <<urlIndex, restarted, errors>>
fileVars == <<fd, file>>
vars == <<phase, result, signalled, loopVars, handler, stale, strays, missing, fileVars, disk>>

Bytes == 0 .. (FileSize - 1)
Parent == 0
MaxChildren == LET n == (FileSize - 1) \div RangeThreshold IN IF n > 1 THEN n ELSE 1
Handlers == 0 .. MaxChildren
Lesser(a, b) == IF a < b THEN a ELSE b
Span(lo, hi) == lo .. (hi - 1)

\* A FileHandler: the range it asked for, where its body is, its pending writes.
Handler == [link : {"absent", "queued", "open", "body", "ended", "settled"},
            first : 0 .. FileSize, last : -1 .. (FileSize - 1),
            position : 0 .. FileSize, limit : 0 .. FileSize, writes : SUBSET Bytes]

Asking(first, last) ==
  [link |-> "queued", first |-> first, last |-> last, position |-> 0, limit |-> 0, writes |-> {}]
Absent == [Asking(0, 0) EXCEPT !.link = "absent"]

TypeOK ==
  /\ phase \in {"opened", "transfer", "truncating", "closing", "unlinking", "returned"}
  /\ result \in {"pending", "ok", "error"}
  /\ signalled \in BOOLEAN /\ restarted \in BOOLEAN
  /\ urlIndex \in 1 .. NUrls /\ errors \in 0 .. NUrls
  /\ handler \in [Handlers -> Handler]
  /\ stale \subseteq {"queued", "open"}
  /\ strays \subseteq Bytes /\ missing \subseteq Bytes /\ disk \subseteq Bytes
  /\ fd \in {"open", "closed"} /\ file \in {"present", "removed", "stuck"}

Nobody == [i \in Handlers |-> Absent]

\* new RangeRequestHandler + dispatcher.dispatch.
FreshAttempt ==
  [Nobody EXCEPT ![Parent] = Asking(0, Lesser(RangeThreshold, FileSize) - 1)]

Init ==
  /\ phase = "opened" /\ result = "pending" /\ signalled = FALSE
  /\ urlIndex = 1 /\ restarted = FALSE /\ errors = 0
  /\ handler = Nobody /\ stale = {} /\ strays = {} /\ missing = {}
  /\ fd = "open" /\ file = "present" /\ disk = {}

-----------------------------------------------------------------------------
(* download(): the loop, the descriptor, the file. *)

Begin ==
  /\ phase = "opened"
  /\ IF signalled
     THEN phase' = "closing" /\ result' = "error" /\ UNCHANGED handler
     ELSE phase' = "transfer" /\ handler' = FreshAttempt /\ UNCHANGED result
  /\ UNCHANGED <<signalled, loopVars, stale, strays, missing, fileVars, disk>>

\* ftruncate(fd, 0) has run, or failed unseen; the same URL again, without a
\* Range header.
Truncated ==
  /\ phase = "truncating"
  /\ phase' = "transfer"
  /\ disk' \in IF "stuck" \in DiskFaults THEN {{}, disk} ELSE {{}}
  /\ handler' = FreshAttempt
  /\ UNCHANGED <<result, signalled, loopVars, stale, strays, missing, fileVars>>

Close ==
  /\ phase = "closing"
  /\ fd' = "closed"
  /\ phase' = IF result = "ok" THEN "returned" ELSE "unlinking"
  /\ UNCHANGED <<result, signalled, loopVars, handler, stale, strays, missing, file, disk>>

UnlinkForgotten ==  \* mutant: the partial file is left behind
  /\ phase = "unlinking" /\ phase' = "returned"
  /\ UNCHANGED <<result, signalled, loopVars, handler, stale, strays, missing, fileVars, disk>>

\* A failure to remove the file is swallowed.
Unlink ==
  /\ phase = "unlinking"
  /\ file' \in IF "stuck" \in DiskFaults THEN {"removed", "stuck"} ELSE {"removed"}
  /\ phase' = "returned"
  /\ UNCHANGED <<result, signalled, loopVars, handler, stale, strays, missing, fd, disk>>

\* Handlers that run on when the attempt fails because of handler i.
LeftBehind(i) ==
  {IF handler[j].link = "queued" THEN "queued" ELSE "open" :
     j \in {k \in Handlers \ {i} : handler[k].link \in {"queued", "open", "body"}}}

PendingWrites == UNION {handler[j].writes : j \in Handlers}

\* mutant: every range-retry failure restarts the URL
MayRestartAlways == TRUE
MayRestart == ~restarted

\* mutant: a URL that fails after its restart ends the call
LastUrlOrRestarted == urlIndex = NUrls \/ restarted
LastUrl == urlIndex = NUrls

\* Handler i is the first of its attempt to fail: wait() rejects and the loop
\* goes on in the same turn.
FailAttempt(i, rangeRetry) ==
  /\ missing' = {}
  /\ stale' = stale \cup LeftBehind(i)
  /\ strays' = strays \cup PendingWrites
  /\ \/ /\ signalled
        /\ handler' = Nobody
        /\ phase' = "closing" /\ result' = "error"
        /\ UNCHANGED loopVars
     \/ /\ ~signalled /\ rangeRetry /\ MayRestart
        /\ handler' = Nobody
        /\ phase' = "truncating" /\ restarted' = TRUE
        /\ UNCHANGED <<result, urlIndex, errors>>
     \/ /\ ~signalled /\ ~(rangeRetry /\ MayRestart)
        /\ errors' = errors + 1
        /\ IF LastUrl
           THEN /\ phase' = "closing" /\ result' = "error"
                /\ handler' = Nobody
                /\ UNCHANGED <<urlIndex, restarted>>
           ELSE /\ urlIndex' = urlIndex + 1 /\ restarted' = FALSE
                /\ handler' = FreshAttempt
                /\ UNCHANGED <<phase, result>>

ParentSettled(h) == h[Parent].link = "settled"  \* mutant: wait() forgets the children
AllSettled(h) == \A i \in Handlers : h[i].link \in {"absent", "settled"}

\* h is what the handlers become; wait() resolves when the last one settles.
HandlersBecome(h) ==
  /\ handler' = h
  /\ IF AllSettled(h)
     THEN phase' = "closing" /\ result' = "ok" /\ errors' = 0
     ELSE UNCHANGED <<phase, result, errors>>
  /\ UNCHANGED <<urlIndex, restarted>>

-----------------------------------------------------------------------------
(* One handler of the current attempt. *)

Active(i, links) == phase = "transfer" /\ handler[i].link \in links
UNCHANGEDRest == UNCHANGED <<signalled, fileVars>>

Connect(i) ==
  /\ Active(i, {"queued"})
  /\ IF signalled
     THEN FailAttempt(i, FALSE)
     ELSE /\ handler' = [handler EXCEPT ![i].link = "open"]
          /\ UNCHANGED <<phase, result, loopVars, stale, strays, missing>>
  /\ UNCHANGED disk /\ UNCHANGEDRest

AsksRange(i) == i # Parent \/ (ExpectedTotal > RangeThreshold /\ ~restarted)
Valid(r) == r.first <= r.last /\ r.first < FileSize

\* The first byte of what a request asks for, and the byte after its last.
Asked(r) == <<r.first, Lesser(r.last + 1, FileSize)>>

\* The body a 206 announces in its Content-Range, which FileHandler follows and
\* does not compare with the request.
Bodies(r) ==
  {b \in (0 .. (FileSize - 1)) \X (1 .. FileSize) :
     /\ b[1] < b[2]
     /\ \/ b = Asked(r)
        \/ "short" \in MirrorFaults /\ b[1] = r.first /\ b[2] < Asked(r)[2]
        \/ "misplaced" \in MirrorFaults}

\* Where the body b really ends.
Ends(b) == IF "short" \in MirrorFaults THEN b[1] .. b[2] ELSE {b[2]}

Streaming(r, first, end) == [r EXCEPT !.link = "body", !.position = first, !.limit = end]

\* A 200 has the whole file; its total is its length, so no child is needed.
MayAnswerWhole(i, r) == ~AsksRange(i) \/ ~Valid(r) \/ "ignoresRange" \in MirrorFaults

FullResponse(i) ==
  /\ Active(i, {"open"})
  /\ MayAnswerWhole(i, handler[i])
  /\ \E end \in Ends(<<0, FileSize>>) :
       /\ handler' = [handler EXCEPT ![i] = Streaming(@, 0, end)]
       /\ missing' = missing \cup Span(end, FileSize)
  /\ UNCHANGED <<phase, result, loopVars, stale, strays, disk>> /\ UNCHANGEDRest

\* onHeaderParsed of the parent: the ranges to request besides its body b.
ChildRanges(b, total) ==
  IF total = b[2] - b[1] THEN <<>> ELSE RangesOf(b[2], total - 1)

\* What nobody asks for once handler i has the body b: the parent's children
\* start where its body ends, a child gets no second request.
Skipped(i, r, b) ==
  IF i = Parent THEN Span(0, b[1]) ELSE Span(Asked(r)[1], Asked(r)[2]) \ Span(b[1], b[2])

PartialResponse(i, total) ==
  /\ Active(i, {"open"})
  /\ AsksRange(i) /\ Valid(handler[i])
  /\ total = FileSize \/ (total = 0 /\ "unsized" \in MirrorFaults)
  /\ \E b \in Bodies(handler[i]) : \E end \in Ends(b) :
       LET pieces == IF i = Parent THEN ChildRanges(b, total) ELSE <<>>
       IN  /\ handler' = [j \in Handlers |->
                IF j = i THEN Streaming(handler[i], b[1], end)
                ELSE IF j \in DOMAIN pieces THEN Asking(pieces[j].start, pieces[j].end)
                ELSE handler[j]]
           /\ missing' = missing \cup Skipped(i, handler[i], b) \cup Span(end, b[2])
  /\ UNCHANGED <<phase, result, loopVars, stale, strays, disk>> /\ UNCHANGEDRest

\* Status >= 400, or a 206 without Content-Range.
ErrorResponse(i) ==
  /\ Active(i, {"open"})
  /\ FailAttempt(i, FALSE)
  /\ UNCHANGED disk /\ UNCHANGEDRest

\* onData: one byte per write.
Data(i) ==
  /\ Active(i, {"body"})
  /\ LET r == handler[i]
     IN  /\ r.position < r.limit
         /\ handler' = [handler EXCEPT ![i].position = @ + 1,
                                       ![i].writes = @ \cup {r.position}]
  /\ UNCHANGED <<phase, result, loopVars, stale, strays, missing, disk>> /\ UNCHANGEDRest

Complete(i) ==
  /\ Active(i, {"body"})
  /\ handler[i].position = handler[i].limit
  /\ HandlersBecome([handler EXCEPT ![i].link =
       IF handler[i].writes = {} THEN "settled" ELSE "ended"])
  /\ UNCHANGED <<stale, strays, missing, disk>> /\ UNCHANGEDRest

\* A network failure; mid-body it may be the retry interceptor's verdict that
\* the mirror cannot resume (isRangeRetryError).
NetworkError(i, rangeRetry) ==
  /\ Active(i, {"queued", "open", "body"})
  /\ rangeRetry => handler[i].link = "body"
  /\ FailAttempt(i, rangeRetry)
  /\ UNCHANGED disk /\ UNCHANGEDRest

\* The last write to call back settles a handler whose response has completed.
Settle(i, b) ==
  HandlersBecome([handler EXCEPT ![i].writes = @ \ {b},
    ![i].link = IF @ = "ended" /\ handler[i].writes = {b} THEN "settled" ELSE @])

WriteDone(i, b) ==
  /\ Active(i, {"body", "ended"})
  /\ b \in handler[i].writes
  /\ disk' = disk \cup {b}
  /\ Settle(i, b)
  /\ UNCHANGED <<stale, strays, missing>> /\ UNCHANGEDRest

\* fs.write called back with fewer bytes than it was given: nobody compares.
WriteShort(i, b) ==
  /\ "short" \in DiskFaults
  /\ Active(i, {"body", "ended"})
  /\ b \in handler[i].writes
  /\ missing' = missing \cup {b}
  /\ Settle(i, b)
  /\ UNCHANGED <<stale, strays, disk>> /\ UNCHANGEDRest

WriteError(i, b) ==
  /\ "error" \in DiskFaults
  /\ Active(i, {"body", "ended"})
  /\ b \in handler[i].writes
  /\ FailAttempt(i, FALSE)
  /\ UNCHANGED disk /\ UNCHANGEDRest

-----------------------------------------------------------------------------
(* What runs on after its attempt failed, also after download() returned. *)

\* After the close a write fails, and nobody is told.
StrayLands(b) ==
  /\ b \in strays
  /\ strays' = strays \ {b}
  /\ disk' = IF fd = "open" THEN disk \cup {b} ELSE disk
  /\ UNCHANGED <<phase, result, loopVars, handler, stale, missing>> /\ UNCHANGEDRest

StrayFails(b) ==
  /\ DiskFaults # {}
  /\ b \in strays
  /\ strays' = strays \ {b}
  /\ UNCHANGED <<phase, result, loopVars, handler, stale, missing, disk>> /\ UNCHANGEDRest

\* One of those that are queued connects, or is refused.
StaleConnects ==
  /\ "queued" \in stale
  /\ \E others \in {stale, stale \ {"queued"}} :
       stale' = others \cup IF signalled THEN {} ELSE {"open"}
  /\ UNCHANGED <<phase, result, loopVars, handler, strays, missing, disk>> /\ UNCHANGEDRest

\* One of those that are open writes: which bytes, no response is held to.
StaleData(b) ==
  /\ "open" \in stale
  /\ strays' = strays \cup {b}
  /\ UNCHANGED <<phase, result, loopVars, handler, stale, missing, disk>> /\ UNCHANGEDRest

\* The last of those at k ends.
StaleEnds(k) ==
  /\ k \in stale
  /\ stale' = stale \ {k}
  /\ UNCHANGED <<phase, result, loopVars, handler, strays, missing, disk>> /\ UNCHANGEDRest

\* mutant: only the handlers the loop still waits for are told
UserAbortCurrent ==
  /\ ~signalled /\ signalled' = TRUE
  /\ IF phase = "transfer"
     THEN /\ handler' = Nobody
          /\ strays' = strays \cup PendingWrites
          /\ phase' = "closing" /\ result' = "error"
     ELSE UNCHANGED <<handler, strays, phase, result>>
  /\ UNCHANGED <<loopVars, missing, fileVars, stale, disk>>

\* The listener of every handler rejects it, which aborts its connection; a
\* handler that is not connected yet is refused when it is.
UserAbort ==
  /\ ~signalled /\ signalled' = TRUE /\ phase # "returned"
  /\ stale' = (stale \cup LeftBehind(-1)) \cap {"queued"}
  /\ IF phase = "transfer"
     THEN /\ handler' = Nobody
          /\ strays' = strays \cup PendingWrites
          /\ phase' = "closing" /\ result' = "error"
     ELSE UNCHANGED <<handler, strays, phase, result>>
  /\ UNCHANGED <<loopVars, missing, fileVars, disk>>

Finished == phase = "returned" /\ UNCHANGED vars

-----------------------------------------------------------------------------
Orchestrate == Begin \/ Truncated \/ Close \/ Unlink

\* A connection in progress always has one of these to take.
Advance(i) ==
  \/ Connect(i)
  \/ FullResponse(i)
  \/ \E total \in {0, FileSize} : PartialResponse(i, total)
  \/ ErrorResponse(i)
  \/ Data(i)
  \/ Complete(i)
  \/ \E rangeRetry \in BOOLEAN : NetworkError(i, rangeRetry)

CallBack(i) ==
  \E b \in handler[i].writes : WriteDone(i, b) \/ WriteShort(i, b) \/ WriteError(i, b)

\* Followed until download() returns; it goes on after that.
Leftover ==
  /\ phase # "returned"
  /\ \/ \E b \in strays : StrayLands(b) \/ StrayFails(b)
     \/ StaleConnects
     \/ \E b \in Bytes : StaleData(b)
     \/ \E k \in stale : StaleEnds(k)

Next ==
  \/ Orchestrate
  \/ \E i \in Handlers : Advance(i) \/ CallBack(i)
  \/ UserAbort
  \/ Leftover
  \/ Finished

Spec == Init /\ [][Next]_vars

\* File operations and fs.write calls complete, and the dispatcher's timeouts
\* end a connection that does not progress.
FairSpec ==
  /\ Spec
  /\ WF_vars(Orchestrate)
  /\ \A i \in Handlers : WF_vars(Advance(i)) /\ WF_vars(CallBack(i))

-----------------------------------------------------------------------------
(* Properties. *)

\* A download that returns normally has every byte on disk, but for those that
\* a response it trusted or a write it did not check kept from it - although the
\* rest of the file is split from the first response, and writes of handlers that
\* failed attempts left running land before, during and after the truncation and
\* beside the new attempt.
FileOnDisk == result = "ok" => Bytes \subseteq disk \cup missing

\* "The first URL is tried; on failure the next is attempted"
\* (file-transfer/README.md): without an abort the call only fails once every
\* URL has failed, restarts or not.
EveryUrlTried == result = "error" /\ ~signalled => errors = NUrls

\* "`AbortSignal` cancellation": the caller's signal stops every connection the
\* call has opened, those of failed attempts included.
AbortReachesAll ==
  signalled => /\ \A i \in Handlers : handler[i].link \in {"absent", "queued", "settled"}
               /\ stale \subseteq {"queued"}

\* "retry this same URL from byte 0 with the file truncated", once per URL
\* (download.ts:167-176): however often mirrors fail to resume, it returns.
Returns == <>(phase = "returned")

\* The bytes the call takes for received.
Held == CASE result = "ok" -> Bytes
          [] result = "error" -> {}
          [] OTHER -> disk \cup strays \cup PendingWrites \cup missing

State == CASE phase = "returned" /\ result = "ok" -> "returned"
           [] phase = "returned" /\ result # "ok" -> "thrown"
           [] phase # "returned" /\ result = "ok" -> "complete"
           [] phase # "returned" /\ result = "error" -> "giving up"
           [] OTHER -> "working"

Contract == INSTANCE DownloadContract
  WITH Content <- Bytes, state <- State, held <- Held

\* The classic path is a download: it returns only when it takes every byte for
\* received, and otherwise throws after it tried to remove the file.
ImplementsContract == Contract!Spec

-----------------------------------------------------------------------------
(* What comments promise and the code does not do. *)

\* "the un-delivered tail stays as zero bytes on disk - a silent gap that corrupts
\* the file" (download.ts:444-446) is what a download must not return with: the
\* controlled path checks the length of a response and a segment its place, the
\* classic path neither.
NoSilentGap == result = "ok" => disk = Bytes

\* What it takes: every 206 is the range asked for and brings all of it, and no
\* write is short.
Faithful == MirrorFaults \cap {"misplaced", "short"} = {} /\ "short" \notin DiskFaults

=============================================================================
