--------------------------- MODULE SegmentContract ---------------------------
(***************************************************************************)
(* What runSegment (packages/file-transfer/download.ts) promises its       *)
(* callers, downloadRanged and downloadWithController: with a bounded      *)
(* number of requests it hands the bytes it was asked for to fs.write, and *)
(* it only ever returns normally when it has handed over all of them.      *)
(* URLs, budgets, mirrors and timers are gone.                             *)
(***************************************************************************)
EXTENDS Naturals

CONSTANTS
  Wanted,       \* the bytes asked for
  FileBytes,    \* the bytes of the file, of which a response may hold any
  MaxRequests   \* bound on the requests made

VARIABLES
  outcome,      \* "running", or how the call ended
  held,         \* bytes handed to fs.write by this call
  requests      \* requests made so far

vars == <<outcome, held, requests>>

Init == outcome = "running" /\ held = {} /\ requests = 0

Request ==
  /\ outcome = "running"
  /\ requests < MaxRequests
  /\ requests' = requests + 1
  /\ UNCHANGED <<outcome, held>>

\* Bytes arrive; none is ever taken back.
Receive ==
  /\ outcome = "running"
  /\ held' \in SUBSET FileBytes
  /\ held \subseteq held'
  /\ UNCHANGED <<outcome, requests>>

Succeed ==
  /\ outcome = "running"
  /\ Wanted \subseteq held
  /\ outcome' = "done"
  /\ UNCHANGED <<held, requests>>

\* Out of URLs, Range not honoured, or the signal fired.
GiveUp ==
  /\ outcome = "running"
  /\ outcome' \in {"failed", "rangeRejected", "aborted"}
  /\ UNCHANGED <<held, requests>>

Next == Request \/ Receive \/ Succeed \/ GiveUp

Spec == Init /\ [][Next]_vars

=============================================================================
