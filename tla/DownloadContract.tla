--------------------------- MODULE DownloadContract ---------------------------
(***************************************************************************)
(* What download() (packages/file-transfer/download.ts) promises: it works *)
(* on a file it created until it has every byte, as far as it can tell,    *)
(* and then returns, or gives up, and then throws after it has removed the *)
(* file, or tried to.  Mirrors, ranges, retries and the difference between *)
(* the classic and the controlled path are gone.                           *)
(***************************************************************************)
CONSTANT Content   \* the bytes of the file

VARIABLES
  state,   \* "working", "complete" or "giving up", then "returned" or "thrown"
  held,    \* the bytes the call takes for received so far
  file     \* "present", "removed", or "stuck": the system refused to remove it

vars == <<state, held, file>>

Init == state = "working" /\ held = {} /\ file = "present"

\* Bytes arrive, or a truncation takes back what is on disk.
Work ==
  /\ state = "working"
  /\ held' \in SUBSET Content
  /\ UNCHANGED <<state, file>>

Finish ==
  /\ state = "working"
  /\ Content \subseteq held
  /\ state' = "complete"
  /\ UNCHANGED <<held, file>>

GiveUp ==
  /\ state = "working"
  /\ state' = "giving up"
  /\ held' = {}
  /\ UNCHANGED file

Return ==
  /\ state = "complete"
  /\ state' = "returned"
  /\ UNCHANGED <<held, file>>

\* The file is removed, as far as the system allows, before the error is thrown.
Remove ==
  /\ state = "giving up"
  /\ state' = "thrown"
  /\ file' \in {"removed", "stuck"}
  /\ UNCHANGED held

Next == Work \/ Finish \/ GiveUp \/ Return \/ Remove

Spec == Init /\ [][Next]_vars

=============================================================================
