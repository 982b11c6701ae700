----------------------------- MODULE AccountStore -----------------------------
(***************************************************************************)
(* What the persistence of the user accounts promises: the store holds the *)
(* accounts of one snapshot the launcher took, snapshots take effect whole *)
(* and in the order they were taken, and a crash at any point leaves the   *)
(* accounts of a snapshot.  user.json, its backup and its marker are gone. *)
(***************************************************************************)
EXTENDS Sequences

CONSTANT Accounts

VARIABLES
  durable,   \* the accounts the next start loads
  snapshots  \* the saves asked for and not yet done

vars == <<durable, snapshots>>

Init == durable \in SUBSET Accounts /\ snapshots = <<>>

Snapshot ==
  /\ \E s \in SUBSET Accounts : snapshots' = Append(snapshots, s)
  /\ UNCHANGED durable

Save ==
  /\ snapshots # <<>>
  /\ durable' = Head(snapshots)
  /\ snapshots' = Tail(snapshots)

\* A save that fails, or that an automatic empty state does not get.
Drop ==
  /\ snapshots # <<>>
  /\ snapshots' = Tail(snapshots)
  /\ UNCHANGED durable

Crash == snapshots' = <<>> /\ UNCHANGED durable

Next == Snapshot \/ Save \/ Drop \/ Crash

Spec == Init /\ [][Next]_vars

=============================================================================
