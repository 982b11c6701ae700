----------------------------- MODULE RangePolicy -----------------------------
(***************************************************************************)
(* DefaultRangePolicy (packages/file-transfer/range_policy.ts): how the    *)
(* rest of a file is split into byte ranges.  Here is what                 *)
(* computeRangesInRange returns, without its loop; RangeLoop has the loop  *)
(* and shows that it computes this.                                        *)
(***************************************************************************)
EXTENDS Integers, Sequences

CONSTANTS
  RangeThreshold,   \* the minimum bytes a range should have
  Concurrency       \* the number of ranges aimed at

\* `rangeThreshold ?? 5MB` lets a 0 through; the callers of this repository
\* pass none, and with 0 the loop below may not advance (RangeLoop).
ASSUME RangePolicyAssumption ==
  /\ RangeThreshold \in Nat \ {0}
  /\ Concurrency \in Nat \ {0}

Piece(first, last) == [start |-> first, end |-> last]

\* mutant: the threshold is no lower bound
PartSizeShare(total) == total \div Concurrency

PartSize(total) ==
  LET share == total \div Concurrency
  IN  IF share > RangeThreshold THEN share ELSE RangeThreshold

\* Pieces of PartSize from the start; the last one takes what is left.
RangesOf(first, last) ==
  LET total == last - first + 1
      part == PartSize(total)
      pieces == total \div part
  IN  IF total <= RangeThreshold
      THEN <<Piece(first, last)>>
      ELSE [i \in 1 .. pieces |->
              Piece(first + (i - 1) * part,
                    IF i = pieces THEN last ELSE first + i * part - 1)]

=============================================================================
