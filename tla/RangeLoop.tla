------------------------------ MODULE RangeLoop ------------------------------
(***************************************************************************)
(* The loop of computeRangesInRange (packages/file-transfer/               *)
(* range_policy.ts), for every range it can be asked to split, and what    *)
(* the range requests of ClassicDownload rely on: the pieces tile the      *)
(* range, none is smaller than the threshold, and RangesOf of RangePolicy  *)
(* is what it returns.                                                     *)
(***************************************************************************)
EXTENDS RangePolicy

CONSTANT MaxByte   \* bound: offsets of the ranges split

ASSUME RangeLoopAssumption == MaxByte \in Nat

VARIABLES
  first, last,   \* the range to split, both inclusive
  cur,           \* start of the next piece
  ranges,        \* the pieces so far
  returned

splitVars == <<first, last, cur, ranges, returned>>

Pieces == [start : Nat, end : Nat]
Total == last - first + 1
Part == PartSize(Total)
Remain == last - cur + 1

SplitTypeOK ==
  /\ first \in 0 .. MaxByte
  /\ last \in first .. MaxByte
  /\ cur \in first .. (last + 1)
  /\ ranges \in Seq(Pieces)
  /\ returned \in BOOLEAN

SplitInit ==
  /\ first \in 0 .. MaxByte
  /\ last \in first .. MaxByte
  /\ cur = first
  /\ ranges = <<>>
  /\ returned = FALSE

\* Not worth splitting.
Single ==
  /\ ~returned /\ ranges = <<>> /\ cur = first
  /\ Total <= RangeThreshold
  /\ ranges' = <<Piece(first, last)>>
  /\ returned' = TRUE
  /\ UNCHANGED <<first, last, cur>>

Looping == ~returned /\ Total > RangeThreshold

FullStrict == Remain > Part  \* mutant: >= written as >
Full == Remain >= Part

Push ==
  /\ Looping
  /\ cur <= last
  /\ Full
  /\ ranges' = Append(ranges, Piece(cur, cur + Part - 1))
  /\ cur' = cur + Part
  /\ UNCHANGED <<first, last, returned>>

MergedShort(n) == Piece(ranges[n].start, last - 1)  \* mutant: the end taken as exclusive
Merged(n) == Piece(ranges[n].start, last)

\* The rest is too small for a piece: the last piece takes it.
Merge ==
  /\ Looping
  /\ cur <= last
  /\ ~Full
  /\ LET n == Len(ranges)
     IN  ranges' = IF n = 0 THEN <<Piece(first, last)>>
                   ELSE [ranges EXCEPT ![n] = Merged(n)]
  /\ returned' = TRUE
  /\ UNCHANGED <<first, last, cur>>

Exhausted ==
  /\ Looping
  /\ cur > last
  /\ returned' = TRUE
  /\ UNCHANGED <<first, last, cur, ranges>>

Done == returned /\ UNCHANGED splitVars

SplitNext == Single \/ Push \/ Merge \/ Exhausted \/ Done

SplitSpec == SplitInit /\ [][SplitNext]_splitVars

FairSplitSpec == SplitSpec /\ WF_splitVars(SplitNext)

-----------------------------------------------------------------------------
\* The pieces are consecutive from `first` on.
Consecutive ==
  /\ ranges # <<>> => ranges[1].start = first
  /\ \A i \in 1 .. (Len(ranges) - 1) : ranges[i + 1].start = ranges[i].end + 1

\* computeRangesInRange returns "Array of ranges within the specified portion"
\* (range_policy.ts:8-13) that cover it: from its first byte to its last,
\* without a gap and without an overlap.
Tiles ==
  returned =>
    /\ Consecutive
    /\ ranges # <<>>
    /\ ranges[Len(ranges)].end = last

\* "The minimum bytes a range should have" (range_policy.ts:37-40): a range is
\* split only into pieces of at least the threshold.
NoSmallPiece ==
  returned /\ Len(ranges) > 1 =>
    \A i \in 1 .. Len(ranges) : ranges[i].end - ranges[i].start + 1 >= RangeThreshold

\* The loop returns what RangePolicy says, and always returns.
ReturnsRanges == <>(returned /\ ranges = RangesOf(first, last))

=============================================================================
