---------------------------- MODULE ClassicProofs ----------------------------
(***************************************************************************)
(* Theorems of the classic path, for any file, threshold, concurrency and  *)
(* list of URLs, with every fault of MirrorFault and DiskFault or none.    *)
(* First RangeLoop: the loop of computeRangesInRange tiles the range it    *)
(* splits, in pieces that are not too small, and returns what RangesOf     *)
(* says.  Then ClassicDownload, whose handlers are given RangesOf: every   *)
(* byte of the file is on disk, owed by a handler, or kept from the disk   *)
(* by a response or a write the code trusts, and download() keeps its      *)
(* contract.                                                               *)
(***************************************************************************)
EXTENDS ClassicDownload, RangeLoop, SequenceTheorems, TLAPS

-----------------------------------------------------------------------------
(* Products and quotients, and the size of a piece. *)

LEMMA Multiples ==
  ASSUME NEW c \in Nat, NEW a \in Nat, NEW b \in Nat, a <= b
  PROVE  a * c \in Nat /\ b * c \in Nat /\ a * c <= b * c
<1>1. PICK k \in Nat : b = a + k
  <2>1. b - a \in Nat /\ b = a + (b - a)
    OBVIOUS
  <2> QED BY <2>1
<1>2. k * c \in Nat /\ a * c \in Nat /\ b * c = a * c + k * c
  BY <1>1
<1> QED BY <1>2

LEMMA Division ==
  ASSUME NEW n \in Nat, NEW d \in Nat \ {0}
  PROVE  /\ n \div d \in Nat
         /\ (n \div d) * d <= n /\ n < (n \div d) * d + d
OBVIOUS

\* Math.max(minChunkSize, ...): a piece is never smaller than the threshold.
LEMMA PartIsLarge ==
  ASSUME NEW t \in Nat
  PROVE  PartSize(t) \in Nat /\ PartSize(t) >= RangeThreshold
<1>1. t \div Concurrency \in Int
  BY RangePolicyAssumption
<1> QED
  BY <1>1, RangePolicyAssumption DEF PartSize

\* When the range is worth splitting its first piece fits.
LEMMA PartFits ==
  ASSUME NEW t \in Nat, t > RangeThreshold
  PROVE  PartSize(t) <= t
<1>1. t \div Concurrency <= t
  BY RangePolicyAssumption
<1> QED
  BY <1>1, RangePolicyAssumption DEF PartSize

-----------------------------------------------------------------------------
(* The loop of computeRangesInRange. *)

\* s covers f .. c - 1 without gap or overlap, in pieces of the threshold or more.
Tiled(s, f, c) ==
  /\ s = <<>> => c = f
  /\ s # <<>> => s[1].start = f /\ s[Len(s)].end = c - 1
  /\ \A i \in 1 .. (Len(s) - 1) : s[i + 1].start = s[i].end + 1
  /\ \A i \in 1 .. Len(s) : s[i].end - s[i].start + 1 >= RangeThreshold

SplitInv ==
  /\ SplitTypeOK
  /\ ~returned => Tiled(ranges, first, cur)
  /\ ~returned /\ Total <= RangeThreshold => ranges = <<>> /\ cur = first
  /\ returned => \/ ranges = <<Piece(first, last)>>
                 \/ Tiled(ranges, first, last + 1) /\ ranges # <<>>

-----------------------------------------------------------------------------
\* Only the empty sequence has length 0.
LEMMA EmptyIffZero ==
  ASSUME NEW s \in Seq(Pieces)
  PROVE  Len(s) \in Nat /\ (s = <<>> <=> Len(s) = 0)
<1>1. Len(s) \in Nat
  BY LenProperties
<1>2. <<>> \in Seq(Pieces) /\ Len(<<>>) = 0
  BY EmptySeq
<1>3. ASSUME Len(s) = 0 PROVE s = <<>>
  BY <1>2, <1>3, SeqEqual
<1> QED BY <1>1, <1>2, <1>3

\* The elements of a list of pieces.
LEMMA PieceOfSeq ==
  ASSUME NEW s \in Seq(Pieces)
  PROVE  \A i \in 1 .. Len(s) : s[i] \in Pieces /\ s[i].start \in Nat /\ s[i].end \in Nat
<1> SUFFICES ASSUME NEW i \in 1 .. Len(s)
             PROVE  s[i] \in Pieces /\ s[i].start \in Nat /\ s[i].end \in Nat
  OBVIOUS
<1>1. s[i] \in Pieces
  BY ElementOfSeq
<1> QED BY <1>1 DEF Pieces

\* A pushed piece extends the tiling.
LEMMA PushTiles ==
  ASSUME NEW s \in Seq(Pieces), NEW f \in Nat, NEW c \in Nat, NEW p \in Nat,
         p >= RangeThreshold, Tiled(s, f, c)
  PROVE  LET t == Append(s, Piece(c, c + p - 1))
         IN  t \in Seq(Pieces) /\ t # <<>> /\ Tiled(t, f, c + p)
<1> DEFINE x == Piece(c, c + p - 1)
           t == Append(s, x)
<1>1. x \in Pieces /\ x.start = c /\ x.end = c + p - 1
  BY RangePolicyAssumption DEF Piece, Pieces
<1>2. /\ t \in Seq(Pieces) /\ t # <<>> /\ Len(t) = Len(s) + 1
      /\ \A i \in 1 .. Len(s) : t[i] = s[i]
      /\ t[Len(s) + 1] = x
  BY <1>1, AppendProperties
<1>3. Len(s) \in Nat /\ (s = <<>> <=> Len(s) = 0)
  BY EmptyIffZero
<1>4. \A i \in 1 .. Len(s) : s[i] \in Pieces /\ s[i].start \in Nat /\ s[i].end \in Nat
  BY PieceOfSeq
<1> HIDE DEF x, t
<1>5. t[1].start = f /\ t[Len(t)].end = (c + p) - 1
  <2>1. CASE Len(s) = 0
    <3>1. t[1] = x /\ Len(t) = 1
      BY <1>2, <2>1
    <3>2. c = f
      BY <1>3, <2>1 DEF Tiled
    <3> QED BY <1>1, <3>1, <3>2
  <2>2. CASE Len(s) > 0
    <3>1. t[1] = s[1] /\ t[Len(t)] = x
      BY <1>2, <1>3, <2>2
    <3>2. s[1].start = f
      BY <1>3, <2>2 DEF Tiled
    <3> QED BY <1>1, <3>1, <3>2
  <2> QED BY <1>3, <2>1, <2>2
<1>6. \A i \in 1 .. (Len(t) - 1) : t[i + 1].start = t[i].end + 1
  <2> SUFFICES ASSUME NEW i \in 1 .. (Len(t) - 1)
               PROVE  t[i + 1].start = t[i].end + 1
    OBVIOUS
  <2>1. CASE i < Len(s)
    BY <1>2, <1>3, <2>1 DEF Tiled
  <2>2. CASE i = Len(s)
    <3>1. Len(s) \in 1 .. Len(s)
      BY <1>3, <2>2
    <3>2. t[i] = s[Len(s)] /\ t[i + 1] = x
      BY <1>2, <2>2, <3>1
    <3>3. s[Len(s)].end = c - 1
      BY <1>3, <3>1 DEF Tiled
    <3> QED BY <1>1, <3>2, <3>3
  <2> QED BY <1>2, <1>3, <2>1, <2>2
<1>7. \A i \in 1 .. Len(t) : t[i].end - t[i].start + 1 >= RangeThreshold
  <2> SUFFICES ASSUME NEW i \in 1 .. Len(t)
               PROVE  t[i].end - t[i].start + 1 >= RangeThreshold
    OBVIOUS
  <2>1. CASE i <= Len(s)
    BY <1>2, <1>3, <2>1 DEF Tiled
  <2>2. CASE i = Len(s) + 1
    BY <1>1, <1>2, <2>2, RangePolicyAssumption
  <2> QED BY <1>2, <1>3, <2>1, <2>2
<1>8. Tiled(t, f, c + p)
  BY <1>2, <1>5, <1>6, <1>7 DEF Tiled
<1> QED BY <1>2, <1>8 DEF x, t

\* The last piece may be stretched to the end of the range.
LEMMA MergeTiles ==
  ASSUME NEW s \in Seq(Pieces), s # <<>>, NEW f \in Nat, NEW c \in Nat, NEW l \in Nat,
         c <= l, Tiled(s, f, c)
  PROVE  LET n == Len(s)
             t == [s EXCEPT ![n] = Piece(s[n].start, l)]
         IN  t \in Seq(Pieces) /\ t # <<>> /\ Tiled(t, f, l + 1)
<1> DEFINE n == Len(s)
           x == Piece(s[n].start, l)
           t == [s EXCEPT ![n] = x]
<1>1. n \in Nat /\ n > 0
  BY EmptyIffZero
<1>2. \A i \in 1 .. n : s[i] \in Pieces /\ s[i].start \in Nat /\ s[i].end \in Nat
  BY PieceOfSeq
<1>3. x \in Pieces /\ x.start = s[n].start /\ x.end = l
  BY <1>1, <1>2 DEF Piece, Pieces
<1>4. /\ t \in Seq(Pieces) /\ Len(t) = n
      /\ \A j \in 1 .. n : t[j] = IF j = n THEN x ELSE s[j]
  BY <1>1, <1>3, ExceptSeq
<1> HIDE DEF n, x, t
<1>5. t # <<>>
  BY <1>1, <1>4, EmptyIffZero
<1>6. s[1].start = f /\ s[n].end = c - 1
  BY DEF Tiled, n
<1>7. t[1].start = f /\ t[Len(t)].end = (l + 1) - 1
  BY <1>1, <1>3, <1>4, <1>6
<1>8. \A i \in 1 .. (Len(t) - 1) : t[i + 1].start = t[i].end + 1
  BY <1>1, <1>3, <1>4 DEF Tiled, n
<1>9. \A i \in 1 .. Len(t) : t[i].end - t[i].start + 1 >= RangeThreshold
  <2> SUFFICES ASSUME NEW i \in 1 .. Len(t)
               PROVE  t[i].end - t[i].start + 1 >= RangeThreshold
    OBVIOUS
  <2>1. CASE i < n
    BY <1>1, <1>4, <2>1 DEF Tiled, n
  <2>2. CASE i = n
    <3>1. s[n].end - s[n].start + 1 >= RangeThreshold
      BY <1>1 DEF Tiled, n
    <3>2. t[n] = x /\ s[n].start \in Nat /\ s[n].end \in Nat
      BY <1>1, <1>2, <1>4
    <3> QED BY <1>3, <1>6, <2>2, <3>1, <3>2, RangePolicyAssumption
  <2> QED BY <1>1, <1>4, <2>1, <2>2
<1>10. Tiled(t, f, l + 1)
  BY <1>5, <1>7, <1>8, <1>9 DEF Tiled
<1> QED BY <1>4, <1>5, <1>10 DEF n, x, t

-----------------------------------------------------------------------------
LEMMA SplitInvInit == SplitInit => SplitInv
<1> SUFFICES ASSUME SplitInit PROVE SplitInv
  OBVIOUS
<1>1. SplitTypeOK
  <2>1. ranges \in Seq(Pieces)
    BY EmptySeq DEF SplitInit
  <2>2. first \in 0 .. MaxByte /\ last \in first .. MaxByte /\ cur = first /\ ~returned
    BY DEF SplitInit
  <2>3. cur \in first .. (last + 1)
    BY <2>2, RangeLoopAssumption
  <2>4. returned \in BOOLEAN
    BY DEF SplitInit
  <2> QED BY <2>1, <2>2, <2>3, <2>4 DEF SplitTypeOK
<1>2. Tiled(ranges, first, cur)
  BY DEF SplitInit, Tiled
<1> QED BY <1>1, <1>2 DEF SplitInit, SplitInv

LEMMA SplitInvNext == SplitInv /\ [SplitNext]_splitVars => SplitInv'
<1> SUFFICES ASSUME SplitInv, [SplitNext]_splitVars PROVE SplitInv'
  OBVIOUS
<1> USE RangePolicyAssumption, RangeLoopAssumption
<1>1. /\ first \in Nat /\ last \in Nat /\ cur \in Nat /\ first <= last
      /\ Total \in Nat /\ ranges \in Seq(Pieces)
  BY DEF SplitInv, SplitTypeOK, Total
<1>2. Part \in Nat /\ Part >= RangeThreshold
  BY <1>1, PartIsLarge DEF Part
<1>3. CASE Single
  <2>1. Piece(first, last) \in Pieces
    BY <1>1 DEF Piece, Pieces
  <2>2. ranges' \in Seq(Pieces)
    BY <1>3, <2>1 DEF Single
  <2>3. SplitTypeOK'
    BY <1>3, <2>2 DEF Single, SplitInv, SplitTypeOK
  <2> QED BY <1>3, <2>3 DEF Single, SplitInv
<1>4. CASE Push
  <2>1. ~returned /\ Tiled(ranges, first, cur) /\ Total > RangeThreshold
    BY <1>4 DEF Push, Looping, SplitInv
  <2>2. ranges' \in Seq(Pieces) /\ Tiled(ranges', first, cur + Part)
    BY <1>1, <1>2, <1>4, <2>1, PushTiles DEF Push
  <2>3. cur' = cur + Part /\ cur' \in first .. (last + 1)
    BY <1>1, <1>2, <1>4 DEF Push, Full, Remain, SplitInv, SplitTypeOK
  <2>4. SplitTypeOK'
    BY <1>4, <2>2, <2>3 DEF Push, SplitInv, SplitTypeOK
  <2>5. Tiled(ranges, first, cur)'
    BY <1>4, <2>2, <2>3 DEF Push, Tiled
  <2>6. Total' > RangeThreshold /\ ~returned'
    BY <1>4, <2>1 DEF Push, Total
  <2>7. ~(Total' <= RangeThreshold)
    <3>1. Total' \in Nat
      BY <1>1, <1>4 DEF Push, Total
    <3> QED BY <2>6, <3>1
  <2> QED BY <2>4, <2>5, <2>6, <2>7 DEF SplitInv
<1>5. CASE Merge
  <2>1. ~returned /\ Tiled(ranges, first, cur) /\ Total > RangeThreshold /\ cur <= last
    BY <1>5 DEF Merge, Looping, SplitInv
  <2>2. ranges # <<>>
    <3>1. Part <= Total
      BY <1>1, <2>1, PartFits DEF Part
    <3>2. Remain < Part
      BY <1>1, <1>2, <1>5 DEF Merge, Full, Remain
    <3> QED BY <1>1, <1>2, <2>1, <3>1, <3>2 DEF Tiled, Total, Remain
  <2>3. Len(ranges) # 0
    BY <1>1, <2>2, EmptyIffZero
  <2>4. /\ ranges' \in Seq(Pieces) /\ ranges' # <<>>
        /\ Tiled(ranges', first, last + 1)
    BY <1>1, <1>5, <2>1, <2>2, <2>3, MergeTiles DEF Merge, Merged
  <2>5. SplitTypeOK'
    BY <1>5, <2>4 DEF Merge, SplitInv, SplitTypeOK
  <2>6. Tiled(ranges, first, last + 1)'
    BY <1>5, <2>4 DEF Merge, Tiled
  <2> QED BY <1>5, <2>4, <2>5, <2>6 DEF Merge, SplitInv
<1>6. CASE Exhausted
  <2>1. Tiled(ranges, first, cur) /\ cur = last + 1
    BY <1>1, <1>6 DEF Exhausted, Looping, SplitInv, SplitTypeOK
  <2>2. ranges # <<>>
    BY <1>1, <2>1 DEF Tiled
  <2>3. SplitTypeOK'
    BY <1>6 DEF Exhausted, SplitInv, SplitTypeOK
  <2>4. Tiled(ranges, first, last + 1)'
    BY <1>6, <2>1 DEF Exhausted, Tiled
  <2> QED BY <1>6, <2>2, <2>3, <2>4 DEF Exhausted, SplitInv
<1>7. CASE Done \/ UNCHANGED splitVars
  <2>1. UNCHANGED <<first, last, cur, ranges, returned>>
    BY <1>7 DEF Done, splitVars
  <2>2. SplitTypeOK'
    BY <2>1 DEF SplitInv, SplitTypeOK, Pieces
  <2>3. Tiled(ranges, first, cur)' = Tiled(ranges, first, cur)
    BY <2>1 DEF Tiled
  <2>4. Tiled(ranges, first, last + 1)' = Tiled(ranges, first, last + 1)
    BY <2>1 DEF Tiled
  <2>5. Total' = Total /\ Piece(first, last)' = Piece(first, last)
    BY <2>1 DEF Total, Piece
  <2> QED BY <2>1, <2>2, <2>3, <2>4, <2>5 DEF SplitInv
<1> QED BY <1>3, <1>4, <1>5, <1>6, <1>7 DEF SplitNext

LEMMA SplitInvAlways == SplitSpec => []SplitInv
<1> QED BY SplitInvInit, SplitInvNext, PTL DEF SplitSpec

\* Whatever the range, the threshold and the concurrency, the pieces returned
\* cover the range from its first byte to its last, without gap or overlap.
THEOREM Tiling == SplitSpec => []Tiles
<1>1. SplitInv => Tiles
  <2> SUFFICES ASSUME SplitInv, returned PROVE Tiles
    BY DEF Tiles
  <2>1. CASE ranges = <<Piece(first, last)>>
    BY <2>1 DEF Tiles, Consecutive, Piece
  <2>2. CASE Tiled(ranges, first, last + 1) /\ ranges # <<>>
    <3>1. first \in Nat /\ last \in Nat
      BY RangeLoopAssumption DEF SplitInv, SplitTypeOK
    <3> QED BY <2>2, <3>1 DEF Tiles, Consecutive, Tiled
  <2> QED BY <2>1, <2>2 DEF SplitInv
<1> QED BY <1>1, SplitInvAlways, PTL

\* Splitting never produces a piece smaller than the threshold.
THEOREM LargePieces == SplitSpec => []NoSmallPiece
<1>1. SplitInv => NoSmallPiece
  <2> SUFFICES ASSUME SplitInv, returned, Len(ranges) > 1 PROVE NoSmallPiece
    BY DEF NoSmallPiece
  <2>1. ranges # <<Piece(first, last)>>
    <3> DEFINE whole == <<Piece(first, last)>>
    <3>1. Len(whole) = 1
      OBVIOUS
    <3> HIDE DEF whole
    <3>2. ranges # whole
      BY <3>1
    <3> QED BY <3>2 DEF whole
  <2> QED BY <2>1 DEF SplitInv, Tiled, NoSmallPiece
<1> QED BY <1>1, SplitInvAlways, PTL

-----------------------------------------------------------------------------
(* The loop and RangesOf. *)

LEMMA Quotient ==
  ASSUME NEW n \in Nat, NEW d \in Nat \ {0}, NEW k \in Nat, k * d <= n, n < k * d + d
  PROVE  n \div d = k
<1> DEFINE q == n \div d
<1>1. q \in Nat /\ q * d <= n /\ n < q * d + d /\ q * d \in Nat /\ k * d \in Nat
  BY Division, Multiples
<1> HIDE DEF q
<1>2. ASSUME NEW a \in Nat, NEW b \in Nat, a * d \in Nat, b * d \in Nat,
             n < a * d + d, b * d <= n, a < b
      PROVE  FALSE
  <2>1. (a + 1) * d <= b * d /\ (a + 1) * d \in Nat
    BY <1>2, Multiples
  <2>2. (a + 1) * d = a * d + d
    BY <1>2
  <2> QED BY <1>2, <2>1, <2>2
<1>3. ~(q < k) /\ ~(k < q)
  BY <1>1, <1>2
<1> QED BY <1>1, <1>3 DEF q

\* What has been pushed is the beginning of RangesOf, what is returned the whole.
Shaped ==
  /\ ~returned /\ Total > RangeThreshold =>
       /\ cur = first + Len(ranges) * Part
       /\ \A i \in 1 .. Len(ranges) :
            ranges[i] = Piece(first + (i - 1) * Part, first + i * Part - 1)
  /\ returned => ranges = RangesOf(first, last)

LEMMA ShapedInit == SplitInit => Shaped
<1> SUFFICES ASSUME SplitInit PROVE Shaped
  OBVIOUS
<1>1. Total \in Nat
  BY RangeLoopAssumption DEF SplitInit, Total
<1>2. Len(ranges) = 0 /\ Part \in Nat
  BY <1>1, EmptySeq, PartIsLarge DEF SplitInit, Part
<1>3. Len(ranges) * Part = 0
  BY <1>2
<1>4. first \in Nat
  BY RangeLoopAssumption DEF SplitInit
<1> QED BY <1>2, <1>3, <1>4 DEF SplitInit, Shaped

LEMMA ShapedNext == SplitInv /\ Shaped /\ [SplitNext]_splitVars => Shaped'
<1> SUFFICES ASSUME SplitInv, Shaped, [SplitNext]_splitVars PROVE Shaped'
  OBVIOUS
<1>1. /\ first \in Nat /\ last \in Nat /\ cur \in Nat /\ first <= last /\ cur <= last + 1
      /\ Total \in Nat /\ ranges \in Seq(Pieces) /\ Len(ranges) \in Nat
      /\ ranges = [i \in 1 .. Len(ranges) |-> ranges[i]]
  BY RangeLoopAssumption, LenProperties DEF SplitInv, SplitTypeOK, Total
<1>2. Part \in Nat \ {0} /\ Part >= RangeThreshold
  BY <1>1, PartIsLarge, RangePolicyAssumption DEF Part
<1>3. CASE Single
  BY <1>3 DEF Single, RangesOf, Total, Shaped
<1>4. CASE Push
  <2>1. /\ ranges' = Append(ranges, Piece(cur, cur + Part - 1)) /\ cur' = cur + Part
        /\ UNCHANGED <<first, last, returned>> /\ ~returned
        /\ cur = first + Len(ranges) * Part
        /\ \A i \in 1 .. Len(ranges) :
             ranges[i] = Piece(first + (i - 1) * Part, first + i * Part - 1)
    BY <1>4 DEF Push, Looping, Shaped
  <2>2. Part' = Part
    BY <2>1 DEF Part, Total
  <2>3. Piece(cur, cur + Part - 1) \in Pieces
    BY <1>1, <1>2 DEF Piece, Pieces
  <2> DEFINE k == Len(ranges)
  <2>4. /\ Len(ranges') = k + 1 /\ \A i \in 1 .. k : ranges'[i] = ranges[i]
        /\ ranges'[k + 1] = Piece(cur, cur + Part - 1)
    BY <1>1, <2>1, <2>3, AppendProperties
  <2>5. (k + 1) * Part = k * Part + Part /\ k * Part \in Nat
    BY <1>1, <1>2, Multiples
  <2>6. cur' = first + (k + 1) * Part
    BY <1>1, <1>2, <2>1, <2>5
  <2>7. ASSUME NEW i \in 1 .. (k + 1)
        PROVE  ranges'[i] = Piece(first + (i - 1) * Part, first + i * Part - 1)
    <3>1. CASE i \in 1 .. k
      BY <2>1, <2>4, <3>1
    <3>2. CASE i = k + 1
      <4>1. i - 1 = k /\ i * Part = k * Part + Part
        BY <1>1, <2>5, <3>2
      <4>2. (i - 1) * Part = k * Part
        BY <4>1
      <4>3. first + (i - 1) * Part = cur
        BY <2>1, <4>2
      <4>4. first + i * Part - 1 = cur + Part - 1
        BY <1>1, <1>2, <2>1, <2>5, <4>1
      <4> QED BY <2>4, <3>2, <4>3, <4>4
    <3> QED BY <1>1, <3>1, <3>2
  <2> HIDE DEF k
  <2> QED BY <2>1, <2>2, <2>4, <2>6, <2>7 DEF Shaped
<1>5. ASSUME Looping, UNCHANGED <<first, last>>, returned' = TRUE,
             NEW k, k = Len(ranges), k # 0, k * Part <= Total, Total < k * Part + Part,
             Len(ranges') = k, ranges' = [i \in 1 .. k |-> ranges'[i]],
             \A i \in 1 .. k : ranges'[i] = IF i = k THEN Piece(ranges[k].start, last) ELSE ranges[i]
      PROVE  Shaped'
  <2>1. Total \div Part = k
    BY <1>1, <1>2, <1>5, Quotient
  <2>2. RangesOf(first, last) =
          [i \in 1 .. k |-> Piece(first + (i - 1) * Part,
                                  IF i = k THEN last ELSE first + i * Part - 1)]
    <3>1. ~(last - first + 1 <= RangeThreshold)
      BY <1>1, <1>5, RangePolicyAssumption DEF Looping, Total
    <3>2. (last - first + 1) \div PartSize(last - first + 1) = k
      BY <2>1 DEF Total, Part
    <3> QED BY <3>1, <3>2 DEF RangesOf, Part, Total
  <2>3. ASSUME NEW i \in 1 .. k
        PROVE  ranges'[i] = Piece(first + (i - 1) * Part,
                                  IF i = k THEN last ELSE first + i * Part - 1)
    <3>1. ranges[i] = Piece(first + (i - 1) * Part, first + i * Part - 1)
      BY <1>5 DEF Shaped, Looping
    <3> QED BY <1>5, <3>1 DEF Piece
  <2> QED BY <1>5, <2>2, <2>3 DEF Shaped
<1>6. ASSUME Looping
      PROVE  /\ cur = first + Len(ranges) * Part /\ Len(ranges) * Part \in Nat
             /\ ranges # <<>> \/ Remain = Total
             /\ Part <= Total /\ (ranges # <<>> => Len(ranges) # 0)
  <2>1. cur = first + Len(ranges) * Part /\ Len(ranges) * Part \in Nat
    BY <1>1, <1>2, <1>6, Multiples DEF Shaped, Looping
  <2>2. ranges # <<>> \/ Remain = Total
    BY <1>6 DEF SplitInv, Tiled, Looping, Remain, Total
  <2> QED BY <1>1, <1>6, <2>1, <2>2, PartFits, EmptyIffZero DEF Part, Looping
<1>7. CASE Merge
  <2>1. /\ Looping /\ Remain < Part /\ cur <= last /\ UNCHANGED <<first, last>> /\ returned' = TRUE
    BY <1>1, <1>2, <1>7 DEF Merge, Full, Remain
  <2> DEFINE k == Len(ranges)
  <2>2. ranges # <<>> /\ k # 0
    BY <1>1, <1>2, <1>6, <2>1
  <2>3. ranges' = [ranges EXCEPT ![k] = Piece(ranges[k].start, last)]
    BY <1>7, <2>2 DEF Merge, Merged
  <2>4. k * Part <= Total /\ Total < k * Part + Part
    <3>1. PICK m \in Nat : m = k * Part
      BY <1>6, <2>1
    <3>2. cur = first + m
      BY <1>6, <2>1, <3>1
    <3>3. /\ first \in Nat /\ last \in Nat /\ cur \in Nat /\ Part \in Nat
          /\ last - cur + 1 < Part /\ cur <= last
      BY <1>1, <1>2, <2>1 DEF Remain
    <3>4. m <= last - first + 1 /\ last - first + 1 < m + Part
      BY <3>2, <3>3
    <3> QED BY <3>1, <3>4 DEF Total
  <2>5. Len(ranges') = k /\ ranges' = [i \in 1 .. k |-> ranges'[i]]
        /\ \A i \in 1 .. k : ranges'[i] = IF i = k THEN Piece(ranges[k].start, last) ELSE ranges[i]
    <3>1. Piece(ranges[k].start, last) \in Pieces
      BY <1>1, <2>2, PieceOfSeq DEF Piece, Pieces
    <3>2. ranges' \in Seq(Pieces) /\ Len(ranges') = k
          /\ \A j \in 1 .. k : ranges'[j] = IF j = k THEN Piece(ranges[k].start, last) ELSE ranges[j]
      BY <1>1, <2>2, <2>3, <3>1, ExceptSeq
    <3> QED BY <3>2, LenProperties
  <2> HIDE DEF k
  <2> QED BY <1>5, <2>1, <2>2, <2>4, <2>5 DEF k
<1>8. CASE Exhausted
  <2>1. /\ Looping /\ cur = last + 1 /\ UNCHANGED <<first, last, ranges>> /\ returned' = TRUE
    BY <1>1, <1>8 DEF Exhausted
  <2> DEFINE k == Len(ranges)
  <2>2. k * Part = Total /\ k # 0 /\ k \in Nat
    BY <1>1, <1>2, <1>6, <2>1 DEF Remain, Total
  <2>3. ranges[k] = Piece(ranges[k].start, last)
    <3>1. ranges[k] = Piece(first + (k - 1) * Part, first + k * Part - 1)
      BY <2>1, <2>2 DEF Shaped, Looping
    <3>2. first + k * Part - 1 = last
      BY <1>1, <2>2 DEF Total
    <3> QED BY <3>1, <3>2 DEF Piece
  <2>4. \A i \in 1 .. k : ranges[i] = IF i = k THEN Piece(ranges[k].start, last) ELSE ranges[i]
    BY <2>3
  <2>5. k * Part <= Total /\ Total < k * Part + Part
    BY <1>1, <1>2, <2>2
  <2> HIDE DEF k
  <2> QED BY <1>1, <1>5, <2>1, <2>2, <2>4, <2>5 DEF k
<1>9. CASE Done \/ UNCHANGED splitVars
  BY <1>9 DEF Done, splitVars, Shaped, Total, Part
<1> QED BY <1>3, <1>4, <1>7, <1>8, <1>9 DEF SplitNext

\* What the handlers of the classic path are given is what the loop returns.
THEOREM LoopReturnsRangesOf == SplitSpec => [](returned => ranges = RangesOf(first, last))
<1>1. SplitInv /\ Shaped => (returned => ranges = RangesOf(first, last))
  BY DEF Shaped
<1>2. SplitInit => SplitInv /\ Shaped
  BY SplitInvInit, ShapedInit
<1>3. SplitInv /\ Shaped /\ [SplitNext]_splitVars => SplitInv' /\ Shaped'
  BY SplitInvNext, ShapedNext
<1> QED BY <1>1, <1>2, <1>3, PTL DEF SplitSpec

-----------------------------------------------------------------------------
(* The ranges a parent asks its children for. *)

\* The pieces of a range worth splitting: how many, where they lie, and that
\* they cover it.
LEMMA Split ==
  ASSUME NEW f \in Nat, NEW l \in Nat, l - f + 1 > RangeThreshold
  PROVE  LET t == l - f + 1
             n == t \div PartSize(t)
             p == RangesOf(f, l)
         IN  /\ n \in Nat \ {0} /\ n * RangeThreshold <= t /\ DOMAIN p = 1 .. n
             /\ \A i \in 1 .. n : /\ p[i].start \in Nat /\ p[i].end \in Nat
                                  /\ f <= p[i].start /\ p[i].start <= p[i].end /\ p[i].end <= l
             /\ \A x \in f .. l : \E i \in 1 .. n : p[i].start <= x /\ x <= p[i].end
<1> DEFINE t == l - f + 1
           part == PartSize(t)
           n == t \div part
           p == RangesOf(f, l)
<1>1. RangeThreshold \in Nat \ {0} /\ t \in Nat /\ t > RangeThreshold
  BY RangePolicyAssumption
<1>2. part \in Nat \ {0} /\ part >= RangeThreshold /\ part <= t
  <2> HIDE DEF t
  <2> QED BY <1>1, PartIsLarge, PartFits
<1>3. p = [i \in 1 .. n |-> Piece(f + (i - 1) * part, IF i = n THEN l ELSE f + i * part - 1)]
  BY <1>1 DEF RangesOf
<1>4. t = l - f + 1
  OBVIOUS
<1> HIDE DEF t
<1> HIDE DEF part
<1>5. n \in Nat /\ n * part <= t /\ t < n * part + part
  BY <1>1, <1>2, Division
<1> HIDE DEF n
<1>6. n # 0
  <2> SUFFICES ASSUME n = 0 PROVE FALSE
    OBVIOUS
  <2>1. n * part = 0
    BY <1>2
  <2> QED BY <1>1, <1>2, <1>5, <2>1
<1>7. DOMAIN p = 1 .. n
      /\ \A i \in 1 .. n : /\ p[i].start = f + (i - 1) * part
                           /\ p[i].end = IF i = n THEN l ELSE f + i * part - 1
  BY <1>3 DEF Piece
<1> HIDE DEF p
<1>8. ASSUME NEW i \in 1 .. n
      PROVE  /\ (i - 1) * part \in Nat /\ i * part \in Nat /\ i * part = (i - 1) * part + part
             /\ i * part <= n * part
  <2>1. i \in Nat /\ i - 1 \in Nat /\ i <= n
    BY <1>5
  <2>2. i * part \in Nat /\ i * part <= n * part /\ (i - 1) * part \in Nat
    BY <1>2, <1>5, <2>1, Multiples
  <2>3. PICK k \in Nat : k = i - 1
    BY <2>1
  <2>4. (k + 1) * part = k * part + part
    BY <1>2, <2>3
  <2>5. i = k + 1
    BY <2>1, <2>3
  <2> QED BY <2>2, <2>3, <2>4, <2>5
<1>9. ASSUME NEW i \in 1 .. n
      PROVE  /\ p[i].start \in Nat /\ p[i].end \in Nat
             /\ f <= p[i].start /\ p[i].start <= p[i].end /\ p[i].end <= l
  <2>1. (i - 1) * part \in Nat /\ i * part \in Nat /\ i * part = (i - 1) * part + part
        /\ i * part <= t
    <3>1. n * part \in Nat
      BY <1>2, <1>5, Multiples
    <3> QED BY <1>1, <1>2, <1>5, <1>8, <3>1
  <2>2. p[i].start = f + (i - 1) * part /\ p[i].end = IF i = n THEN l ELSE f + i * part - 1
    BY <1>7
  <2> QED BY <1>1, <1>2, <1>4, <2>1, <2>2
<1>10. ASSUME NEW x \in f .. l
       PROVE  \E i \in 1 .. n : p[i].start <= x /\ x <= p[i].end
  <2> DEFINE q == (x - f) \div part
  <2>1. q \in Nat /\ q * part <= x - f /\ x - f < q * part + part /\ x - f \in Nat
    BY <1>2, Division
  <2> HIDE DEF q
  <2>2. CASE q < n
    <3>1. PICK i \in 1 .. n : i = q + 1
      BY <1>5, <2>1, <2>2
    <3>2. i - 1 = q
      BY <2>1, <3>1
    <3>3. q * part \in Nat /\ i * part = q * part + part
      BY <1>8, <3>2
    <3>4. p[i].start = f + q * part /\ p[i].end = IF i = n THEN l ELSE f + i * part - 1
      BY <1>7, <3>2
    <3>5. p[i].start <= x /\ x <= p[i].end
      BY <1>2, <2>1, <3>3, <3>4
    <3> QED BY <3>5
  <2>3. CASE n <= q
    <3>1. n \in 1 .. n
      BY <1>5, <1>6
    <3>2. p[n].start = f + (n - 1) * part /\ p[n].end = l
      BY <1>7, <3>1
    <3>3. n * part <= q * part /\ n * part \in Nat /\ q * part \in Nat
      BY <1>2, <1>5, <2>1, <2>3, Multiples
    <3>4. (n - 1) * part \in Nat /\ n * part = (n - 1) * part + part
      BY <1>8, <3>1
    <3> QED BY <1>2, <2>1, <3>1, <3>2, <3>3, <3>4
  <2> QED BY <1>5, <2>1, <2>2, <2>3
<1>11. n * RangeThreshold <= t
  <2>1. RangeThreshold * n <= part * n
    BY <1>1, <1>2, <1>5, Multiples
  <2>2. n * RangeThreshold = RangeThreshold * n /\ n * part = part * n
    BY <1>1, <1>2, <1>5
  <2>3. n * RangeThreshold \in Nat /\ n * part \in Nat
    BY <1>1, <1>2, <1>5, Multiples
  <2> QED BY <1>1, <1>5, <2>1, <2>2, <2>3
<1> QED BY <1>5, <1>6, <1>7, <1>9, <1>10, <1>11 DEF n, part, t, p

LEMMA ConstantsTyped ==
  /\ FileSize \in Nat \ {0} /\ RangeThreshold \in Nat \ {0} /\ NUrls \in Nat \ {0}
  /\ ExpectedTotal \in {0, FileSize}
  /\ MaxChildren \in Nat \ {0} /\ (FileSize - 1) \div RangeThreshold <= MaxChildren
<1>1. FileSize \in Nat \ {0} /\ RangeThreshold \in Nat \ {0} /\ NUrls \in Nat \ {0}
      /\ ExpectedTotal \in {0, FileSize}
  BY ClassicAssumption, RangePolicyAssumption
<1>2. (FileSize - 1) \div RangeThreshold \in Nat
  BY <1>1, Division
<1> QED BY <1>1, <1>2 DEF MaxChildren

\* The children the parent's response asks for: there are handlers for them, and
\* every byte after the parent's body is in one of them, or one of them has no
\* range a mirror can serve and gets the whole file.
LEMMA ChildrenCover ==
  ASSUME NEW b1 \in 0 .. (FileSize - 1), NEW b2 \in 1 .. FileSize, b1 < b2,
         NEW total \in {0, FileSize}
  PROVE  LET p == ChildRanges(<<b1, b2>>, total)
         IN  /\ \A j \in DOMAIN p : /\ j \in 1 .. MaxChildren
                                    /\ p[j].start \in 0 .. FileSize
                                    /\ p[j].end \in -1 .. (FileSize - 1)
             /\ \A x \in b2 .. (FileSize - 1) : \E j \in DOMAIN p :
                  \/ p[j].start > p[j].end
                  \/ p[j].start <= x /\ x <= p[j].end
<1> DEFINE p == ChildRanges(<<b1, b2>>, total)
<1>1. /\ FileSize \in Nat \ {0} /\ RangeThreshold \in Nat \ {0}
      /\ MaxChildren \in Nat \ {0} /\ (FileSize - 1) \div RangeThreshold <= MaxChildren
  BY ConstantsTyped
<1>2. p = IF total = b2 - b1 THEN <<>> ELSE RangesOf(b2, total - 1)
  BY <1>1 DEF ChildRanges
<1> HIDE DEF p
<1>3. CASE total = b2 - b1
  <2>1. DOMAIN p = {}
    BY <1>2, <1>3
  <2>2. b2 .. (FileSize - 1) = {}
    BY <1>1, <1>3
  <2> QED BY <2>1, <2>2 DEF p
<1>4. CASE total # b2 - b1 /\ total - 1 - b2 + 1 <= RangeThreshold
  <2>1. p = <<Piece(b2, total - 1)>>
    BY <1>2, <1>4 DEF RangesOf
  <2>2. DOMAIN p = {1} /\ p[1].start = b2 /\ p[1].end = total - 1
    BY <2>1 DEF Piece
  <2>3. /\ 1 \in 1 .. MaxChildren /\ p[1].start \in 0 .. FileSize
        /\ p[1].end \in -1 .. (FileSize - 1)
    BY <1>1, <2>2
  <2>4. \A x \in b2 .. (FileSize - 1) :
          p[1].start > p[1].end \/ (p[1].start <= x /\ x <= p[1].end)
    BY <1>1, <2>2
  <2> QED BY <2>2, <2>3, <2>4 DEF p
<1>5. CASE total # b2 - b1 /\ ~(total - 1 - b2 + 1 <= RangeThreshold)
  <2> DEFINE l == total - 1
             t == l - b2 + 1
             n == t \div PartSize(t)
  <2>1. /\ total = FileSize /\ l \in Nat /\ t > RangeThreshold /\ t \in Nat /\ t <= FileSize - 1
        /\ l = FileSize - 1 /\ b2 \in Nat
    BY <1>1, <1>5
  <2>7. p = RangesOf(b2, l)
    BY <1>2, <1>5
  <2> HIDE DEF l
  <2>2. /\ n \in Nat \ {0} /\ n * RangeThreshold <= t /\ DOMAIN p = 1 .. n
        /\ \A i \in 1 .. n : /\ p[i].start \in Nat /\ p[i].end \in Nat
                             /\ b2 <= p[i].start /\ p[i].start <= p[i].end /\ p[i].end <= l
        /\ \A x \in b2 .. l : \E i \in 1 .. n : p[i].start <= x /\ x <= p[i].end
    BY <2>1, <2>7, Split
  <2> HIDE DEF n, t
  <2>3. n <= (FileSize - 1) \div RangeThreshold
    <3> DEFINE q == (FileSize - 1) \div RangeThreshold
    <3>1. q \in Nat /\ FileSize - 1 < q * RangeThreshold + RangeThreshold
      BY <1>1, Division
    <3> HIDE DEF q
    <3> SUFFICES ASSUME q + 1 <= n PROVE FALSE
      BY <2>2, <3>1 DEF q
    <3>2. (q + 1) * RangeThreshold <= n * RangeThreshold /\ n * RangeThreshold \in Nat
          /\ (q + 1) * RangeThreshold \in Nat
      BY <1>1, <2>2, <3>1, Multiples
    <3>3. (q + 1) * RangeThreshold = q * RangeThreshold + RangeThreshold /\ q * RangeThreshold \in Nat
      BY <1>1, <3>1
    <3>4. PICK a \in Nat, b \in Nat : a = q * RangeThreshold /\ b = n * RangeThreshold
      BY <3>2, <3>3
    <3>5. a + RangeThreshold <= b /\ b <= t /\ FileSize - 1 < a + RangeThreshold
      BY <2>2, <3>1, <3>2, <3>3, <3>4
    <3> QED BY <1>1, <2>1, <3>5
  <2>4. n <= MaxChildren
    BY <1>1, <2>2, <2>3, Division
  <2>5. \A j \in DOMAIN p : /\ j \in 1 .. MaxChildren
                            /\ p[j].start \in 0 .. FileSize
                            /\ p[j].end \in -1 .. (FileSize - 1)
    <3> SUFFICES ASSUME NEW j \in 1 .. n
                 PROVE  /\ j \in 1 .. MaxChildren /\ p[j].start \in 0 .. FileSize
                        /\ p[j].end \in -1 .. (FileSize - 1)
      BY <2>2
    <3>1. j \in 1 .. MaxChildren
      BY <1>1, <2>2, <2>4
    <3>2. /\ p[j].start \in Nat /\ p[j].end \in Nat
          /\ p[j].start <= p[j].end /\ p[j].end <= FileSize - 1
      BY <2>1, <2>2
    <3> QED BY <1>1, <3>1, <3>2
  <2>6. \A x \in b2 .. (FileSize - 1) : \E j \in DOMAIN p : p[j].start <= x /\ x <= p[j].end
    BY <2>1, <2>2
  <2> QED BY <2>5, <2>6 DEF p
<1> QED BY <1>3, <1>4, <1>5 DEF p

-----------------------------------------------------------------------------
(* The invariant of the classic path. *)

\* The outcome is open until the work ends.
Outcomes ==
  /\ phase \in {"opened", "transfer", "truncating"} <=> result = "pending"
  /\ phase = "unlinking" => result = "error"

\* Outside an attempt no handler is at work.
Idle == phase # "transfer" => \A i \in Handlers : handler[i].link \in {"absent", "settled"}

\* One error for each URL that was left behind.
Counted == (result = "pending" => errors = urlIndex - 1) /\ EveryUrlTried

\* The bytes a handler of the current attempt is still to bring or to write.
Owes(i, r) ==
  CASE r.link \in {"queued", "open"} ->
         IF i = Parent \/ ~Valid(r) THEN Bytes ELSE r.first .. r.last
    [] r.link = "body" -> r.writes \cup (r.position .. (r.limit - 1))
    [] r.link = "ended" -> r.writes
    [] r.link \in {"absent", "settled"} -> {}

\* While an attempt lasts every byte is on disk, kept from it by a response or a
\* write, or owed by some handler.
Covered ==
  phase = "transfer" =>
    \A b \in Bytes : b \in disk \cup missing \/ \E i \in Handlers : b \in Owes(i, handler[i])

\* The parent asks for the beginning of the file.
FromStart == handler[Parent].link \in {"queued", "open"} => handler[Parent].first = 0

\* The inductive invariant of the classic path.
CInv ==
  /\ TypeOK /\ Outcomes /\ Idle /\ Counted /\ FromStart
  /\ Covered /\ AbortReachesAll /\ FileOnDisk

-----------------------------------------------------------------------------
(* The handlers. *)

LEMMA Fields ==
  ASSUME NEW r \in Handler
  PROVE  /\ r.link \in {"absent", "queued", "open", "body", "ended", "settled"}
         /\ r.first \in 0 .. FileSize /\ r.last \in -1 .. (FileSize - 1)
         /\ r.position \in 0 .. FileSize /\ r.limit \in 0 .. FileSize /\ r.writes \subseteq Bytes
BY DEF Handler

LEMMA AskingTyped ==
  ASSUME NEW f \in 0 .. FileSize, NEW l \in -1 .. (FileSize - 1)
  PROVE  /\ Asking(f, l) \in Handler
         /\ Asking(f, l).link = "queued" /\ Asking(f, l).first = f /\ Asking(f, l).last = l
         /\ Asking(f, l).writes = {}
BY ConstantsTyped DEF Asking, Handler

LEMMA NobodyTyped ==
  /\ Nobody \in [Handlers -> Handler]
  /\ \A i \in Handlers : Nobody[i].link = "absent" /\ Nobody[i].writes = {}
<1>1. Absent \in Handler /\ Absent.link = "absent" /\ Absent.writes = {}
  BY ConstantsTyped DEF Absent, Asking, Handler
<1> QED BY <1>1 DEF Nobody

LEMMA ParentIsHandler == Parent \in Handlers /\ Handlers \ {Parent} = 1 .. MaxChildren
BY ConstantsTyped DEF Parent, Handlers

LEMMA FreshTyped ==
  /\ FreshAttempt \in [Handlers -> Handler]
  /\ FreshAttempt[Parent].link = "queued" /\ FreshAttempt[Parent].first = 0
  /\ \A i \in Handlers : FreshAttempt[i].link \in {"queued", "absent"} /\ FreshAttempt[i].writes = {}
<1>1. 0 \in 0 .. FileSize /\ Lesser(RangeThreshold, FileSize) - 1 \in -1 .. (FileSize - 1)
  BY ConstantsTyped DEF Lesser
<1> DEFINE a == Asking(0, Lesser(RangeThreshold, FileSize) - 1)
<1>2. a \in Handler /\ a.link = "queued" /\ a.first = 0 /\ a.writes = {}
  BY <1>1, AskingTyped
<1> HIDE DEF a
<1>3. FreshAttempt = [Nobody EXCEPT ![Parent] = a]
  BY DEF FreshAttempt, a
<1> QED BY <1>2, <1>3, NobodyTyped, ParentIsHandler

LEMMA StreamingTyped ==
  ASSUME NEW r \in Handler, NEW f \in 0 .. FileSize, NEW e \in 0 .. FileSize
  PROVE  LET s == Streaming(r, f, e)
         IN  /\ s \in Handler /\ s.link = "body" /\ s.writes = r.writes
             /\ s.position = f /\ s.limit = e
BY Fields DEF Streaming, Handler

\* A body lies in the file, and ends where it says or before.
LEMMA BodiesTyped ==
  ASSUME NEW r, NEW b \in Bodies(r), NEW end \in Ends(b)
  PROVE  /\ b[1] \in 0 .. (FileSize - 1) /\ b[2] \in 1 .. FileSize /\ b[1] < b[2]
         /\ b = <<b[1], b[2]>> /\ end \in 0 .. FileSize /\ b[1] <= end /\ end <= b[2]
<1>1. b[1] \in 0 .. (FileSize - 1) /\ b[2] \in 1 .. FileSize /\ b[1] < b[2] /\ b = <<b[1], b[2]>>
  BY DEF Bodies
<1> QED BY <1>1, ConstantsTyped DEF Ends

\* Those a failed attempt leaves behind: only queued ones after the signal.
LEMMA LeftBehindTyped ==
  ASSUME NEW i
  PROVE  /\ LeftBehind(i) \subseteq {"queued", "open"}
         /\ (\A j \in Handlers : handler[j].link \in {"absent", "queued", "settled"})
              => LeftBehind(i) \subseteq {"queued"}
BY DEF LeftBehind

LEMMA PendingTyped ==
  ASSUME handler \in [Handlers -> Handler]
  PROVE  PendingWrites \subseteq Bytes
<1> SUFFICES ASSUME NEW b \in PendingWrites PROVE b \in Bytes
  OBVIOUS
<1>1. PICK j \in Handlers : b \in handler[j].writes
  BY DEF PendingWrites
<1> QED BY <1>1, Fields

-----------------------------------------------------------------------------
(* Steps by their shape. *)

\* The attempt is over: either none is at work, or a fresh one is.
LEMMA AfreshKeeps ==
  ASSUME CInv, TypeOK', Outcomes', Counted', result' # "ok",
         \/ phase' # "transfer" /\ handler' = Nobody
         \/ phase' = "transfer" /\ handler' = FreshAttempt,
         signalled' => stale' \subseteq {"queued"}
  PROVE  CInv'
<1>1. \A i \in Handlers : handler'[i].link \in {"queued", "absent"}
  BY NobodyTyped, FreshTyped
<1>2. Idle' /\ FromStart' /\ AbortReachesAll'
  BY <1>1, NobodyTyped, FreshTyped, ParentIsHandler DEF Idle, FromStart, AbortReachesAll
<1>3. Covered'
  <2> SUFFICES ASSUME phase' = "transfer" PROVE Bytes \subseteq Owes(Parent, handler'[Parent])
    BY ParentIsHandler DEF Covered
  <2> QED BY FreshTyped DEF Owes
<1> QED BY <1>2, <1>3 DEF CInv, FileOnDisk

\* The handlers of the attempt have moved on to h.
LEMMA OnwardKeeps ==
  ASSUME CInv, phase = "transfer", ~signalled, UNCHANGED <<signalled, stale, strays, fileVars>>,
         NEW h \in [Handlers -> Handler], HandlersBecome(h), disk' \subseteq Bytes,
         missing' \subseteq Bytes, h[Parent].link \in {"queued", "open"} => h[Parent].first = 0,
         \A b \in Bytes : b \in disk' \cup missing' \/ \E i \in Handlers : b \in Owes(i, h[i])
  PROVE  CInv'
<1>1. /\ handler' = h /\ UNCHANGED <<urlIndex, restarted>> /\ result = "pending"
      /\ errors = urlIndex - 1
  BY DEF HandlersBecome, CInv, Outcomes, Counted
<1>2. CASE AllSettled(h)
  <2>1. phase' = "closing" /\ result' = "ok" /\ errors' = 0
    BY <1>2 DEF HandlersBecome
  <2>2. TypeOK'
    BY <1>1, <2>1, ConstantsTyped DEF CInv, TypeOK, fileVars
  <2>3. \A i \in Handlers : h[i].link \in {"absent", "settled"}
    BY <1>2 DEF AllSettled
  <2>4. \A i \in Handlers : Owes(i, h[i]) = {}
    BY <2>3 DEF Owes
  <2>5. Bytes \subseteq disk' \cup missing'
    BY <2>4
  <2> QED BY <1>1, <2>1, <2>2, <2>3, <2>5, ParentIsHandler
          DEF CInv, Outcomes, Idle, Counted, EveryUrlTried, FromStart, Covered,
              AbortReachesAll, FileOnDisk
<1>3. CASE ~AllSettled(h)
  <2>1. UNCHANGED <<phase, result, errors>>
    BY <1>3 DEF HandlersBecome
  <2>2. TypeOK'
    BY <1>1, <2>1 DEF CInv, TypeOK, fileVars
  <2> QED BY <1>1, <2>1, <2>2
          DEF CInv, Outcomes, Idle, Counted, EveryUrlTried, FromStart, Covered,
              AbortReachesAll, FileOnDisk
<1> QED BY <1>2, <1>3

\* As above, when no handler can have settled.
LEMMA UnsettledKeeps ==
  ASSUME CInv, phase = "transfer", ~signalled,
         UNCHANGED <<phase, result, signalled, loopVars, stale, strays, fileVars>>,
         NEW h \in [Handlers -> Handler], handler' = h, disk' \subseteq Bytes,
         missing' \subseteq Bytes, h[Parent].link \in {"queued", "open"} => h[Parent].first = 0,
         \A b \in Bytes : b \in disk' \cup missing' \/ \E i \in Handlers : b \in Owes(i, h[i])
  PROVE  CInv'
<1>1. TypeOK' /\ result = "pending"
  BY DEF CInv, TypeOK, Outcomes, loopVars, fileVars
<1> QED BY <1>1
        DEF CInv, Outcomes, Idle, Counted, EveryUrlTried, FromStart, Covered,
            AbortReachesAll, FileOnDisk, loopVars

\* What handlers of failed attempts do disturbs nothing.
LEMMA BesideKeeps ==
  ASSUME CInv, UNCHANGED <<phase, result, signalled, loopVars, handler, missing, fileVars>>,
         stale' \subseteq {"queued", "open"}, strays' \subseteq Bytes,
         disk \subseteq disk', disk' \subseteq Bytes,
         signalled => stale' \subseteq {"queued"}
  PROVE  CInv'
<1>1. TypeOK'
  BY DEF CInv, TypeOK, loopVars, fileVars
<1>2. Covered'
  BY DEF CInv, Covered
<1> QED BY <1>1, <1>2
        DEF CInv, Outcomes, Idle, Counted, EveryUrlTried, FromStart,
            AbortReachesAll, FileOnDisk, loopVars

\* Only handler i has moved, and what it no longer owes is on disk or missing.
LEMMA OthersStay ==
  ASSUME CInv, phase = "transfer", NEW i \in Handlers, NEW h,
         \A j \in Handlers \ {i} : h[j] = handler[j],
         disk \subseteq disk', missing \subseteq missing',
         Owes(i, handler[i]) \subseteq disk' \cup missing' \cup Owes(i, h[i])
  PROVE  \A b \in Bytes : b \in disk' \cup missing' \/ \E j \in Handlers : b \in Owes(j, h[j])
<1> SUFFICES ASSUME NEW b \in Bytes, b \notin disk' \cup missing' PROVE \E j \in Handlers : b \in Owes(j, h[j])
  OBVIOUS
<1>1. PICK j \in Handlers : b \in Owes(j, handler[j])
  BY DEF CInv, Covered
<1> QED BY <1>1

\* The first handler to fail: every way the loop goes on.
LEMMA FailKeeps ==
  ASSUME CInv, phase = "transfer", NEW i \in Handlers, NEW rangeRetry \in BOOLEAN,
         FailAttempt(i, rangeRetry), UNCHANGED <<signalled, fileVars, disk>>
  PROVE  CInv'
<1>1. /\ handler \in [Handlers -> Handler] /\ result = "pending" /\ errors = urlIndex - 1
      /\ urlIndex \in 1 .. NUrls /\ NUrls \in Nat \ {0}
  BY ConstantsTyped DEF CInv, TypeOK, Outcomes, Counted
<1>2. /\ stale' \subseteq {"queued", "open"} /\ strays' \subseteq Bytes
      /\ missing' = {} /\ missing' \subseteq Bytes
  BY <1>1, LeftBehindTyped, PendingTyped DEF FailAttempt, CInv, TypeOK
<1>3. signalled' => stale' \subseteq {"queued"}
  BY LeftBehindTyped DEF FailAttempt, CInv, AbortReachesAll
<1>4. CASE /\ signalled /\ handler' = Nobody /\ phase' = "closing" /\ result' = "error"
           /\ UNCHANGED loopVars
  <2>1. TypeOK' /\ Outcomes' /\ Counted'
    BY <1>2, <1>4, NobodyTyped
       DEF CInv, TypeOK, Outcomes, Counted, EveryUrlTried, loopVars, fileVars
  <2> QED BY <1>3, <1>4, <2>1, AfreshKeeps
<1>5. CASE /\ ~signalled /\ handler' = Nobody /\ phase' = "truncating" /\ restarted' = TRUE
           /\ UNCHANGED <<result, urlIndex, errors>>
  <2>1. TypeOK' /\ Outcomes' /\ Counted'
    BY <1>1, <1>2, <1>5, NobodyTyped
       DEF CInv, TypeOK, Outcomes, Counted, EveryUrlTried, fileVars
  <2> QED BY <1>1, <1>3, <1>5, <2>1, AfreshKeeps
<1>6. CASE /\ ~signalled /\ errors' = errors + 1 /\ LastUrl
           /\ phase' = "closing" /\ result' = "error" /\ handler' = Nobody
           /\ UNCHANGED <<urlIndex, restarted>>
  <2>1. errors' = NUrls
    BY <1>1, <1>6 DEF LastUrl
  <2>2. TypeOK' /\ Outcomes' /\ Counted'
    BY <1>1, <1>2, <1>6, <2>1, NobodyTyped
       DEF CInv, TypeOK, Outcomes, Counted, EveryUrlTried, fileVars
  <2> QED BY <1>3, <1>6, <2>2, AfreshKeeps
<1>7. CASE /\ ~signalled /\ errors' = errors + 1 /\ ~LastUrl
           /\ urlIndex' = urlIndex + 1 /\ restarted' = FALSE /\ handler' = FreshAttempt
           /\ UNCHANGED <<phase, result>>
  <2>1. urlIndex' \in 1 .. NUrls /\ errors' \in 0 .. NUrls /\ errors' = urlIndex' - 1
    BY <1>1, <1>7 DEF LastUrl
  <2>2. TypeOK' /\ Outcomes' /\ Counted'
    BY <1>1, <1>2, <1>7, <2>1, FreshTyped
       DEF CInv, TypeOK, Outcomes, Counted, EveryUrlTried, fileVars
  <2> QED BY <1>1, <1>3, <1>7, <2>2, AfreshKeeps
<1> QED BY <1>4, <1>5, <1>6, <1>7 DEF FailAttempt

-----------------------------------------------------------------------------
(* The steps of a handler. *)

LEMMA ActiveUnsignalled ==
  ASSUME CInv, NEW i \in Handlers, Active(i, {"open", "body", "ended"})
  PROVE  phase = "transfer" /\ ~signalled /\ handler[i] \in Handler
BY DEF Active, CInv, TypeOK, AbortReachesAll

LEMMA ConnectKeeps ==
  ASSUME CInv, NEW i \in Handlers, Connect(i)
  PROVE  CInv'
<1>1. phase = "transfer" /\ handler[i].link = "queued" /\ UNCHANGED <<disk, signalled, fileVars>>
  BY DEF Connect, Active, UNCHANGEDRest
<1>2. CASE signalled
  BY <1>1, <1>2, FailKeeps DEF Connect
<1>3. CASE ~signalled
  <2> DEFINE h == [handler EXCEPT ![i].link = "open"]
  <2>1. handler' = h /\ UNCHANGED <<phase, result, loopVars, stale, strays, missing>>
    BY <1>3 DEF Connect
  <2>2. handler \in [Handlers -> Handler] /\ handler[i] \in Handler
    BY DEF CInv, TypeOK
  <2>3. /\ h[i] = [handler[i] EXCEPT !.link = "open"] /\ \A j \in Handlers \ {i} : h[j] = handler[j]
        /\ h \in [Handlers -> Handler] /\ h[i].link = "open" /\ h[i].first = handler[i].first
        /\ h[i].last = handler[i].last
    <3>1. [handler[i] EXCEPT !.link = "open"] \in Handler
      BY <2>2 DEF Handler
    <3> QED BY <2>2, <3>1 DEF Handler
  <2> HIDE DEF h
  <2>4. Owes(i, handler[i]) = Owes(i, h[i])
    BY <1>1, <2>3 DEF Owes, Valid
  <2>5. h[Parent].link \in {"queued", "open"} => h[Parent].first = 0
    BY <1>1, <2>3, ParentIsHandler DEF CInv, FromStart
  <2>6. \A b \in Bytes : b \in disk' \cup missing' \/ \E j \in Handlers : b \in Owes(j, h[j])
    BY <1>1, <2>1, <2>3, <2>4, OthersStay
  <2>7. disk' \subseteq Bytes /\ missing' \subseteq Bytes
    BY <1>1, <2>1 DEF CInv, TypeOK
  <2> QED BY <1>1, <1>3, <2>1, <2>3, <2>5, <2>6, <2>7, UnsettledKeeps
<1> QED BY <1>2, <1>3

LEMMA FullResponseKeeps ==
  ASSUME CInv, NEW i \in Handlers, FullResponse(i)
  PROVE  CInv'
<1>1. /\ handler[i].link = "open" /\ handler \in [Handlers -> Handler]
      /\ UNCHANGED <<phase, result, loopVars, stale, strays, disk, signalled, fileVars>>
      /\ phase = "transfer" /\ ~signalled /\ handler[i] \in Handler
      /\ missing \subseteq Bytes /\ disk \subseteq Bytes
  BY ActiveUnsignalled DEF FullResponse, Active, UNCHANGEDRest, CInv, TypeOK
<1>2. PICK end \in Ends(<<0, FileSize>>) :
        /\ handler' = [handler EXCEPT ![i] = Streaming(@, 0, end)]
        /\ missing' = missing \cup Span(end, FileSize)
  BY DEF FullResponse
<1>3. FileSize \in Nat \ {0} /\ end \in 0 .. FileSize
  BY <1>2, ConstantsTyped DEF Ends
<1> DEFINE s == Streaming(handler[i], 0, end)
           h == [handler EXCEPT ![i] = s]
<1>4. handler' = h
  BY <1>2
<1>5. s \in Handler /\ s.link = "body" /\ s.position = 0 /\ s.limit = end
  BY <1>1, <1>3, StreamingTyped
<1> HIDE DEF s
<1>6. h[i] = s /\ h \in [Handlers -> Handler]
  BY <1>1, <1>5
<1>7. \A j \in Handlers \ {i} : h[j] = handler[j]
  BY <1>1
<1> HIDE DEF h
<1>8. missing' \subseteq Bytes /\ disk' \subseteq Bytes
  BY <1>1, <1>2, <1>3 DEF Span, Bytes
<1>9. \A b \in Bytes : b \in disk' \cup missing' \/ \E j \in Handlers : b \in Owes(j, h[j])
  <2> SUFFICES ASSUME NEW b \in Bytes, b \notin missing' PROVE b \in Owes(i, h[i])
    OBVIOUS
  <2>1. b \in Nat /\ b <= FileSize - 1 /\ b \notin Span(end, FileSize)
    BY <1>2, <1>3 DEF Bytes
  <2>2. b < end
    BY <1>3, <2>1 DEF Span
  <2> QED BY <1>3, <1>5, <1>6, <2>1, <2>2 DEF Owes
<1>10. h[Parent].link \in {"queued", "open"} => h[Parent].first = 0
  BY <1>5, <1>6, <1>7, ParentIsHandler DEF CInv, FromStart
<1> QED BY <1>1, <1>4, <1>6, <1>8, <1>9, <1>10, UnsettledKeeps

\* A child's response, or the parent's with the children it calls for.  A body
\* that is not the one asked for leaves out what nobody asks for.
LEMMA PartialResponseKeeps ==
  ASSUME CInv, NEW i \in Handlers, NEW total \in {0, FileSize}, PartialResponse(i, total)
  PROVE  CInv'
<1>1. /\ handler[i].link = "open" /\ handler \in [Handlers -> Handler] /\ Valid(handler[i])
      /\ UNCHANGED <<phase, result, loopVars, stale, strays, disk, signalled, fileVars>>
      /\ phase = "transfer" /\ ~signalled /\ handler[i] \in Handler
      /\ missing \subseteq Bytes /\ disk \subseteq Bytes
  BY ActiveUnsignalled DEF PartialResponse, Active, UNCHANGEDRest, CInv, TypeOK
<1> DEFINE r == handler[i]
<1>a. PICK bd \in Bodies(r) : \E end \in Ends(bd) :
        LET pieces == IF i = Parent THEN ChildRanges(bd, total) ELSE <<>>
        IN  /\ handler' = [j \in Handlers |->
                 IF j = i THEN Streaming(r, bd[1], end)
                 ELSE IF j \in DOMAIN pieces THEN Asking(pieces[j].start, pieces[j].end)
                 ELSE handler[j]]
            /\ missing' = missing \cup Skipped(i, r, bd) \cup Span(end, bd[2])
  BY DEF PartialResponse
<1>2. PICK end \in Ends(bd) :
        LET pieces == IF i = Parent THEN ChildRanges(bd, total) ELSE <<>>
        IN  /\ handler' = [j \in Handlers |->
                 IF j = i THEN Streaming(r, bd[1], end)
                 ELSE IF j \in DOMAIN pieces THEN Asking(pieces[j].start, pieces[j].end)
                 ELSE handler[j]]
            /\ missing' = missing \cup Skipped(i, r, bd) \cup Span(end, bd[2])
  BY <1>a
<1> DEFINE s == Streaming(r, bd[1], end)
           p == IF i = Parent THEN ChildRanges(bd, total) ELSE <<>>
           h == [j \in Handlers |->
                   IF j = i THEN s
                   ELSE IF j \in DOMAIN p THEN Asking(p[j].start, p[j].end)
                   ELSE handler[j]]
           b1 == bd[1]
           b2 == bd[2]
<1>3. handler' = h /\ missing' = missing \cup Skipped(i, r, bd) \cup Span(end, b2)
  BY <1>2
<1>4. /\ b1 \in 0 .. (FileSize - 1) /\ b2 \in 1 .. FileSize /\ b1 < b2 /\ bd = <<b1, b2>>
      /\ end \in 0 .. FileSize /\ b1 <= end /\ end <= b2
  BY BodiesTyped
<1>5. s \in Handler /\ s.link = "body" /\ s.position = b1 /\ s.limit = end
  <2>1. b1 \in 0 .. FileSize
    BY <1>4, ConstantsTyped
  <2> QED BY <1>1, <1>4, <2>1, StreamingTyped
<1>6. /\ r.first \in 0 .. FileSize /\ r.last \in -1 .. (FileSize - 1)
      /\ r.first <= r.last /\ FileSize \in Nat \ {0} /\ Asked(r) = <<r.first, r.last + 1>>
  BY <1>1, Fields, ConstantsTyped DEF Valid, Lesser, Asked
<1>7. disk' \subseteq Bytes /\ missing' \subseteq Bytes
  BY <1>1, <1>3, <1>4, <1>6 DEF Skipped, Span, Bytes
<1> HIDE DEF s, b1, b2
\* A byte of the body comes with it, or is cut off.
<1>8. ASSUME NEW n \in [Handlers -> Handler], n[i] = s, NEW b \in b1 .. (b2 - 1)
      PROVE  b \in missing' \/ b \in Owes(i, n[i])
  <2>1. b \in Nat /\ b < b2 /\ b1 <= b
    BY <1>4, <1>8
  <2>2. CASE b < end
    BY <1>4, <1>5, <1>8, <2>1, <2>2 DEF Owes
  <2>3. CASE end <= b
    <3>1. b \in Span(end, b2)
      BY <1>4, <2>1, <2>3 DEF Span
    <3> QED BY <1>3, <3>1
  <2> QED BY <1>4, <2>1, <2>2, <2>3
<1>9. CASE i # Parent
  <2>1. h = [handler EXCEPT ![i] = s]
    <3>1. DOMAIN p = {}
      BY <1>9
    <3> QED BY <1>1, <3>1
  <2>2. h[i] = s /\ h \in [Handlers -> Handler] /\ \A j \in Handlers \ {i} : h[j] = handler[j]
    BY <1>1, <1>5, <2>1
  <2> HIDE DEF h, p
  <2>3. Owes(i, handler[i]) \subseteq disk' \cup missing' \cup Owes(i, h[i])
    <3> SUFFICES ASSUME NEW b \in Owes(i, r), b \notin missing' PROVE b \in Owes(i, h[i])
      OBVIOUS
    <3>1. b \in r.first .. r.last
      BY <1>1, <1>9 DEF Owes
    <3>2. b \in Span(Asked(r)[1], Asked(r)[2])
      BY <1>6, <3>1 DEF Span
    <3>3. b \in Span(b1, b2)
      BY <1>3, <1>9, <3>2 DEF Skipped, b1, b2
    <3> QED BY <1>8, <2>2, <3>3 DEF Span
  <2>4. h[Parent].link \in {"queued", "open"} => h[Parent].first = 0
    BY <1>9, <2>2, ParentIsHandler DEF CInv, FromStart
  <2>5. missing \subseteq missing'
    BY <1>3
  <2>6. \A b \in Bytes : b \in disk' \cup missing' \/ \E j \in Handlers : b \in Owes(j, h[j])
    BY <1>1, <2>2, <2>3, <2>5, OthersStay
  <2> QED BY <1>1, <1>3, <1>7, <2>2, <2>4, <2>6, UnsettledKeeps
<1>10. CASE i = Parent
  <2>1. p = ChildRanges(<<b1, b2>>, total)
    BY <1>4, <1>10
  <2>2. /\ \A j \in DOMAIN p : /\ j \in 1 .. MaxChildren
                               /\ p[j].start \in 0 .. FileSize
                               /\ p[j].end \in -1 .. (FileSize - 1)
        /\ \A x \in b2 .. (FileSize - 1) : \E j \in DOMAIN p :
             \/ p[j].start > p[j].end
             \/ p[j].start <= x /\ x <= p[j].end
    BY <1>4, <2>1, ChildrenCover
  <2>3. \A j \in DOMAIN p : j \in Handlers \ {Parent}
    BY <2>2, ParentIsHandler
  <2> HIDE DEF p
  <2>4. h[Parent] = s /\ \A j \in Handlers \ {Parent} :
          h[j] = IF j \in DOMAIN p THEN Asking(p[j].start, p[j].end) ELSE handler[j]
    BY <1>10, ParentIsHandler
  <2>5. \A j \in DOMAIN p : Asking(p[j].start, p[j].end) \in Handler
    BY <2>2, AskingTyped
  <2>6. h \in [Handlers -> Handler]
    BY <1>1, <1>5, <2>5
  <2> HIDE DEF h
  <2>7. ASSUME NEW b \in Bytes
        PROVE  b \in disk' \cup missing' \/ \E j \in Handlers : b \in Owes(j, h[j])
    <3>1. b \in Nat /\ b <= FileSize - 1
      BY <1>6 DEF Bytes
    <3>2. CASE b < b1
      <4>1. b \in Span(0, b1)
        BY <1>4, <3>1, <3>2 DEF Span
      <4> QED BY <1>3, <1>10, <4>1 DEF Skipped, b1
    <3>3. CASE b1 <= b /\ b < b2
      <4>1. b \in b1 .. (b2 - 1)
        BY <1>4, <3>1, <3>3
      <4> QED BY <1>8, <1>10, <2>4, <2>6, <4>1
    <3>4. CASE b >= b2
      <4>1. PICK j \in DOMAIN p : \/ p[j].start > p[j].end
                                  \/ p[j].start <= b /\ b <= p[j].end
        BY <1>6, <2>2, <3>1, <3>4
      <4>2. j \in Handlers \ {Parent} /\ h[j] = Asking(p[j].start, p[j].end)
        BY <2>3, <2>4, <4>1
      <4>3. /\ h[j].link = "queued" /\ h[j].first = p[j].start /\ h[j].last = p[j].end
            /\ h[j].first \in 0 .. FileSize /\ h[j].last \in -1 .. (FileSize - 1)
        BY <2>2, <4>2, AskingTyped
      <4>4. b \in Owes(j, h[j])
        BY <1>6, <3>1, <4>1, <4>2, <4>3 DEF Owes, Valid
      <4> QED BY <4>2, <4>4
    <3> QED BY <1>4, <3>1, <3>2, <3>3, <3>4
  <2>8. h[Parent].link = "body"
    BY <1>5, <2>4
  <2> QED BY <1>1, <1>3, <1>7, <2>6, <2>7, <2>8, UnsettledKeeps
<1> QED BY <1>9, <1>10

LEMMA DataKeeps ==
  ASSUME CInv, NEW i \in Handlers, Data(i)
  PROVE  CInv'
<1>1. /\ handler[i].link = "body" /\ handler \in [Handlers -> Handler]
      /\ UNCHANGED <<phase, result, loopVars, stale, strays, missing, disk, signalled, fileVars>>
      /\ phase = "transfer" /\ ~signalled /\ handler[i] \in Handler
      /\ handler[i].position < handler[i].limit
  BY ActiveUnsignalled DEF Data, Active, UNCHANGEDRest, CInv, TypeOK
<1> DEFINE r == handler[i]
           n == [r EXCEPT !.position = @ + 1, !.writes = @ \cup {r.position}]
           h == [handler EXCEPT ![i] = n]
<1>2. handler' = h
  BY <1>1 DEF Data
<1>3. /\ r.position \in Nat /\ r.limit \in 0 .. FileSize /\ r.writes \subseteq Bytes
      /\ r.position \in Bytes /\ r.position + 1 \in 0 .. FileSize
  BY <1>1, Fields, ConstantsTyped DEF Bytes
<1>4. /\ n \in Handler /\ n.link = "body" /\ n.position = r.position + 1
      /\ n.limit = r.limit /\ n.writes = r.writes \cup {r.position}
  BY <1>1, <1>3 DEF Handler
<1> HIDE DEF n
<1>5. h[i] = n /\ h \in [Handlers -> Handler] /\ \A j \in Handlers \ {i} : h[j] = handler[j]
  BY <1>1, <1>4
<1> HIDE DEF h
<1>6. Owes(i, handler[i]) \subseteq Owes(i, h[i])
  <2>1. \A b \in r.position .. (r.limit - 1) :
          b = r.position \/ b \in (r.position + 1) .. (r.limit - 1)
    BY <1>3
  <2> QED BY <1>1, <1>4, <1>5, <2>1 DEF Owes
<1>7. h[Parent].link \in {"queued", "open"} => h[Parent].first = 0
  BY <1>4, <1>5, ParentIsHandler DEF CInv, FromStart
<1>8. \A b \in Bytes : b \in disk' \cup missing' \/ \E j \in Handlers : b \in Owes(j, h[j])
  BY <1>1, <1>5, <1>6, OthersStay
<1>9. disk' \subseteq Bytes /\ missing' \subseteq Bytes
  BY <1>1 DEF CInv, TypeOK
<1> QED BY <1>1, <1>2, <1>5, <1>7, <1>8, <1>9, UnsettledKeeps

LEMMA CompleteKeeps ==
  ASSUME CInv, NEW i \in Handlers, Complete(i)
  PROVE  CInv'
<1> DEFINE r == handler[i]
           n == [r EXCEPT !.link = IF r.writes = {} THEN "settled" ELSE "ended"]
           h == [handler EXCEPT ![i] = n]
<1>1. /\ r.link = "body" /\ handler \in [Handlers -> Handler]
      /\ UNCHANGED <<stale, strays, missing, disk, signalled, fileVars>>
      /\ phase = "transfer" /\ ~signalled /\ r \in Handler
      /\ r.position = r.limit
  BY ActiveUnsignalled DEF Complete, Active, UNCHANGEDRest, CInv, TypeOK
<1>2. HandlersBecome(h)
  BY <1>1 DEF Complete
<1>3. /\ n \in Handler /\ n.link = IF r.writes = {} THEN "settled" ELSE "ended"
      /\ n.writes = r.writes
  BY <1>1 DEF Handler
<1> HIDE DEF n
<1>4. h[i] = n /\ h \in [Handlers -> Handler] /\ \A j \in Handlers \ {i} : h[j] = handler[j]
  BY <1>1, <1>3
<1> HIDE DEF h
<1>5. Owes(i, r) \subseteq Owes(i, h[i])
  <2>1. r.position .. (r.limit - 1) = {}
    BY <1>1, Fields
  <2>2. Owes(i, r) = r.writes
    BY <1>1, <2>1 DEF Owes
  <2> QED BY <1>3, <1>4, <2>2 DEF Owes
<1>6. h[Parent].link \in {"queued", "open"} => h[Parent].first = 0
  BY <1>3, <1>4, ParentIsHandler DEF CInv, FromStart
<1>7. \A b \in Bytes : b \in disk' \cup missing' \/ \E j \in Handlers : b \in Owes(j, h[j])
  BY <1>1, <1>4, <1>5, OthersStay
<1>8. disk' \subseteq Bytes /\ missing' \subseteq Bytes
  BY <1>1 DEF CInv, TypeOK
<1> QED BY <1>1, <1>2, <1>4, <1>6, <1>7, <1>8, OnwardKeeps

\* A write has called back: the byte is on disk, or missing and nobody looks.
LEMMA WriteKeeps ==
  ASSUME CInv, NEW i \in Handlers, NEW b \in handler[i].writes, WriteDone(i, b) \/ WriteShort(i, b)
  PROVE  CInv'
<1> DEFINE r == handler[i]
           settles == r.link = "ended" /\ r.writes = {b}
           n == [r EXCEPT !.writes = @ \ {b}, !.link = IF settles THEN "settled" ELSE @]
           h == [handler EXCEPT ![i] = n]
<1>1. /\ r.link \in {"body", "ended"} /\ handler \in [Handlers -> Handler]
      /\ UNCHANGED <<stale, strays, signalled, fileVars>>
      /\ \/ disk' = disk \cup {b} /\ UNCHANGED missing
         \/ missing' = missing \cup {b} /\ UNCHANGED disk
      /\ phase = "transfer" /\ ~signalled /\ r \in Handler
  BY ActiveUnsignalled DEF WriteDone, WriteShort, Active, UNCHANGEDRest, CInv, TypeOK
<1>2. HandlersBecome(h)
  BY <1>1 DEF WriteDone, WriteShort, Settle
<1>3. /\ n \in Handler /\ n.link = IF settles THEN "settled" ELSE r.link
      /\ n.writes = r.writes \ {b} /\ n.position = r.position /\ n.limit = r.limit
  BY <1>1 DEF Handler
<1> HIDE DEF n
<1>4. h[i] = n /\ h \in [Handlers -> Handler] /\ \A j \in Handlers \ {i} : h[j] = handler[j]
  BY <1>1, <1>3
<1> HIDE DEF h
<1>5. /\ Owes(i, r) \subseteq disk' \cup missing' \cup Owes(i, h[i])
      /\ disk \subseteq disk' /\ missing \subseteq missing'
  BY <1>1, <1>3, <1>4 DEF Owes
<1>6. h[Parent].link \in {"queued", "open"} => h[Parent].first = 0
  BY <1>1, <1>3, <1>4, ParentIsHandler DEF CInv, FromStart
<1>7. \A x \in Bytes : x \in disk' \cup missing' \/ \E j \in Handlers : x \in Owes(j, h[j])
  BY <1>1, <1>4, <1>5, OthersStay
<1>8. disk' \subseteq Bytes /\ missing' \subseteq Bytes
  BY <1>1, Fields DEF CInv, TypeOK
<1> QED BY <1>1, <1>2, <1>4, <1>6, <1>7, <1>8, OnwardKeeps

\* Everything a handler of the current attempt may do.
LEMMA HandlerKeeps ==
  ASSUME CInv, NEW i \in Handlers, Advance(i) \/ CallBack(i)
  PROVE  CInv'
<1>1. CASE ErrorResponse(i)
  BY <1>1, FailKeeps DEF ErrorResponse, Active, UNCHANGEDRest
<1>2. ASSUME NEW rangeRetry \in BOOLEAN, NetworkError(i, rangeRetry) PROVE CInv'
  BY <1>2, FailKeeps DEF NetworkError, Active, UNCHANGEDRest
<1>3. ASSUME NEW b \in handler[i].writes, WriteError(i, b) PROVE CInv'
  BY <1>3, FailKeeps DEF WriteError, Active, UNCHANGEDRest
<1>4. CASE Advance(i)
  BY <1>1, <1>2, <1>4, ConnectKeeps, FullResponseKeeps, PartialResponseKeeps, DataKeeps,
     CompleteKeeps DEF Advance
<1>5. CASE CallBack(i)
  BY <1>3, <1>5, WriteKeeps DEF CallBack
<1> QED BY <1>4, <1>5

-----------------------------------------------------------------------------
(* The steps of download() itself, of the caller and of what runs on. *)

LEMMA OrchestrateKeeps ==
  ASSUME CInv, Orchestrate
  PROVE  CInv'
<1>1. CASE Begin
  <2>1. /\ phase = "opened" /\ result = "pending" /\ errors = urlIndex - 1
        /\ UNCHANGED <<signalled, loopVars, stale, strays, missing, fileVars, disk>>
        /\ \A i \in Handlers : handler[i].link \in {"absent", "settled"}
    BY <1>1 DEF Begin, CInv, Outcomes, Idle, Counted
  <2>2. CASE signalled /\ phase' = "closing" /\ result' = "error" /\ UNCHANGED handler
    <3>1. TypeOK' /\ Outcomes' /\ Idle' /\ Counted' /\ FromStart'
      BY <2>1, <2>2, ParentIsHandler
         DEF CInv, TypeOK, Outcomes, Idle, Counted, EveryUrlTried, FromStart, loopVars, fileVars
    <3> QED BY <2>1, <2>2, <3>1 DEF CInv, Covered, AbortReachesAll, FileOnDisk
  <2>3. CASE ~signalled /\ phase' = "transfer" /\ handler' = FreshAttempt /\ UNCHANGED result
    <3>1. TypeOK' /\ Outcomes' /\ Counted'
      BY <2>1, <2>3, FreshTyped
         DEF CInv, TypeOK, Outcomes, Counted, EveryUrlTried, loopVars, fileVars
    <3> QED BY <2>1, <2>3, <3>1, AfreshKeeps
  <2> QED BY <1>1, <2>2, <2>3 DEF Begin
<1>2. CASE Truncated
  <2>1. /\ phase = "truncating" /\ result = "pending" /\ phase' = "transfer"
        /\ disk' \in {{}, disk} /\ handler' = FreshAttempt
        /\ UNCHANGED <<result, signalled, loopVars, stale, strays, missing, fileVars>>
    BY <1>2 DEF Truncated, CInv, Outcomes
  <2>2. TypeOK' /\ Outcomes' /\ Counted'
    BY <2>1, FreshTyped
       DEF CInv, TypeOK, Outcomes, Counted, EveryUrlTried, loopVars, fileVars
  <2> QED BY <2>1, <2>2, AfreshKeeps DEF CInv, AbortReachesAll
<1>3. CASE Close \/ Unlink
  <2>1. /\ phase \in {"closing", "unlinking"} /\ phase' \in {"unlinking", "returned"}
        /\ UNCHANGED <<result, signalled, loopVars, handler, stale, strays, missing, disk>>
        /\ fd' \in {"open", "closed"} /\ file' \in {"present", "removed", "stuck"}
        /\ phase' = "unlinking" => result # "ok"
    BY <1>3 DEF Close, Unlink, fileVars, CInv, TypeOK
  <2>2. TypeOK'
    BY <2>1 DEF CInv, TypeOK, loopVars
  <2>3. result \in {"ok", "error"}
    BY <2>1 DEF CInv, TypeOK, Outcomes
  <2> QED BY <2>1, <2>2, <2>3
          DEF CInv, Outcomes, Idle, Counted, EveryUrlTried, FromStart, Covered, AbortReachesAll,
              FileOnDisk, loopVars
<1> QED BY <1>1, <1>2, <1>3 DEF Orchestrate

LEMMA UserAbortKeeps ==
  ASSUME CInv, UserAbort
  PROVE  CInv'
<1>1. /\ signalled' = TRUE /\ stale' \subseteq {"queued"}
      /\ UNCHANGED <<loopVars, missing, fileVars, disk>> /\ handler \in [Handlers -> Handler]
  BY DEF UserAbort, CInv, TypeOK
<1>2. stale' \subseteq {"queued", "open"}
  BY <1>1
<1>3. CASE phase = "transfer"
  <2>1. /\ handler' = Nobody /\ strays' = strays \cup PendingWrites
        /\ phase' = "closing" /\ result' = "error"
    BY <1>3 DEF UserAbort
  <2>2. TypeOK' /\ Outcomes' /\ Counted'
    BY <1>1, <1>2, <2>1, NobodyTyped, PendingTyped
       DEF CInv, TypeOK, Outcomes, Counted, EveryUrlTried, loopVars, fileVars
  <2> QED BY <1>1, <2>1, <2>2, AfreshKeeps
<1>4. CASE phase # "transfer"
  <2>1. UNCHANGED <<handler, strays, phase, result>>
    BY <1>4 DEF UserAbort
  <2>2. TypeOK'
    BY <1>1, <1>2, <2>1 DEF CInv, TypeOK, loopVars, fileVars
  <2> QED BY <1>1, <1>4, <2>1, <2>2
          DEF CInv, Outcomes, Idle, Counted, EveryUrlTried, FromStart, Covered, AbortReachesAll,
              FileOnDisk, loopVars
<1> QED BY <1>3, <1>4

LEMMA LeftoverKeeps ==
  ASSUME CInv, Leftover
  PROVE  CInv'
<1>1. /\ stale \subseteq {"queued", "open"} /\ strays \subseteq Bytes /\ disk \subseteq Bytes
      /\ (signalled => stale \subseteq {"queued"})
  BY DEF CInv, TypeOK, AbortReachesAll
<1>2. ASSUME NEW b \in strays, StrayLands(b) \/ StrayFails(b) PROVE CInv'
  <2>1. /\ strays' = strays \ {b} /\ disk' \in {disk, disk \cup {b}}
        /\ UNCHANGED <<phase, result, loopVars, handler, stale, missing, signalled, fileVars>>
    BY <1>2 DEF StrayLands, StrayFails, UNCHANGEDRest
  <2>2. strays' \subseteq Bytes /\ disk \subseteq disk' /\ disk' \subseteq Bytes
    BY <1>1, <2>1
  <2> QED BY <1>1, <2>1, <2>2, BesideKeeps
<1>3. CASE StaleConnects \/ \E k \in stale : StaleEnds(k)
  <2>1. /\ stale' \subseteq {"queued", "open"} /\ (signalled => stale' \subseteq {"queued"})
        /\ UNCHANGED <<phase, result, loopVars, handler, strays, missing, disk, signalled, fileVars>>
    BY <1>1, <1>3 DEF StaleConnects, StaleEnds, UNCHANGEDRest
  <2> QED BY <1>1, <2>1, BesideKeeps
<1>4. ASSUME NEW b \in Bytes, StaleData(b) PROVE CInv'
  <2>1. /\ strays' \subseteq Bytes
        /\ UNCHANGED <<phase, result, loopVars, handler, stale, missing, disk, signalled, fileVars>>
    BY <1>1, <1>4 DEF StaleData, UNCHANGEDRest
  <2> QED BY <1>1, <2>1, BesideKeeps
<1> QED BY <1>2, <1>3, <1>4 DEF Leftover

LEMMA CInvInit == Init => CInv
<1> SUFFICES ASSUME Init PROVE CInv
  OBVIOUS
<1>1. TypeOK
  <2>1. handler \in [Handlers -> Handler]
    BY NobodyTyped DEF Init
  <2>2. urlIndex \in 1 .. NUrls /\ errors \in 0 .. NUrls
    BY ConstantsTyped DEF Init
  <2> QED BY <2>1, <2>2 DEF Init, TypeOK
<1>2. Idle /\ FromStart
  BY NobodyTyped, ParentIsHandler DEF Init, Idle, FromStart
<1> QED BY <1>1, <1>2
        DEF Init, CInv, Outcomes, Counted, EveryUrlTried, Covered, AbortReachesAll, FileOnDisk

LEMMA CInvNext == CInv /\ [Next]_vars => CInv'
<1> SUFFICES ASSUME CInv, [Next]_vars PROVE CInv'
  OBVIOUS
<1>1. CASE UNCHANGED vars
  <2>1. UNCHANGED <<phase, result, signalled, loopVars, handler, stale, strays, missing, fileVars, disk>>
    BY <1>1 DEF vars
  <2> QED BY <2>1, BesideKeeps DEF CInv, TypeOK, AbortReachesAll
<1> QED BY <1>1, OrchestrateKeeps, HandlerKeeps, UserAbortKeeps, LeftoverKeeps DEF Next, Finished

LEMMA CInvAlways == Spec => []CInv
BY CInvInit, CInvNext, PTL DEF Spec

\* Whatever handlers of failed attempts still write, a download of the classic
\* path that returns normally has every byte on disk that a response it trusted
\* or a write it did not check has not kept from it.
THEOREM DiskIsComplete == Spec => []FileOnDisk
<1>1. CInv => FileOnDisk
  BY DEF CInv
<1> QED BY <1>1, CInvAlways, PTL

\* Where mirrors serve what they are asked for and no write is short, nothing is
\* kept from the disk.
LEMMA NothingMissing ==
  ASSUME Faithful, CInv, missing = {}, [Next]_vars
  PROVE  missing' = {}
<1>1. \A n \in Nat : Span(n, n) = {}
  BY DEF Span
<1>2. ASSUME NEW b, NEW end \in Ends(b) PROVE end = b[2]
  BY <1>2 DEF Ends, Faithful
<1>3. ASSUME NEW i \in Handlers, FullResponse(i) PROVE missing' = {}
  <2>1. PICK end \in Ends(<<0, FileSize>>) : missing' = missing \cup Span(end, FileSize)
    BY <1>3 DEF FullResponse
  <2>2. end = FileSize /\ FileSize \in Nat
    BY <1>2, ConstantsTyped
  <2> QED BY <1>1, <2>1, <2>2
<1>4. ASSUME NEW i \in Handlers, NEW total \in {0, FileSize}, PartialResponse(i, total)
      PROVE  missing' = {}
  <2> DEFINE r == handler[i]
  <2>1. PICK b \in Bodies(r) : \E end \in Ends(b) :
          missing' = missing \cup Skipped(i, r, b) \cup Span(end, b[2])
    BY <1>4 DEF PartialResponse
  <2>2. b = Asked(r) /\ b[2] \in Nat
    BY DEF Bodies, Faithful
  <2>3. missing' = Skipped(i, r, b)
    BY <1>1, <1>2, <2>1, <2>2
  <2>4. CASE i = Parent
    <3>1. b[1] = 0
      BY <1>4, <2>2, <2>4 DEF Asked, CInv, FromStart, PartialResponse, Active
    <3> QED BY <1>1, <2>3, <2>4, <3>1 DEF Skipped
  <2>5. CASE i # Parent
    BY <2>2, <2>3, <2>5 DEF Skipped
  <2> QED BY <2>4, <2>5
<1>5. ASSUME NEW i \in Handlers, NEW b \in handler[i].writes,
             WriteDone(i, b) \/ WriteShort(i, b) \/ WriteError(i, b)
      PROVE  missing' = {}
  BY <1>5 DEF WriteDone, WriteShort, WriteError, FailAttempt, Faithful
<1>6. ASSUME NEW i \in Handlers,
             Connect(i) \/ ErrorResponse(i) \/ Data(i) \/ Complete(i)
               \/ \E rangeRetry \in BOOLEAN : NetworkError(i, rangeRetry)
      PROVE  missing' = {}
  BY <1>6 DEF Connect, ErrorResponse, Data, Complete, NetworkError, FailAttempt
<1>7. CASE Orchestrate \/ UserAbort \/ Leftover \/ UNCHANGED vars
  BY <1>7 DEF Orchestrate, Begin, Truncated, Close, Unlink, UserAbort, Leftover, StrayLands,
     StrayFails, StaleConnects, StaleData, StaleEnds, vars
<1> QED BY <1>3, <1>4, <1>5, <1>6, <1>7 DEF Next, Advance, CallBack, Finished

\* Where mirrors serve what they are asked for and no write is short, a download
\* that returns normally has the whole file on disk, whatever handlers of failed
\* attempts still write and whichever writes, truncations and removals fail.
THEOREM FaithfulIsWhole ==
  ASSUME Faithful PROVE Spec => []NoSilentGap
<1> DEFINE Brought == missing = {}
<1>1. Init => Brought
  BY DEF Init
<1>2. CInv /\ Brought /\ [Next]_vars => Brought'
  BY NothingMissing
<1>3. CInv /\ Brought => NoSilentGap
  BY DEF CInv, TypeOK, FileOnDisk, NoSilentGap
<1> HIDE DEF Brought
<1> QED BY <1>1, <1>2, <1>3, CInvAlways, PTL DEF Spec

\* Without an abort the call fails only after every URL failed.
THEOREM UrlsAreTried == Spec => []EveryUrlTried
<1>1. CInv => EveryUrlTried
  BY DEF CInv, Counted
<1> QED BY <1>1, CInvAlways, PTL

\* The caller's signal reaches every connection of the call, those of failed
\* attempts included.
THEOREM AbortIsHeard == Spec => []AbortReachesAll
<1>1. CInv => AbortReachesAll
  BY DEF CInv
<1> QED BY <1>1, CInvAlways, PTL

-----------------------------------------------------------------------------
(* The classic path implements DownloadContract. *)

\* A step that leaves the outcome open, and the file there, is work.
LEMMA WorkStep ==
  ASSUME CInv, CInv', result = "pending", result' = "pending", UNCHANGED file
  PROVE  [Contract!Next]_<<State, Held, file>>
<1>1. State = "working" /\ State' = "working"
  BY DEF State, CInv, Outcomes
<1>2. Held' = (disk \cup strays \cup PendingWrites \cup missing)'
  BY DEF Held
<1>3. PendingWrites' \subseteq Bytes
  <2> SUFFICES ASSUME NEW b \in PendingWrites' PROVE b \in Bytes
    OBVIOUS
  <2>1. PICK j \in Handlers : b \in handler'[j].writes
    BY DEF PendingWrites
  <2>2. handler'[j] \in Handler
    BY DEF CInv, TypeOK
  <2> QED BY <2>1, <2>2, Fields
<1>4. Held' \subseteq Bytes
  BY <1>2, <1>3 DEF CInv, TypeOK
<1> QED BY <1>1, <1>4 DEF Contract!Work, Contract!Next

LEMMA GiveUpStep ==
  ASSUME CInv, result = "pending", result' = "error", phase' = "closing", UNCHANGED file
  PROVE  [Contract!Next]_<<State, Held, file>>
<1>1. Contract!GiveUp
  BY DEF CInv, Outcomes, State, Held, Contract!GiveUp
<1> QED BY <1>1 DEF Contract!Next

\* A step that changes neither the outcome nor the file.
LEMMA SameStep ==
  ASSUME CInv, CInv', UNCHANGED <<phase, result, file>>
  PROVE  [Contract!Next]_<<State, Held, file>>
<1>1. CASE result = "pending"
  BY <1>1, WorkStep
<1>2. CASE result # "pending"
  BY <1>2 DEF State, Held, CInv, TypeOK
<1> QED BY <1>1, <1>2

LEMMA FailStep ==
  ASSUME CInv, CInv', phase = "transfer", NEW i, NEW rangeRetry,
         FailAttempt(i, rangeRetry), UNCHANGED fileVars
  PROVE  [Contract!Next]_<<State, Held, file>>
<1>1. result = "pending" /\ UNCHANGED file
  BY DEF CInv, Outcomes, fileVars
<1>2. UNCHANGED result \/ (phase' = "closing" /\ result' = "error")
  BY DEF FailAttempt
<1> QED BY <1>1, <1>2, WorkStep, GiveUpStep

\* The last handler settles.  What it still owed was in its pending writes, so
\* every byte had been handed over.
LEMMA BecomeStep ==
  ASSUME CInv, CInv', phase = "transfer", NEW i \in Handlers, NEW h, HandlersBecome(h),
         \A j \in Handlers \ {i} : h[j] = handler[j],
         Owes(i, handler[i]) \subseteq handler[i].writes, UNCHANGED fileVars
  PROVE  [Contract!Next]_<<State, Held, file>>
<1>1. result = "pending" /\ UNCHANGED file
  BY DEF CInv, Outcomes, fileVars
<1>2. CASE ~AllSettled(h)
  BY <1>1, <1>2, WorkStep DEF HandlersBecome
<1>3. CASE AllSettled(h)
  <2>1. phase' = "closing" /\ result' = "ok"
    BY <1>3 DEF HandlersBecome
  <2>2. \A j \in Handlers \ {i} : Owes(j, handler[j]) = {}
    <3>1. \A j \in Handlers \ {i} : handler[j].link \in {"absent", "settled"}
      BY <1>3 DEF AllSettled
    <3> QED BY <3>1 DEF Owes
  <2>3. Bytes \subseteq disk \cup missing \cup PendingWrites
    <3> SUFFICES ASSUME NEW b \in Bytes, b \notin disk \cup missing PROVE b \in PendingWrites
      OBVIOUS
    <3>1. PICK j \in Handlers : b \in Owes(j, handler[j])
      BY DEF CInv, Covered
    <3>2. b \in handler[i].writes
      BY <2>2, <3>1
    <3> QED BY <3>2 DEF PendingWrites
  <2>4. /\ disk \subseteq Bytes /\ missing \subseteq Bytes
        /\ strays \subseteq Bytes /\ PendingWrites \subseteq Bytes
    BY PendingTyped DEF CInv, TypeOK
  <2>5. State = "working" /\ State' = "complete" /\ Held' = Bytes /\ Held = Bytes
    BY <1>1, <2>1, <2>3, <2>4 DEF State, Held, CInv, Outcomes
  <2>6. Contract!Finish
    BY <1>1, <2>5 DEF Contract!Finish
  <2> QED BY <2>6 DEF Contract!Next
<1> QED BY <1>2, <1>3

LEMMA HandlerStep ==
  ASSUME CInv, CInv', NEW i \in Handlers, Advance(i) \/ CallBack(i)
  PROVE  [Contract!Next]_<<State, Held, file>>
<1>1. CASE Connect(i)
  <2>1. CASE signalled
    BY <1>1, <2>1, FailStep DEF Connect, Active, UNCHANGEDRest
  <2>2. CASE ~signalled
    BY <1>1, <2>2, SameStep DEF Connect, UNCHANGEDRest, fileVars
  <2> QED BY <2>1, <2>2
<1>2. CASE FullResponse(i) \/ Data(i) \/ \E total \in {0, FileSize} : PartialResponse(i, total)
  BY <1>2, SameStep DEF FullResponse, Data, PartialResponse, UNCHANGEDRest, fileVars
<1>3. CASE ErrorResponse(i) \/ \E rangeRetry \in BOOLEAN : NetworkError(i, rangeRetry)
  BY <1>3, FailStep DEF ErrorResponse, NetworkError, Active, UNCHANGEDRest
<1>4. CASE \E b \in handler[i].writes : WriteError(i, b)
  BY <1>4, FailStep DEF WriteError, Active, UNCHANGEDRest
<1>5. handler \in [Handlers -> Handler] /\ handler[i] \in Handler
  BY DEF CInv, TypeOK
<1>6. CASE Complete(i)
  <2> DEFINE n == [handler[i] EXCEPT !.link =
                     IF handler[i].writes = {} THEN "settled" ELSE "ended"]
             h == [handler EXCEPT ![i] = n]
  <2>1. HandlersBecome(h) /\ phase = "transfer" /\ UNCHANGED fileVars
        /\ handler[i].link = "body" /\ handler[i].position = handler[i].limit
    BY <1>6 DEF Complete, Active, UNCHANGEDRest
  <2>2. \A j \in Handlers \ {i} : h[j] = handler[j]
    BY <1>5
  <2>3. Owes(i, handler[i]) \subseteq handler[i].writes
    <3>1. handler[i].position .. (handler[i].limit - 1) = {}
      BY <1>5, <2>1, Fields
    <3> QED BY <2>1, <3>1 DEF Owes
  <2> HIDE DEF h
  <2> QED BY <2>1, <2>2, <2>3, BecomeStep
<1>7. ASSUME NEW b \in handler[i].writes, WriteDone(i, b) \/ WriteShort(i, b)
      PROVE  [Contract!Next]_<<State, Held, file>>
  <2> DEFINE n == [handler[i] EXCEPT !.writes = @ \ {b},
                     !.link = IF @ = "ended" /\ handler[i].writes = {b} THEN "settled" ELSE @]
             h == [handler EXCEPT ![i] = n]
  <2>1. HandlersBecome(h) /\ phase = "transfer" /\ UNCHANGED fileVars
        /\ handler[i].link \in {"body", "ended"}
    BY <1>5, <1>7 DEF WriteDone, WriteShort, Settle, Active, UNCHANGEDRest
  <2>2. \A j \in Handlers \ {i} : h[j] = handler[j]
    BY <1>5
  <2>3. CASE handler[i].link = "ended"
    <3>1. Owes(i, handler[i]) \subseteq handler[i].writes
      BY <2>3 DEF Owes
    <3> HIDE DEF h
    <3> QED BY <2>1, <2>2, <3>1, BecomeStep
  <2>4. CASE handler[i].link = "body"
    <3>1. h[i] = n /\ n.link = "body"
      BY <1>5, <2>4 DEF Handler
    <3>2. ~AllSettled(h)
      BY <3>1 DEF AllSettled
    <3> HIDE DEF h
    <3> QED BY <2>1, <3>2, SameStep DEF HandlersBecome, fileVars
  <2> QED BY <2>1, <2>3, <2>4
<1>8. CASE Advance(i)
  BY <1>1, <1>2, <1>3, <1>6, <1>8 DEF Advance
<1>9. CASE CallBack(i)
  BY <1>4, <1>7, <1>9 DEF CallBack
<1> QED BY <1>8, <1>9

LEMMA DownloadStep ==
  ASSUME CInv, CInv', [Next]_vars
  PROVE  [Contract!Next]_<<State, Held, file>>
<1>1. CASE Begin \/ Truncated
  <2>1. result = "pending" /\ UNCHANGED file
        /\ (UNCHANGED result \/ (phase' = "closing" /\ result' = "error"))
    BY <1>1 DEF Begin, Truncated, fileVars, CInv, Outcomes
  <2> QED BY <2>1, WorkStep, GiveUpStep
<1>2. CASE Close
  <2>1. /\ phase = "closing" /\ UNCHANGED <<result, file>> /\ result \in {"ok", "error"}
        /\ phase' = IF result = "ok" THEN "returned" ELSE "unlinking"
    BY <1>2 DEF Close, CInv, Outcomes, TypeOK
  <2>2. CASE result = "ok"
    <3>1. Contract!Return
      BY <2>1, <2>2 DEF Contract!Return, State, Held
    <3> QED BY <3>1 DEF Contract!Next
  <2>3. CASE result = "error"
    BY <2>1, <2>3 DEF State, Held
  <2> QED BY <2>1, <2>2, <2>3
<1>3. CASE Unlink
  <2>1. /\ phase = "unlinking" /\ result = "error" /\ phase' = "returned"
        /\ file' \in {"removed", "stuck"} /\ UNCHANGED result
    BY <1>3 DEF Unlink, CInv, Outcomes
  <2>2. Contract!Remove
    BY <2>1 DEF Contract!Remove, State, Held
  <2> QED BY <2>2 DEF Contract!Next
<1>4. CASE UserAbort
  <2>1. CASE phase = "transfer"
    BY <1>4, <2>1, GiveUpStep DEF UserAbort, fileVars, CInv, Outcomes
  <2>2. CASE phase # "transfer"
    BY <1>4, <2>2, SameStep DEF UserAbort, fileVars
  <2> QED BY <2>1, <2>2
<1>5. CASE Leftover
  BY <1>5, SameStep DEF Leftover, StrayLands, StrayFails, StaleConnects, StaleData,
     StaleEnds, UNCHANGEDRest, fileVars
<1>6. CASE UNCHANGED vars
  BY <1>6, SameStep DEF vars, fileVars
<1> QED BY <1>1, <1>2, <1>3, <1>4, <1>5, <1>6, HandlerStep DEF Next, Orchestrate, Finished

\* The classic path, with its restarts, its children and the handlers it leaves
\* behind, is a download: it returns only when it takes every byte for received,
\* and otherwise throws after it tried to remove the file.
THEOREM KeepsContract == Spec => ImplementsContract
<1>1. Init => Contract!Init
  <2> SUFFICES ASSUME Init PROVE Contract!Init
    OBVIOUS
  <2>1. PendingWrites = {}
    <3> SUFFICES ASSUME NEW b \in PendingWrites PROVE FALSE
      OBVIOUS
    <3>1. PICK j \in Handlers : b \in handler[j].writes
      BY DEF PendingWrites
    <3> QED BY <3>1, NobodyTyped DEF Init
  <2> QED BY <2>1 DEF Init, Contract!Init, State, Held
<1>2. CInv /\ CInv' /\ [Next]_vars => [Contract!Next]_<<State, Held, file>>
  BY DownloadStep
<1> QED BY <1>1, <1>2, CInvAlways, PTL DEF Spec, ImplementsContract, Contract!Spec, Contract!vars

=============================================================================
