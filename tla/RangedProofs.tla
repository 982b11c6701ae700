---------------------------- MODULE RangedProofs ----------------------------
(***************************************************************************)
(* Theorems of RangedDownload, for any file, hint, threshold, concurrency, *)
(* number of requests and failing writes: the ranges make the whole file,  *)
(* a failure stops the siblings, and the controlled path as a whole keeps  *)
(* the contract of download().                                             *)
(***************************************************************************)
EXTENDS RangedDownload, Integers, TLAPS

\* download() has not decided yet how it ends.
Working == {"opened", "ranged", "truncating", "single"}

\* Which calls run in which phase, and what a call that does not run has left.
Calls ==
  /\ \A i \in Ranges : seg[i] = "running" => phase = "ranged"
  /\ seg[Whole] = "running" <=> phase = "single"
  /\ phase \in Working \ {"single"} => seg[Whole] = "unstarted"
  /\ phase = "opened" => \A i \in Segments : seg[i] = "unstarted"
  /\ phase = "ranged" => \A i \in Ranges : seg[i] \in {"running", "done"}
  /\ \A i \in Segments : conn[i] # "idle" => seg[i] = "running"
  /\ \A w \in writes : seg[w[1]] = "running"

\* The outcome is fixed when the work ends, the descriptor closed after that.
Decided ==
  /\ phase \in Working <=> result = "pending"
  /\ phase = "unlinking" => result = "error"
  /\ fd = "closed" <=> phase \in {"unlinking", "returned"}

\* A call is inside its range, at its beginning before it runs and at its end
\* when it succeeds.
Offsets ==
  \A i \in Segments :
    /\ From(i) <= next[i] /\ next[i] <= Until(i)
    /\ seg[i] = "unstarted" => next[i] = From(i)
    /\ seg[i] = "done" => next[i] = Until(i)

\* Every byte a call has passed is in the file, on its way there, or lost by it.
Obtained(i) == Span(From(i), next[i]) \subseteq Backed(i)

\* In the phases that can still succeed, what the calls obtained was handed to
\* the file: a truncation comes between the two.
HandedOver ==
  /\ phase = "ranged" => \A i \in Ranges : Obtained(i)
  /\ phase = "single" => Obtained(Whole)

\* Where a file is split there is a range to ask for.
Splittable == MustSplit => Ranges # {}

\* The inductive invariant.
RInv ==
  /\ TypeOK /\ Calls /\ Decided /\ Offsets /\ HandedOver
  /\ Splittable => FileComplete

-----------------------------------------------------------------------------
(* The arithmetic of the ranges. *)

LEMMA Multiples ==
  ASSUME NEW c \in Nat, NEW a \in Nat, NEW b \in Nat, a <= b
  PROVE  c * a \in Nat /\ c * b \in Nat /\ c * a <= c * b
<1>1. PICK k \in Nat : b = a + k
  <2>1. b - a \in Nat /\ b = a + (b - a)
    OBVIOUS
  <2> QED BY <2>1
<1>2. c * k \in Nat /\ c * a \in Nat /\ c * b = c * a + c * k
  BY <1>1
<1> QED BY <1>2

LEMMA Division ==
  ASSUME NEW n \in Nat, NEW d \in Nat \ {0}
  PROVE  /\ n \div d \in Nat
         /\ d * (n \div d) <= n /\ n < d * (n \div d) + d
OBVIOUS

LEMMA ChunkSizes ==
  /\ ChunkSize \in Nat /\ ChunkCount \in Nat
  /\ ExpectedTotal # 0 => ChunkSize # 0
  /\ ChunkSize = 0 => ChunkCount = 0
  /\ ChunkSize # 0 =>
       /\ ChunkSize * ChunkCount <= ExpectedTotal + ChunkSize - 1
       /\ ExpectedTotal + ChunkSize - 1 < ChunkSize * ChunkCount + ChunkSize
<1>1. ExpectedTotal \in Nat /\ Concurrency \in Nat \ {0}
  BY RangedAssumption
<1>2. ExpectedTotal + Concurrency - 1 \in Nat
  BY <1>1
<1>3. ChunkSize \in Nat /\ ExpectedTotal + Concurrency - 1 < Concurrency * ChunkSize + Concurrency
  BY <1>1, <1>2, Division DEF ChunkSize
<1>4. ChunkSize = 0 => ExpectedTotal = 0
  BY <1>1, <1>3
<1>5. CASE ChunkSize = 0
  BY <1>4, <1>5 DEF ChunkCount
<1>6. CASE ChunkSize # 0
  <2>1. ExpectedTotal + ChunkSize - 1 \in Nat /\ ChunkSize \in Nat \ {0}
    BY <1>1, <1>3, <1>6
  <2>2. ChunkCount = (ExpectedTotal + ChunkSize - 1) \div ChunkSize
    BY <1>6 DEF ChunkCount
  <2> HIDE DEF ChunkSize, ChunkCount
  <2> QED BY <1>6, <2>1, <2>2, <1>3, Division
<1> QED BY <1>5, <1>6

\* Every byte is in a chunk.
LEMMA ChunksTile ==
  ASSUME NEW b \in Nat, b < ExpectedTotal
  PROVE  \E i \in Ranges : From(i) <= b /\ b < Until(i)
<1>1. ExpectedTotal \in Nat /\ ChunkSize \in Nat \ {0} /\ ChunkCount \in Nat
  BY ChunkSizes, RangedAssumption
<1> DEFINE q == b \div ChunkSize
<1>2. q \in Nat /\ ChunkSize * q <= b /\ b < ChunkSize * q + ChunkSize
  BY <1>1, Division
<1> HIDE DEF q
<1>3. q < ChunkCount
  <2> SUFFICES ASSUME ChunkCount <= q PROVE FALSE
    BY <1>1, <1>2
  <2>1. ChunkSize * ChunkCount <= ChunkSize * q /\ ChunkSize * ChunkCount \in Nat
        /\ ChunkSize * q \in Nat
    BY <1>1, <1>2, Multiples
  <2> QED BY <1>1, <1>2, <2>1, ChunkSizes
<1>4. q + 1 \in Ranges /\ q + 1 # Whole /\ (q + 1 - 1) * ChunkSize = ChunkSize * q
  BY <1>1, <1>2, <1>3 DEF Ranges, Whole
<1>5. From(q + 1) = ChunkSize * q
  <2> HIDE DEF ChunkSize
  <2> QED BY <1>1, <1>2, <1>4 DEF From
<1>6. Until(q + 1) = Lesser(ExpectedTotal, ChunkSize * q + ChunkSize)
  BY <1>1, <1>2, <1>4, <1>5 DEF Until
<1> QED BY <1>1, <1>2, <1>4, <1>5, <1>6 DEF Lesser

\* A chunk begins and ends in the file.
LEMMA Bounds ==
  ASSUME NEW i \in Segments
  PROVE  /\ From(i) \in 0 .. FileSize /\ Until(i) \in 0 .. FileSize /\ From(i) <= Until(i)
         /\ i \in Int
<1>1. /\ ExpectedTotal \in Nat /\ FileSize \in Nat /\ ExpectedTotal <= FileSize
      /\ ChunkSize \in Nat /\ ChunkCount \in Nat
  BY ChunkSizes, RangedAssumption
<1>2. CASE i = Whole
  BY <1>1, <1>2 DEF From, Until, Whole
<1>3. CASE i # Whole
  <2>1. i \in 1 .. ChunkCount /\ ChunkSize # 0
    BY <1>1, <1>3, ChunkSizes DEF Segments, Ranges
  <2>2. ChunkSize * i <= ChunkSize * ChunkCount
    BY <1>1, <2>1, Multiples
  <2>3. From(i) = ChunkSize * i - ChunkSize /\ From(i) \in Nat
    BY <1>1, <1>3, <2>1 DEF From
  <2>4. From(i) <= ExpectedTotal - 1
    BY <1>1, <2>1, <2>2, <2>3, ChunkSizes
  <2>5. Until(i) = Lesser(ExpectedTotal, From(i) + ChunkSize)
    BY <1>3 DEF Until
  <2> QED BY <1>1, <2>1, <2>3, <2>4, <2>5 DEF Lesser
<1> QED BY <1>2, <1>3

-----------------------------------------------------------------------------
USE DEF Working, Phase, SegmentEnd

\* The single stream is none of the parallel segments.
LEMMA WholeIsNoRange == Whole \in Segments /\ Whole \notin Ranges /\ Ranges \subseteq Segments
BY ChunkSizes DEF Segments, Ranges, Whole

\* Nobody is none of them.
LEMMA NobodyIsNoSegment == Nobody \notin Segments
BY ChunkSizes DEF Segments, Ranges, Whole, Nobody

LEMMA FileHasBytes == FileSize \in Nat \ {0} /\ MaxRequests \in Nat \ {0}
BY RangedAssumption

\* A write of segment i of byte b, wherever it is.
OwnWrite(i, b) == <<i, b>> \in writes \cup strays \cup lost

\* What backs a call, byte by byte.
LEMMA Member ==
  ASSUME TypeOK, NEW i \in Segments
  PROVE  \A b : b \in Backed(i) <=> b \in disk \/ OwnWrite(i, b)
<1>1. \A w \in writes \cup strays \cup lost : w = <<w[1], w[2]>>
  BY DEF TypeOK
<1> QED BY <1>1 DEF Backed, OwnWrite

LEMMA MemberNext ==
  ASSUME TypeOK', NEW i \in Segments
  PROVE  \A b : b \in Backed(i)' <=> b \in disk' \/ OwnWrite(i, b)'
<1>1. \A w \in writes' \cup strays' \cup lost' : w = <<w[1], w[2]>>
  BY DEF TypeOK
<1> QED BY <1>1 DEF Backed, OwnWrite

\* No write of a segment, and no byte of the file, is forgotten.
Kept == /\ disk \subseteq disk'
        /\ \A i \in Segments, b \in Bytes : OwnWrite(i, b) => b \in disk' \/ OwnWrite(i, b)'

LEMMA BackedGrows ==
  ASSUME TypeOK, TypeOK', Kept, NEW i \in Segments
  PROVE  Backed(i) \subseteq Backed(i)'
<1>1. \A b : OwnWrite(i, b) => b \in Bytes
  BY DEF OwnWrite, TypeOK
<1> QED BY <1>1, Member, MemberNext DEF Kept

LEMMA MoreObtained ==
  ASSUME TypeOK, TypeOK', Kept, NEW i \in Segments, Obtained(i), next'[i] = next[i]
  PROVE  Obtained(i)'
BY BackedGrows DEF Obtained

\* What a handler that settles leaves behind.
LEMMA ReleaseKeeps ==
  ASSUME TypeOK, NEW gone, Release(gone)
  PROVE  /\ conn' \in [Segments -> {"idle", "queued", "open"}]
         /\ writes' \subseteq Segments \X Bytes
         /\ \A i \in Segments : conn'[i] # "idle" => conn'[i] = conn[i] /\ i \notin gone
         /\ \A w \in writes' : w \in writes /\ w[1] \notin gone
BY DEF Release, TypeOK

LEMMA DisownKeeps ==
  ASSUME TypeOK, NEW gone, Disown(gone)
  PROVE  strays' \subseteq (Segments \cup {Nobody}) \X Bytes /\ lost' \subseteq Segments \X Bytes
BY DEF Disown, Left, TypeOK

\* What holds all ranges holds the file.
LEMMA RangesCover ==
  ASSUME NEW S, \A i \in Ranges : Span(From(i), Until(i)) \subseteq S, Ranges # {}
  PROVE  Bytes \subseteq S
<1> SUFFICES ASSUME NEW b \in Bytes PROVE b \in S
  OBVIOUS
<1>1. ExpectedTotal = FileSize
  <2>1. ExpectedTotal # 0
    <3> SUFFICES ASSUME ExpectedTotal = 0 PROVE FALSE
      OBVIOUS
    <3>1. ChunkSize = 0
      <4>1. ChunkSize \in Nat /\ ChunkCount \in Nat /\ ChunkCount # 0 /\ Concurrency \in Nat \ {0}
        BY ChunkSizes, RangedAssumption DEF Ranges
      <4> QED BY <4>1, Division DEF ChunkSize
    <3> QED BY <3>1, ChunkSizes DEF Ranges
  <2> QED BY <2>1, RangedAssumption
<1>2. b \in Nat /\ b < ExpectedTotal
  BY <1>1, FileHasBytes DEF Bytes
<1>3. PICK i \in Ranges : From(i) <= b /\ b < Until(i)
  BY <1>2, ChunksTile
<1>4. b \in Span(From(i), Until(i))
  BY <1>2, <1>3, Bounds, WholeIsNoRange DEF Span
<1> QED BY <1>3, <1>4

\* When the last call succeeds, the calls together obtained the file.
Together(i) == IF i = Whole THEN {Whole} ELSE Ranges

LEMMA LastCallHasAll ==
  ASSUME RInv, NEW i \in Segments, Active(i), next[i] = Until(i), SiblingsOf(i) = {}
  PROVE  /\ Bytes \subseteq UNION {Span(From(j), next[j]) : j \in Together(i)}
         /\ \A j \in Together(i) : j \in Segments /\ Obtained(j)
<1>1. /\ phase \in {"ranged", "single"}
      /\ i = Whole <=> phase = "single"
  BY WholeIsNoRange DEF Active, RInv, Calls, Segments
<1>2. CASE i = Whole
  <2>1. From(Whole) = 0 /\ next[Whole] = FileSize /\ Obtained(Whole)
    BY <1>1, <1>2 DEF From, Until, RInv, HandedOver
  <2> QED BY <1>2, <2>1 DEF Span, Bytes, Together
<1>3. CASE i # Whole
  <2>1. phase = "ranged" /\ i \in Ranges
    BY <1>1, <1>3 DEF Segments
  <2>2. \A j \in Ranges : next[j] = Until(j) /\ Obtained(j)
    BY <2>1, WholeIsNoRange DEF RInv, Calls, Offsets, HandedOver, SiblingsOf
  <2> DEFINE all == UNION {Span(From(j), next[j]) : j \in Ranges}
  <2>3. \A j \in Ranges : Span(From(j), Until(j)) \subseteq all
    BY <2>2
  <2>4. Bytes \subseteq all
    <3> HIDE DEF all
    <3> QED BY <2>1, <2>3, RangesCover
  <2> QED BY <1>3, <2>2, <2>4, WholeIsNoRange DEF Together
<1> QED BY <1>2, <1>3

\* A call ends: alone, or, when it did not succeed, with all others.
LEMMA CallEndsKeeps ==
  ASSUME RInv, NEW i \in Segments, NEW how \in SegmentEnd, Active(i), CallEnds(i, how),
         how = "done" => next[i] = Until(i) /\ \A w \in writes : w[1] # i,
         how = "rangeRejected" => i \in Ranges,
         zombies' \subseteq Segments \X (0 .. FileSize) \X {"queued", "open"}
  PROVE  RInv'
<1> USE WholeIsNoRange
<1>1. /\ UNCHANGED <<signalled, fd, file, next, tries, disk>>
      /\ seg' = [j \in Segments |->
               IF j = i THEN how ELSE IF j \in Ending(i, how) THEN "aborted" ELSE seg[j]]
      /\ i \in Ending(i, how) /\ Release(Ending(i, how))
      /\ cancelled' \in BOOLEAN
  BY DEF CallEnds, Ending, RInv, TypeOK
<1>2. /\ result = "pending" /\ fd = "open" /\ phase \in {"ranged", "single"}
      /\ seg[i] = "running"
      /\ i = Whole <=> phase = "single"
  <2>1. phase \in {"ranged", "single"} /\ seg[i] = "running"
    BY DEF Active
  <2>2. result = "pending" /\ fd = "open"
    BY <2>1 DEF RInv, Decided, TypeOK
  <2>3. i = Whole <=> phase = "single"
    BY <2>1 DEF RInv, Calls, Segments
  <2> QED BY <2>1, <2>2, <2>3
<1>3. /\ strays' \subseteq (Segments \cup {Nobody}) \X Bytes /\ lost' \subseteq Segments \X Bytes
      /\ how = "done" => UNCHANGED <<writes, strays, lost>>
  <2>1. CASE how = "done"
    <3>1. UNCHANGED <<strays, lost>> /\ Ending(i, how) = {i}
      BY <2>1 DEF CallEnds, Ending
    <3>2. writes' = writes
      BY <1>1, <2>1, <3>1 DEF Release
    <3> QED BY <3>1, <3>2 DEF RInv, TypeOK
  <2>2. CASE how # "done"
    BY <2>2, DisownKeeps DEF CallEnds, RInv
  <2> QED BY <2>1, <2>2
<1>4. seg' \in [Segments -> {"unstarted", "running"} \cup SegmentEnd]
  BY <1>1 DEF RInv, TypeOK
<1>5. phase = "single" => SiblingsOf(i) = {}
  BY <1>2 DEF SiblingsOf, RInv, Calls, Segments
<1>6. /\ phase' \in Phase /\ result' \in {"pending", "ok", "error"}
      /\ phase' \in Working <=> result' = "pending"
      /\ phase' = "truncating" => how = "rangeRejected"
      /\ how = "done" /\ SiblingsOf(i) # {} => phase' = "ranged"
      /\ phase' = "ranged" => phase = "ranged" /\ how = "done"
      /\ result' = "ok" => how = "done" /\ SiblingsOf(i) = {}
      /\ phase' \in {"ranged", "truncating", "closing"}
  <2>1. CASE how = "done" /\ SiblingsOf(i) # {} /\ UNCHANGED <<phase, result>>
    BY <1>2, <1>5, <2>1
  <2>2. CASE how = "done" /\ SiblingsOf(i) = {} /\ phase' = "closing" /\ result' = "ok"
    BY <2>2
  <2>3. CASE how = "rangeRejected" /\ phase' = "truncating" /\ UNCHANGED result
    BY <1>2, <2>3
  <2>4. CASE how \in {"failed", "aborted"} /\ phase' = "closing" /\ result' = "error"
    BY <2>4
  <2> QED BY <2>1, <2>2, <2>3, <2>4 DEF CallEnds
<1>7. TypeOK'
  BY <1>1, <1>3, <1>4, <1>6, ReleaseKeeps DEF RInv, TypeOK
<1>14. how = "done" => Kept
  BY <1>1, <1>3 DEF Kept, OwnWrite
<1>8. \A j \in Segments : /\ seg'[j] = "running" => seg[j] = "running" /\ j # i /\ how = "done"
                          /\ seg'[j] = "unstarted" => seg[j] = "unstarted"
                          /\ seg'[j] = "done" => seg[j] = "done" \/ (j = i /\ how = "done")
                          /\ j # i /\ how = "done" => seg'[j] = seg[j]
                          /\ j \in Ending(i, how) <=> seg'[j] # seg[j]
  BY <1>1, <1>2 DEF Ending, SiblingsOf
<1>9. Calls'
  <2>1. phase' = "ranged" => \A j \in Ranges : seg'[j] \in {"running", "done"}
    BY <1>1, <1>6, <1>8 DEF RInv, Calls
  <2>2. \A j \in Segments : conn'[j] # "idle" => seg'[j] = "running"
    BY <1>1, <1>8, ReleaseKeeps DEF RInv, Calls
  <2>3. \A w \in writes' : seg'[w[1]] = "running"
    <3> SUFFICES ASSUME NEW w \in writes' PROVE seg'[w[1]] = "running"
      OBVIOUS
    <3>1. w \in writes /\ w[1] \notin Ending(i, how) /\ w[1] \in Segments
      BY <1>1, ReleaseKeeps DEF RInv, TypeOK
    <3> QED BY <1>8, <3>1 DEF RInv, Calls
  <2>4. seg'[Whole] = "running" => FALSE
    BY <1>2, <1>8, <1>5 DEF RInv, Calls
  <2>5. phase' \in {"ranged", "truncating"} => seg'[Whole] = "unstarted"
    <3> SUFFICES ASSUME phase' \in {"ranged", "truncating"} PROVE seg'[Whole] = "unstarted"
      OBVIOUS
    <3>1. phase = "ranged" /\ i # Whole
      BY <1>2, <1>6
    <3> QED BY <1>1, <1>2, <3>1 DEF RInv, Calls, Ending, SiblingsOf
  <2>6. \A j \in Ranges : seg'[j] = "running" => phase' = "ranged"
    BY <1>6, <1>8 DEF SiblingsOf
  <2> QED BY <1>6, <2>1, <2>2, <2>3, <2>4, <2>5, <2>6 DEF Calls
<1>10. Decided'
  BY <1>1, <1>2, <1>6 DEF Decided
<1>11. Offsets'
  BY <1>1, <1>8 DEF RInv, Offsets
<1>12. HandedOver'
  <2>1. phase' # "single" /\ (phase' = "ranged" => phase = "ranged" /\ how = "done")
    BY <1>6
  <2>2. how = "done" => \A j \in Segments : Obtained(j) => Obtained(j)'
    BY <1>1, <1>7, <1>14, MoreObtained DEF RInv
  <2> QED BY <2>1, <2>2 DEF RInv, HandedOver
<1>13. FileComplete'
  <2> SUFFICES ASSUME result' = "ok" PROVE Bytes \subseteq UNION {Backed(j)' : j \in Relied'}
    BY DEF FileComplete
  <2>1. how = "done" /\ SiblingsOf(i) = {}
    BY <1>6
  <2>2. Relied' = Together(i)
    <3>1. CASE i = Whole
      BY <1>1, <2>1, <3>1 DEF Relied, Together, RInv, TypeOK
    <3>2. CASE i # Whole
      BY <1>1, <1>2, <1>8, <2>1, <3>2 DEF Relied, Together, RInv, Calls
    <3> QED BY <3>1, <3>2
  <2>3. \A j \in Together(i) : Span(From(j), next[j]) \subseteq Backed(j)'
    BY <1>7, <1>14, <2>1, LastCallHasAll, BackedGrows DEF Obtained, RInv
  <2> QED BY <2>1, <2>2, <2>3, LastCallHasAll
<1> QED BY <1>7, <1>9, <1>10, <1>11, <1>12, <1>13 DEF RInv

LEMMA RInvInit == Init => RInv
<1> SUFFICES ASSUME Init PROVE RInv
  OBVIOUS
<1> USE DEF Init
<1>1. \A i \in Segments : From(i) \in 0 .. FileSize /\ From(i) <= Until(i)
  BY Bounds
<1>2. TypeOK
  <2>1. next \in [Segments -> 0 .. FileSize]
    BY <1>1
  <2>2. tries \in [Segments -> 0 .. MaxRequests]
    BY FileHasBytes
  <2> QED BY <2>1, <2>2 DEF TypeOK
<1>3. Calls /\ Decided
  BY WholeIsNoRange DEF Calls, Decided
<1>4. Offsets
  BY <1>1 DEF Offsets
<1>5. HandedOver /\ FileComplete
  BY DEF HandedOver, FileComplete
<1> QED BY <1>2, <1>3, <1>4, <1>5 DEF RInv

\* The steps of download() itself.
LEMMA BeginKeeps ==
  ASSUME RInv, Begin
  PROVE  RInv'
<1> USE WholeIsNoRange
<1>1. /\ phase = "opened" /\ result = "pending" /\ fd = "open"
      /\ \A i \in Segments : seg[i] = "unstarted" /\ conn[i] = "idle"
      /\ UNCHANGED <<signalled, cancelled, fd, file, next, conn, tries, writes, strays, lost, zombies, disk>>
      /\ writes = {}
  <2>1. phase = "opened"
    BY DEF Begin
  <2>2. \A i \in Segments : seg[i] = "unstarted" /\ conn[i] = "idle"
    BY <2>1 DEF RInv, Calls, TypeOK
  <2>3. writes = {}
    BY <2>2 DEF RInv, Calls, TypeOK
  <2> QED BY <2>1, <2>2, <2>3 DEF Begin, RInv, Decided, TypeOK
<1>2. CASE phase' = "closing" /\ result' = "error" /\ UNCHANGED seg
  BY <1>1, <1>2 DEF RInv, TypeOK, Calls, Decided, Offsets, HandedOver, FileComplete
<1>3. CASE phase' = "single" /\ UNCHANGED result /\ seg' = [seg EXCEPT ![Whole] = "running"]
  <2>1. TypeOK' /\ Decided'
    BY <1>1, <1>3 DEF RInv, TypeOK, Decided
  <2>2. Calls' /\ Offsets'
    BY <1>1, <1>3 DEF RInv, TypeOK, Calls, Offsets
  <2>3. HandedOver' /\ FileComplete'
    <3>1. next'[Whole] = 0 /\ From(Whole) = 0
      BY <1>1 DEF RInv, Offsets, From
    <3> QED BY <1>1, <1>3, <3>1 DEF HandedOver, FileComplete, Obtained, Span
  <2> QED BY <2>1, <2>2, <2>3 DEF RInv
<1>4. CASE /\ phase' = "ranged" /\ UNCHANGED result
           /\ seg' = [i \in Segments |-> IF i \in Ranges THEN "running" ELSE seg[i]]
  <2>1. TypeOK' /\ Decided'
    BY <1>1, <1>4 DEF RInv, TypeOK, Decided
  <2>2. Calls' /\ Offsets'
    BY <1>1, <1>4 DEF RInv, TypeOK, Calls, Offsets
  <2>3. HandedOver' /\ FileComplete'
    <3>1. \A i \in Ranges : next'[i] = From(i) /\ From(i) \in Int
      BY <1>1, Bounds DEF RInv, Offsets
    <3> QED BY <1>1, <1>4, <3>1 DEF HandedOver, FileComplete, Obtained, Span
  <2> QED BY <2>1, <2>2, <2>3 DEF RInv
<1>5. CASE phase' = "closing" /\ result' = "ok" /\ UNCHANGED seg /\ MustSplit /\ Ranges = {}
  BY <1>1, <1>5 DEF RInv, TypeOK, Calls, Decided, Offsets, HandedOver, Splittable
<1> QED BY <1>2, <1>3, <1>4, <1>5 DEF Begin

LEMMA OrchestrateKeeps ==
  ASSUME RInv, Truncated \/ Close \/ Unlink
  PROVE  RInv'
<1> USE WholeIsNoRange
<1>1. CASE Truncated
  <2>1. /\ phase = "truncating" /\ phase' = "single" /\ disk' \in {{}, disk}
        /\ seg' = [seg EXCEPT ![Whole] = "running"]
        /\ UNCHANGED <<result, signalled, cancelled, fd, file, next, conn, tries, writes, strays,
                       lost, zombies>>
    BY <1>1 DEF Truncated
  <2>2. /\ seg[Whole] = "unstarted" /\ \A i \in Segments : seg[i] # "running" /\ conn[i] = "idle"
        /\ writes = {} /\ result = "pending"
    BY <2>1 DEF RInv, Calls, Decided, TypeOK, Segments
  <2>3. TypeOK' /\ Decided'
    BY <2>1, <2>2 DEF RInv, TypeOK, Decided
  <2>4. Calls' /\ Offsets'
    BY <2>1, <2>2 DEF RInv, TypeOK, Calls, Offsets
  <2>5. next'[Whole] = 0 /\ From(Whole) = 0
    BY <2>1, <2>2 DEF RInv, Offsets, From
  <2>6. HandedOver' /\ FileComplete'
    BY <2>1, <2>2, <2>5 DEF HandedOver, FileComplete, Obtained, Span
  <2> QED BY <2>3, <2>4, <2>6 DEF RInv
<1>2. CASE Close \/ Unlink
  <2>1. /\ phase \in {"closing", "unlinking"} /\ phase' \in {"unlinking", "returned"}
        /\ UNCHANGED <<result, signalled, cancelled, seg, next, conn, tries, writes, lost, disk>>
        /\ strays' \in {strays, {}} /\ zombies' \in {zombies, {}}
        /\ fd' = "closed" /\ file' \in {file, "removed", "stuck"}
        /\ phase' = "unlinking" => result = "error"
    BY <1>2 DEF Close, Unlink, callVars, RInv, Decided, TypeOK
  <2>2. TypeOK'
    BY <2>1 DEF RInv, TypeOK
  <2>3. Calls' /\ Decided'
    BY <2>1 DEF RInv, TypeOK, Calls, Decided
  <2>4. Offsets' /\ HandedOver' /\ (Splittable => FileComplete')
    BY <2>1 DEF RInv, TypeOK, Offsets, HandedOver, FileComplete
  <2> QED BY <2>2, <2>3, <2>4 DEF RInv
<1> QED BY <1>1, <1>2

\* The steps of a call that do not end it.
LEMMA AttemptKeeps ==
  ASSUME RInv, NEW i \in Segments, Active(i),
         UNCHANGED <<phase, result, signalled, cancelled, fd, file, seg, disk>>,
         conn' \in [Segments -> {"idle", "queued", "open"}],
         \A j \in Segments \ {i} : conn'[j] = conn[j] /\ next'[j] = next[j],
         tries' \in [Segments -> 0 .. MaxRequests],
         next' \in [Segments -> 0 .. FileSize],
         From(i) <= next'[i] /\ next'[i] <= Until(i),
         writes' \subseteq Segments \X Bytes, \A w \in writes' : w \in writes \/ w[1] = i,
         strays' \subseteq (Segments \cup {Nobody}) \X Bytes, lost' \subseteq Segments \X Bytes,
         zombies' \subseteq Segments \X (0 .. FileSize) \X {"queued", "open"},
         Kept,
         next'[i] = next[i] \/ (Obtained(i) => Obtained(i)')
  PROVE  RInv'
<1>1. seg[i] = "running" /\ phase \in {"ranged", "single"}
  BY DEF Active
<1>2. TypeOK' /\ Decided'
  BY DEF RInv, TypeOK, Decided
<1>3. Calls'
  <2>1. \A j \in Segments : conn'[j] # "idle" => seg'[j] = "running"
    BY <1>1 DEF RInv, Calls
  <2>2. \A w \in writes' : seg'[w[1]] = "running"
    BY <1>1 DEF RInv, Calls
  <2> QED BY <2>1, <2>2 DEF RInv, Calls
<1>4. Offsets'
  BY <1>1 DEF RInv, Offsets
<1>5. \A j \in Segments : Obtained(j) => Obtained(j)'
  BY <1>2, MoreObtained DEF RInv
<1>6. HandedOver'
  BY <1>5, WholeIsNoRange DEF RInv, HandedOver
<1>7. FileComplete'
  BY <1>1 DEF RInv, Decided, FileComplete
<1> QED BY <1>2, <1>3, <1>4, <1>6, <1>7 DEF RInv

LEMMA RequestKeeps ==
  ASSUME RInv, NEW i \in Segments, Request(i)
  PROVE  RInv'
<1>1. /\ Active(i)
      /\ UNCHANGED <<phase, result, signalled, cancelled, fd, file, seg, next, writes, strays,
                     lost, zombies, disk>>
      /\ conn' = [conn EXCEPT ![i] = "queued"]
      /\ tries' = [tries EXCEPT ![i] = @ + 1] /\ tries[i] < MaxRequests
  BY DEF Request
<1>2. tries' \in [Segments -> 0 .. MaxRequests]
  BY <1>1, FileHasBytes DEF RInv, TypeOK
<1>3. Kept
  BY <1>1 DEF Kept, OwnWrite
<1>4. /\ conn' \in [Segments -> {"idle", "queued", "open"}]
      /\ \A j \in Segments \ {i} : conn'[j] = conn[j] /\ next'[j] = next[j]
  BY <1>1 DEF RInv, TypeOK
<1>5. From(i) <= next[i] /\ next[i] <= Until(i)
  BY DEF RInv, Offsets
<1>6. /\ next \in [Segments -> 0 .. FileSize] /\ writes \subseteq Segments \X Bytes
      /\ strays \subseteq (Segments \cup {Nobody}) \X Bytes /\ lost \subseteq Segments \X Bytes
      /\ zombies \subseteq Segments \X (0 .. FileSize) \X {"queued", "open"}
  BY DEF RInv, TypeOK
<1> QED BY <1>1, <1>2, <1>3, <1>4, <1>5, <1>6, AttemptKeeps

LEMMA ReceiveKeeps ==
  ASSUME RInv, NEW i \in Segments, Receive(i)
  PROVE  RInv'
<1>1. /\ Active(i) /\ next[i] < Until(i)
      /\ writes' = writes \cup {<<i, next[i]>>}
      /\ next' = [next EXCEPT ![i] = @ + 1]
      /\ UNCHANGED <<phase, result, signalled, cancelled, fd, file, seg, conn, tries, strays,
                     lost, zombies, disk>>
  BY DEF Receive
<1>2. /\ next \in [Segments -> 0 .. FileSize] /\ writes \subseteq Segments \X Bytes
      /\ strays \subseteq (Segments \cup {Nobody}) \X Bytes /\ lost \subseteq Segments \X Bytes
      /\ tries \in [Segments -> 0 .. MaxRequests]
      /\ zombies \subseteq Segments \X (0 .. FileSize) \X {"queued", "open"}
      /\ conn \in [Segments -> {"idle", "queued", "open"}]
  BY DEF RInv, TypeOK
<1>3. /\ From(i) \in Nat /\ Until(i) \in 0 .. FileSize /\ From(i) <= next[i]
      /\ next[i] \in Nat /\ next[i] \in Bytes
  BY <1>1, <1>2, Bounds, FileHasBytes DEF RInv, Offsets, Bytes
<1>4. /\ next'[i] = next[i] + 1 /\ \A j \in Segments \ {i} : next'[j] = next[j]
      /\ next' \in [Segments -> 0 .. FileSize]
  BY <1>1, <1>2, <1>3, FileHasBytes
<1>5. Kept
  BY <1>1 DEF Kept, OwnWrite
<1>6. Obtained(i) => Obtained(i)'
  <2> SUFFICES ASSUME Obtained(i) PROVE Span(From(i), next'[i]) \subseteq Backed(i)'
    BY DEF Obtained
  <2>1. next[i] \in Backed(i)'
    <3>1. <<i, next[i]>> \in writes' /\ <<i, next[i]>>[1] = i /\ <<i, next[i]>>[2] = next[i]
      BY <1>1
    <3> QED BY <3>1 DEF Backed
  <2>2. Backed(i) \subseteq Backed(i)'
    BY <1>1 DEF Backed
  <2>3. \A b \in Span(From(i), next'[i]) : b \in Span(From(i), next[i]) \/ b = next[i]
    BY <1>3, <1>4 DEF Span
  <2> QED BY <2>1, <2>2, <2>3 DEF Obtained
<1>7. writes' \subseteq Segments \X Bytes /\ \A w \in writes' : w \in writes \/ w[1] = i
  BY <1>1, <1>2, <1>3
<1> QED BY <1>1, <1>2, <1>3, <1>4, <1>5, <1>6, <1>7, AttemptKeeps

\* An attempt ends; a write that failed may have ended it.
LEMMA AttemptEndsKeeps ==
  ASSUME RInv, NEW i \in Segments, Active(i), NEW failed \in SUBSET writes, AttemptEnds(i, failed),
         \A w \in failed : w[1] = i,
         zombies' \subseteq Segments \X (0 .. FileSize) \X {"queued", "open"}
  PROVE  RInv'
<1>1. CASE CallEnds(i, "aborted")
  BY <1>1, CallEndsKeeps
<1>2. CASE /\ Release({i})
           /\ strays' = strays \cup (Left({i}) \ failed)
           /\ lost' = lost \cup failed
           /\ UNCHANGED <<phase, result, signalled, cancelled, fd, file, seg, next, tries, disk>>
  <2>1. \A j \in Segments \ {i} : conn'[j] = conn[j] /\ next'[j] = next[j]
    BY <1>2 DEF Release, RInv, TypeOK
  <2>2. /\ next \in [Segments -> 0 .. FileSize] /\ tries \in [Segments -> 0 .. MaxRequests]
        /\ From(i) <= next[i] /\ next[i] <= Until(i)
    BY DEF RInv, TypeOK, Offsets
  <2>3. /\ conn' \in [Segments -> {"idle", "queued", "open"}]
        /\ writes' \subseteq Segments \X Bytes /\ \A w \in writes' : w \in writes
    BY <1>2, ReleaseKeeps DEF RInv
  <2>4. /\ strays' \subseteq (Segments \cup {Nobody}) \X Bytes /\ lost' \subseteq Segments \X Bytes
    BY <1>2 DEF Left, RInv, TypeOK
  <2>5. Kept
    <3>1. writes \cup strays \cup lost \subseteq writes' \cup strays' \cup lost'
      BY <1>2 DEF Release, Left
    <3> QED BY <1>2, <3>1 DEF Kept, OwnWrite
  <2> QED BY <1>2, <2>1, <2>2, <2>3, <2>4, <2>5, AttemptKeeps
<1> QED BY <1>1, <1>2 DEF AttemptEnds

LEMMA GiveUpKeeps ==
  ASSUME RInv, NEW i \in Segments, GiveUpAttempt(i)
  PROVE  RInv'
<1>1. /\ Active(i) /\ AttemptEnds(i, {})
      /\ \E left \in {{}, LeftQueued(i)} : zombies' = zombies \cup left
  BY DEF GiveUpAttempt
<1>2. zombies' \subseteq Segments \X (0 .. FileSize) \X {"queued", "open"}
  <2>1. LeftQueued(i) \subseteq Segments \X (0 .. FileSize) \X {"queued", "open"}
    BY DEF LeftQueued, RInv, TypeOK
  <2> QED BY <1>1, <2>1 DEF RInv, TypeOK
<1> QED BY <1>1, <1>2, AttemptEndsKeeps

LEMMA WriteFailsKeeps ==
  ASSUME RInv, NEW w \in writes, WriteFails(w)
  PROVE  RInv'
<1>1. /\ Active(w[1]) /\ AttemptEnds(w[1], {w}) /\ w[1] \in Segments
      /\ zombies' \subseteq Segments \X (0 .. FileSize) \X {"queued", "open"}
  BY DEF WriteFails, RInv, TypeOK
<1> QED BY <1>1, AttemptEndsKeeps

LEMMA ConnectKeeps ==
  ASSUME RInv, NEW i \in Segments, Connect(i)
  PROVE  RInv'
<1>1. /\ Active(i) /\ UNCHANGED zombies
      /\ next \in [Segments -> 0 .. FileSize] /\ writes \subseteq Segments \X Bytes
      /\ strays \subseteq (Segments \cup {Nobody}) \X Bytes /\ lost \subseteq Segments \X Bytes
      /\ tries \in [Segments -> 0 .. MaxRequests]
      /\ zombies \subseteq Segments \X (0 .. FileSize) \X {"queued", "open"}
      /\ From(i) <= next[i] /\ next[i] <= Until(i)
  BY DEF Connect, RInv, TypeOK, Offsets
<1>2. CASE CallEnds(i, "aborted")
  BY <1>1, <1>2, CallEndsKeeps
<1>3. CASE /\ conn' = [conn EXCEPT ![i] = "open"]
           /\ UNCHANGED <<phase, result, signalled, cancelled, fd, file, seg, next,
                          tries, writes, strays, lost, disk>>
  <2>1. /\ conn' \in [Segments -> {"idle", "queued", "open"}]
        /\ \A j \in Segments \ {i} : conn'[j] = conn[j]
    BY <1>3 DEF RInv, TypeOK
  <2>2. Kept
    BY <1>3 DEF Kept, OwnWrite
  <2> QED BY <1>1, <1>3, <2>1, <2>2, AttemptKeeps
<1> QED BY <1>2, <1>3 DEF Connect

LEMMA AdvanceKeeps ==
  ASSUME RInv, NEW i \in Segments, Advance(i)
  PROVE  RInv'
<1>1. zombies \subseteq Segments \X (0 .. FileSize) \X {"queued", "open"}
  BY DEF RInv, TypeOK
<1>2. CASE Succeed(i)
  BY <1>1, <1>2, CallEndsKeeps DEF Succeed
<1>3. CASE Exhausted(i)
  BY <1>1, <1>3, CallEndsKeeps DEF Exhausted
<1>4. CASE RefuseRange(i)
  BY <1>1, <1>4, CallEndsKeeps DEF RefuseRange
<1> QED BY <1>2, <1>3, <1>4, RequestKeeps, ConnectKeeps, ReceiveKeeps, GiveUpKeeps DEF Advance

\* What outlives an attempt takes nothing from a call.
LEMMA StrayKeeps ==
  ASSUME RInv,
         UNCHANGED <<phase, result, cancelled, fd, file, callVars>>,
         signalled' \in BOOLEAN,
         writes' \subseteq writes, disk' \subseteq Bytes,
         strays' \subseteq (Segments \cup {Nobody}) \X Bytes, lost' \subseteq Segments \X Bytes,
         zombies' \subseteq Segments \X (0 .. FileSize) \X {"queued", "open"},
         fd = "open" => Kept
  PROVE  RInv'
<1> USE DEF callVars
<1>1. TypeOK' /\ Calls' /\ Decided'
  BY DEF RInv, TypeOK, Calls, Decided
<1>2. Offsets'
  BY DEF RInv, Offsets
<1>3. phase \in {"ranged", "single"} => fd = "open"
  BY DEF RInv, Decided, TypeOK
<1>4. HandedOver'
  BY <1>1, <1>3, MoreObtained, WholeIsNoRange DEF RInv, HandedOver
<1>5. ASSUME FileComplete PROVE FileComplete'
  <2> SUFFICES ASSUME result = "ok", fd = "open" PROVE Bytes \subseteq UNION {Backed(i)' : i \in Relied'}
    BY DEF FileComplete
  <2>1. Relied' = Relied /\ \A i \in Relied : i \in Segments
    BY WholeIsNoRange DEF Relied
  <2>2. \A i \in Relied : Backed(i) \subseteq Backed(i)'
    BY <1>1, <2>1, BackedGrows DEF RInv
  <2> QED BY <1>5, <2>1, <2>2 DEF FileComplete
<1> QED BY <1>1, <1>2, <1>4, <1>5 DEF RInv

LEMMA UserAbortKeeps ==
  ASSUME RInv, UserAbort
  PROVE  RInv'
<1> USE WholeIsNoRange
<1>1. CASE phase \in {"ranged", "single"}
  <2>1. /\ seg' = [i \in Segments |-> IF seg[i] = "running" THEN "aborted" ELSE seg[i]]
        /\ Release(Segments) /\ Disown(Segments) /\ cancelled' = (cancelled \/ phase = "ranged")
        /\ phase' = "closing" /\ result' = "error" /\ signalled' = TRUE
        /\ UNCHANGED <<fd, file, next, tries, zombies, disk>>
    BY <1>1 DEF UserAbort
  <2>2. TypeOK'
    BY <2>1, ReleaseKeeps, DisownKeeps DEF RInv, TypeOK
  <2>3. Calls'
    <3>1. \A i \in Segments : seg'[i] # "running" /\ conn'[i] = "idle"
      BY <2>1 DEF Release
    <3>2. \A w \in writes' : FALSE
      BY <2>1, ReleaseKeeps DEF RInv, TypeOK
    <3> QED BY <2>1, <3>1, <3>2 DEF Calls
  <2>4. Decided' /\ HandedOver' /\ FileComplete'
    BY <1>1, <2>1 DEF RInv, Decided, HandedOver, FileComplete
  <2>5. Offsets'
    BY <2>1 DEF RInv, Offsets
  <2> QED BY <2>2, <2>3, <2>4, <2>5 DEF RInv
<1>2. CASE phase \notin {"ranged", "single"}
  <2>1. /\ UNCHANGED <<phase, result, cancelled, fd, file, callVars, writes, strays, lost, zombies, disk>>
        /\ signalled' = TRUE
    BY <1>2 DEF UserAbort, callVars
  <2>2. Kept
    BY <2>1 DEF Kept, OwnWrite
  <2> QED BY <2>1, <2>2, StrayKeeps DEF RInv, TypeOK
<1> QED BY <1>1, <1>2

LEMMA WritesKeep ==
  ASSUME RInv, NEW w \in writes, WriteLands(w) \/ WriteShort(w)
  PROVE  RInv'
<1>1. /\ writes' = writes \ {w} /\ w \in Segments \X Bytes
      /\ UNCHANGED <<phase, result, signalled, cancelled, fd, file, callVars, strays, zombies>>
  BY DEF WriteLands, WriteShort, RInv, TypeOK
<1>2. CASE WriteLands(w)
  <2>1. disk' = (IF fd = "open" THEN disk \cup {w[2]} ELSE disk) /\ UNCHANGED lost
    BY <1>2 DEF WriteLands, Land
  <2>2. fd = "open" => Kept
    BY <1>1, <2>1 DEF Kept, OwnWrite
  <2> QED BY <1>1, <2>1, <2>2, StrayKeeps DEF RInv, TypeOK
<1>3. CASE WriteShort(w)
  <2>1. lost' = lost \cup {w} /\ UNCHANGED disk
    BY <1>3 DEF WriteShort
  <2>2. Kept
    BY <1>1, <2>1 DEF Kept, OwnWrite
  <2> QED BY <1>1, <2>1, <2>2, StrayKeeps DEF RInv, TypeOK
<1> QED BY <1>2, <1>3

LEMMA StraysKeep ==
  ASSUME RInv, Stray
  PROVE  RInv'
<1>1. /\ UNCHANGED <<phase, result, signalled, cancelled, fd, file, callVars, writes>>
      /\ signalled \in BOOLEAN
  BY DEF Stray, StrayLands, StrayFails, ZombieConnects, ZombieWrites, ZombieEnds, RInv, TypeOK
<1>2. ASSUME NEW w \in strays, StrayLands(w) PROVE RInv'
  <2>1. /\ strays' = strays \ {w} /\ UNCHANGED <<lost, zombies>> /\ w[2] \in Bytes
        /\ disk' = IF fd = "open" THEN disk \cup {w[2]} ELSE disk
    BY <1>2 DEF StrayLands, Land, RInv, TypeOK
  <2>2. fd = "open" => Kept
    BY <1>1, <2>1 DEF Kept, OwnWrite
  <2> QED BY <1>1, <2>1, <2>2, StrayKeeps DEF RInv, TypeOK
<1>5. ASSUME NEW w \in strays, StrayFails(w) PROVE RInv'
  <2>1. /\ strays' = strays \ {w} /\ UNCHANGED <<disk, zombies>>
        /\ lost' = lost \cup ({w} \ ({Nobody} \X Bytes))
        /\ w \in (Segments \cup {Nobody}) \X Bytes
    BY <1>5 DEF StrayFails, RInv, TypeOK
  <2>2. lost' \subseteq Segments \X Bytes
    BY <2>1 DEF RInv, TypeOK
  <2>3. Kept
    BY <1>1, <2>1, NobodyIsNoSegment DEF Kept, OwnWrite
  <2> QED BY <1>1, <2>1, <2>2, <2>3, StrayKeeps DEF RInv, TypeOK
<1>3. ASSUME NEW z \in zombies, ZombieConnects(z) \/ ZombieEnds(z) PROVE RInv'
  <2>1. /\ UNCHANGED <<strays, lost, disk>>
        /\ \A y \in zombies' : y \in zombies \/ y = <<z[1], z[2], "open">>
    BY <1>3 DEF ZombieConnects, ZombieEnds
  <2>2. zombies' \subseteq Segments \X (0 .. FileSize) \X {"queued", "open"}
    BY <2>1 DEF RInv, TypeOK
  <2>3. Kept
    BY <1>1, <2>1 DEF Kept, OwnWrite
  <2> QED BY <1>1, <2>1, <2>2, <2>3, StrayKeeps DEF RInv, TypeOK
<1>4. ASSUME NEW z \in zombies, ZombieWrites(z) PROVE RInv'
  <2>1. /\ z[2] < Until(z[1]) /\ strays' = strays \cup {<<Nobody, z[2]>>} /\ UNCHANGED <<lost, disk>>
        /\ zombies' = (zombies \ {z}) \cup {<<z[1], z[2] + 1, "open">>}
    BY <1>4 DEF ZombieWrites
  <2>2. z[1] \in Segments /\ z[2] \in 0 .. FileSize
    BY DEF RInv, TypeOK
  <2>3. z[2] \in Bytes /\ z[2] + 1 \in 0 .. FileSize
    BY <2>1, <2>2, Bounds, FileHasBytes DEF Bytes
  <2>4. zombies' \subseteq Segments \X (0 .. FileSize) \X {"queued", "open"}
    BY <2>1, <2>2, <2>3 DEF RInv, TypeOK
  <2>5. Kept
    BY <1>1, <2>1 DEF Kept, OwnWrite
  <2>6. strays' \subseteq (Segments \cup {Nobody}) \X Bytes
    BY <2>1, <2>3 DEF RInv, TypeOK
  <2> QED BY <1>1, <2>1, <2>4, <2>5, <2>6, StrayKeeps DEF RInv, TypeOK
<1> QED BY <1>2, <1>3, <1>4, <1>5 DEF Stray

LEMMA RInvNext == RInv /\ [Next]_vars => RInv'
<1> SUFFICES ASSUME RInv, [Next]_vars PROVE RInv'
  OBVIOUS
<1>1. CASE UNCHANGED vars
  <2>1. Kept
    BY <1>1 DEF vars, Kept, OwnWrite
  <2> QED BY <1>1, <2>1, StrayKeeps DEF vars, RInv, TypeOK
<1>2. CASE Orchestrate
  BY <1>2, BeginKeeps, OrchestrateKeeps DEF Orchestrate
<1> QED BY <1>1, <1>2, AdvanceKeeps, WritesKeep, WriteFailsKeeps, UserAbortKeeps, StraysKeep
        DEF Next, Finished

LEMMA RInvAlways == Spec => []RInv
BY RInvInit, RInvNext, PTL DEF Spec

-----------------------------------------------------------------------------
(* The promises of download(). *)

LEMMA SiblingsStopped == RInv => SiblingsCancelled
<1> SUFFICES ASSUME RInv PROVE SiblingsCancelled
  OBVIOUS
<1>1. \A i \in Segments : conn[i] # "idle" => seg[i] = "running"
  BY DEF RInv, Calls
<1>2. \A i \in Ranges : seg[i] = "running" => phase = "ranged"
  BY DEF RInv, Calls
<1>3. seg[Whole] = "running" <=> phase = "single"
  BY DEF RInv, Calls
<1>4. fd = "closed" => phase \in {"unlinking", "returned"}
  BY DEF RInv, Decided
<1> QED BY <1>1, <1>2, <1>3, <1>4 DEF SiblingsCancelled, Segments

\* The first segment to fail stops its siblings, before the single stream of the
\* fallback starts and before the descriptor is closed.
THEOREM SiblingsStop == Spec => []SiblingsCancelled
BY SiblingsStopped, RInvAlways, PTL

\* Splitting needs a size: without the caller's hint, and with a threshold of 0,
\* which controller.ts documents as "disables splitting", downloadRanged would
\* split a file of no bytes and resolve without having fetched one.
HintOrThreshold == ExpectedTotal > 0 \/ SplitThreshold > 0 \/ Concurrency = 1

LEMMA RangesToAskFor == HintOrThreshold => Splittable
<1> SUFFICES ASSUME HintOrThreshold, MustSplit PROVE Ranges # {}
  BY DEF Splittable
<1>1. ExpectedTotal \in Nat /\ SplitThreshold \in Nat
  BY RangedAssumption
<1>2. 0 < ExpectedTotal
  BY <1>1 DEF HintOrThreshold, MustSplit
<1>3. \E i \in Ranges : From(i) <= 0 /\ 0 < Until(i)
  BY <1>2, ChunksTile
<1> QED BY <1>3

\* When the controlled path has decided to return normally, every byte of the
\* file is on disk or in an fs.write of a call that succeeded, in progress or
\* failed, however the ranges, their retries, failing writes, the fallback and
\* abandoned requests interleaved.
THEOREM RangesFill ==
  ASSUME HintOrThreshold
  PROVE  Spec => []FileComplete
<1>1. RInv => FileComplete
  BY RangesToAskFor DEF RInv
<1> QED BY <1>1, RInvAlways, PTL

-----------------------------------------------------------------------------
(* The controlled path implements DownloadContract. *)

\* The range a call was asked for and what of it was handed over are bytes of the file.
LEMMA SpanIsBytes ==
  ASSUME RInv, NEW i \in Segments
  PROVE  /\ Span(From(i), next[i]) \subseteq Bytes
         /\ From(i) \in Nat /\ next[i] \in Nat
         /\ From(i) <= next[i] /\ next[i] <= Until(i) /\ Until(i) \in 0 .. FileSize
<1>1. /\ From(i) \in Nat /\ Until(i) \in 0 .. FileSize /\ next[i] \in Nat
      /\ From(i) <= next[i] /\ next[i] <= Until(i)
  BY Bounds DEF RInv, Offsets, TypeOK
<1> QED BY <1>1, FileHasBytes DEF Span, Bytes

LEMMA HeldIsBytes == RInv => Held \subseteq Bytes
<1> SUFFICES ASSUME RInv PROVE Held \subseteq Bytes
  OBVIOUS
<1>1. Span(0, next[Whole]) \subseteq Bytes
  BY SpanIsBytes, WholeIsNoRange DEF From
<1>2. \A i \in Ranges : Span(From(i), next[i]) \subseteq Bytes
  BY SpanIsBytes, WholeIsNoRange
<1> QED BY <1>1, <1>2 DEF Held

LEMMA HeldIsBytesNext == RInv' => Held' \subseteq Bytes
<1>1. RInv => Held \subseteq Bytes
  BY HeldIsBytes
<1>2. (RInv => Held \subseteq Bytes)'
  BY <1>1, PTL
<1> QED BY <1>2

\* A step that leaves the outcome open, and the file there, is work.
LEMMA WorkStep ==
  ASSUME RInv, RInv', result = "pending", result' = "pending", UNCHANGED file
  PROVE  Download!Work
<1>1. State = "working" /\ State' = "working"
  BY DEF State, RInv, Decided
<1>2. Held' \subseteq Bytes
  BY HeldIsBytesNext
<1> QED BY <1>1, <1>2 DEF Download!Work

\* A step that decides on failure, before the close.
LEMMA GiveUpStep ==
  ASSUME RInv, result = "pending", result' = "error", phase' = "closing", UNCHANGED file
  PROVE  Download!GiveUp
BY DEF RInv, Decided, State, Held, Download!GiveUp

\* A call ends.
LEMMA CallEndsImplements ==
  ASSUME RInv, RInv', NEW i \in Segments, NEW how \in SegmentEnd, Active(i), CallEnds(i, how),
         how = "done" => next[i] = Until(i)
  PROVE  Download!Next
<1>1. /\ result = "pending" /\ UNCHANGED file /\ phase \in {"ranged", "single"}
      /\ i = Whole <=> phase = "single"
  BY WholeIsNoRange DEF CallEnds, Active, RInv, Calls, Decided, TypeOK, Segments
<1>2. CASE UNCHANGED result
  BY <1>1, <1>2, WorkStep DEF Download!Next
<1>3. CASE phase' = "closing" /\ result' = "error"
  BY <1>1, <1>3, GiveUpStep DEF Download!Next
<1>4. CASE how = "done" /\ SiblingsOf(i) = {} /\ phase' = "closing" /\ result' = "ok"
  <2>1. Bytes \subseteq UNION {Span(From(j), next[j]) : j \in Together(i)}
    BY <1>4, LastCallHasAll
  <2>2. State = "working" /\ Held' = Bytes /\ State' = "complete"
    BY <1>1, <1>4 DEF Held, State
  <2>3. Held = Bytes
    <3>1. CASE i = Whole
      BY <1>1, <2>1, <3>1, HeldIsBytes DEF Held, Together, From
    <3>2. CASE i # Whole
      BY <1>1, <2>1, <3>2, HeldIsBytes DEF Held, Together
    <3> QED BY <3>1, <3>2
  <2>4. Download!Finish
    BY <1>1, <2>2, <2>3 DEF Download!Finish
  <2> QED BY <2>4 DEF Download!Next
<1> QED BY <1>2, <1>3, <1>4 DEF CallEnds

\* Every step, of the path itself, of a call, of the caller or of what outlived
\* an attempt, is a step of the contract or changes nothing of it.
LEMMA DownloadStep ==
  ASSUME Splittable, RInv, RInv', [Next]_vars
  PROVE  [Download!Next]_<<State, Held, file>>
<1>1. ASSUME UNCHANGED <<phase, result, file>>
      PROVE  [Download!Next]_<<State, Held, file>>
  <2>1. CASE result = "pending"
    BY <1>1, <2>1, WorkStep DEF Download!Next
  <2>2. CASE result # "pending"
    BY <1>1, <2>2 DEF State, Held, RInv, TypeOK
  <2> QED BY <2>1, <2>2
<1>2. CASE Begin
  <2>1. result = "pending" /\ UNCHANGED file
    BY <1>2 DEF Begin, RInv, Decided
  <2>2. CASE UNCHANGED result
    BY <2>1, <2>2, WorkStep DEF Download!Next
  <2>3. CASE phase' = "closing" /\ result' = "error"
    BY <2>1, <2>3, GiveUpStep DEF Download!Next
  <2> QED BY <1>2, <2>2, <2>3 DEF Begin, Splittable
<1>3. CASE Truncated
  <2>1. result = "pending" /\ UNCHANGED <<result, file>>
    BY <1>3 DEF Truncated, RInv, Decided
  <2> QED BY <2>1, WorkStep DEF Download!Next
<1>4. CASE Close
  <2>1. /\ phase = "closing" /\ UNCHANGED <<result, file>> /\ result \in {"ok", "error"}
        /\ phase' = IF result = "ok" THEN "returned" ELSE "unlinking"
    BY <1>4 DEF Close, RInv, Decided, TypeOK
  <2>2. CASE result = "ok"
    <3>1. Download!Return
      BY <2>1, <2>2 DEF Download!Return, State, Held
    <3> QED BY <3>1 DEF Download!Next
  <2>3. CASE result = "error"
    BY <2>1, <2>3 DEF State, Held
  <2> QED BY <2>1, <2>2, <2>3
<1>5. CASE Unlink
  <2>1. /\ phase = "unlinking" /\ result = "error" /\ phase' = "returned"
        /\ file' \in {"removed", "stuck"}
        /\ UNCHANGED result
    BY <1>5 DEF Unlink, RInv, Decided
  <2>2. Download!Remove
    BY <2>1 DEF Download!Remove, State, Held
  <2> QED BY <2>2 DEF Download!Next
<1>6. ASSUME NEW i \in Segments, Advance(i) PROVE [Download!Next]_<<State, Held, file>>
  <2>1. CASE Request(i) \/ Receive(i)
    BY <1>1, <2>1 DEF Request, Receive
  <2>2. CASE Connect(i) \/ GiveUpAttempt(i)
    BY <1>1, <2>2, CallEndsImplements DEF Connect, GiveUpAttempt, AttemptEnds
  <2>3. CASE Succeed(i) \/ Exhausted(i) \/ RefuseRange(i)
    BY <2>3, CallEndsImplements DEF Succeed, Exhausted, RefuseRange
  <2> QED BY <1>6, <2>1, <2>2, <2>3 DEF Advance
<1>7. CASE UserAbort
  <2>1. CASE phase' = "closing" /\ result' = "error" /\ phase \in {"ranged", "single"}
    <3>1. result = "pending" /\ UNCHANGED file
      BY <1>7, <2>1 DEF UserAbort, RInv, Decided
    <3> QED BY <2>1, <3>1, GiveUpStep DEF Download!Next
  <2>2. CASE UNCHANGED <<phase, result>>
    BY <1>1, <1>7, <2>2 DEF UserAbort
  <2> QED BY <1>7, <2>1, <2>2 DEF UserAbort
<1>8. CASE Stray \/ UNCHANGED vars \/ \E w \in writes : WriteLands(w) \/ WriteShort(w)
  BY <1>1, <1>8 DEF Stray, StrayLands, StrayFails, ZombieConnects, ZombieWrites, ZombieEnds,
     WriteLands, WriteShort, vars
<1>9. ASSUME NEW w \in writes, WriteFails(w) PROVE [Download!Next]_<<State, Held, file>>
  <2>1. w[1] \in Segments /\ Active(w[1]) /\ AttemptEnds(w[1], {w})
    BY <1>9 DEF WriteFails, RInv, TypeOK
  <2> QED BY <1>1, <2>1, CallEndsImplements DEF AttemptEnds
<1> QED BY <1>2, <1>3, <1>4, <1>5, <1>6, <1>7, <1>8, <1>9 DEF Next, Orchestrate, Finished

\* The controlled path keeps the promise of download() that the classic path
\* keeps: it returns only when the calls it stands on handed over every byte, and
\* otherwise throws, after it tried to remove the file.
THEOREM KeepsDownloadContract ==
  ASSUME HintOrThreshold
  PROVE  Spec => ImplementsDownload
<1>1. Init => Download!Init
  <2> SUFFICES ASSUME Init PROVE Download!Init
    OBVIOUS
  <2>1. \A i \in Segments : Span(From(i), next[i]) = {}
    BY Bounds DEF Init, Span
  <2> QED BY <2>1, WholeIsNoRange DEF Init, Download!Init, State, Held
<1>2. RInv /\ RInv' /\ [Next]_vars => [Download!Next]_<<State, Held, file>>
  BY DownloadStep, RangesToAskFor
<1> QED BY <1>1, <1>2, RInvAlways, PTL DEF Spec, ImplementsDownload, Download!Spec, Download!vars

=============================================================================
