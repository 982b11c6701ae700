---------------------------- MODULE SegmentProofs ----------------------------
(***************************************************************************)
(* Theorems of SegmentDownload, for any number of URLs, any budgets, any   *)
(* file and any segment of it: its types and the bound on its requests     *)
(* first, then the bytes - none is passed over, none is asked for twice,   *)
(* and a call keeps the contract its callers rely on.                      *)
(***************************************************************************)
EXTENDS SegmentDownload, Integers, TLAPS

LEMMA BoundIsNat == AttemptBound \in Nat
BY SegmentAssumption DEF SegmentAssumption, AttemptBound

\* The ways the tail of the loop deals with an attempt's verdict.
Verdict ==
  \/ AfterSlow /\ ~committed
  \/ AfterNoProgress("ttfb")
  \/ AfterNoProgress("stall")
  \/ \E cause \in {"http", "network", "disk"}, r \in BOOLEAN : AfterFailure(cause, r)
  \/ AfterSuccess
  \/ Aborted

\* A verdict keeps the loop's variables in their types and ends the wait.
LEMMA VerdictTyping ==
  ASSUME LoopTypeOK, position \in 0 .. FileSize, urlIndex <= NUrls, Verdict
  PROVE  LoopTypeOK' /\ pc' # "await"
<1> USE SegmentAssumption DEF SegmentAssumption, LoopTypeOK, Final, Cause
<1>1. CASE AfterSlow /\ ~committed
  BY <1>1 DEF AfterSlow, Carry, Larger
<1>2. CASE AfterNoProgress("ttfb")
  BY <1>2 DEF AfterNoProgress, Carry, Larger
<1>3. CASE AfterNoProgress("stall")
  BY <1>3 DEF AfterNoProgress, Carry, Larger
<1>4. CASE \E cause \in {"http", "network", "disk"}, r \in BOOLEAN : AfterFailure(cause, r)
  BY <1>4 DEF AfterFailure, Carry, Larger
<1>5. CASE AfterSuccess
  BY <1>5 DEF AfterSuccess, AfterShort, Carry, Larger, loopVars
<1>6. CASE Aborted
  BY <1>6 DEF Aborted, loopVars
<1> QED BY <1>1, <1>2, <1>3, <1>4, <1>5, <1>6 DEF Verdict

LEMMA SpanIsBytes ==
  ASSUME NEW lo \in Nat, NEW hi \in 0 .. FileSize
  PROVE  Span(lo, hi) \subseteq Bytes
BY SegmentAssumption DEF SegmentAssumption, Span, Bytes

LEMMA ReleaseTyping ==
  ASSUME ConnTypeOK, DiskTypeOK, Release
  PROVE  ConnTypeOK' /\ DiskTypeOK'
BY DEF ConnTypeOK, DiskTypeOK, Release, LinkPhase

LEMMA RerollsAreBoolean == Rerolls \subseteq BOOLEAN
BY DEF Rerolls

LEMMA InitTyping == Init => TypeOK
<1> SUFFICES ASSUME Init PROVE TypeOK
  OBVIOUS
<1> USE DEF Init
<1>1. committed \in BOOLEAN /\ signalled \in BOOLEAN
  OBVIOUS
<1>2. LoopTypeOK
  BY <1>1, SegmentAssumption DEF LoopTypeOK, SegmentAssumption, Final, Cause
<1>3. ConnTypeOK
  BY SegmentAssumption DEF ConnTypeOK, SegmentAssumption, LinkPhase
<1>4. DiskTypeOK
  BY DEF DiskTypeOK
<1>5. attempts \in 0 .. (AttemptBound + 1)
  BY BoundIsNat
<1>6. StrayTypeOK
  BY DEF StrayTypeOK
<1> QED BY <1>1, <1>2, <1>3, <1>4, <1>5, <1>6 DEF TypeOK

\* While an attempt is awaited the loop stands at a URL.
AwaitsUrl == pc = "await" => urlIndex <= NUrls

\* The step in which an attempt's verdict falls.
LEMMA SettleTyping ==
  ASSUME TypeOK, AwaitsUrl, pc = "await", Verdict, ConnTypeOK', DiskTypeOK', StrayTypeOK',
         UNCHANGED <<signalled, attempts>>
  PROVE  TypeOK' /\ AwaitsUrl'
<1>1. position \in 0 .. FileSize
  BY SegmentAssumption DEF TypeOK, ConnTypeOK, SegmentAssumption
<1>2. LoopTypeOK' /\ pc' # "await"
  BY <1>1, VerdictTyping DEF TypeOK, AwaitsUrl
<1> QED BY <1>2 DEF TypeOK, AwaitsUrl

\* The verdicts a connection step may end in.
LEMMA FailureIsVerdict ==
  ASSUME NEW cause \in {"http", "network", "disk"},
         \E reroll \in Rerolls : AfterFailure(cause, reroll)
  PROVE  Verdict
BY RerollsAreBoolean DEF Verdict

LEMMA StrayTyping == StrayTypeOK /\ StrayStep => StrayTypeOK'
<1> SUFFICES ASSUME StrayTypeOK, NEW r \in strays,
               \/ \E s \in 0 .. (FileSize - 1), l \in 1 .. FileSize : StrayAnswered(r, s, l)
               \/ \E n \in 1 .. FileSize : StrayData(r, n)
               \/ StrayEnds(r)
             PROVE  StrayTypeOK'
  BY DEF StrayStep
<1>0. FileSize \in Nat
  BY SegmentAssumption DEF SegmentAssumption
<1>1. ASSUME NEW s \in 0 .. (FileSize - 1), NEW l \in 1 .. FileSize, StrayAnswered(r, s, l)
      PROVE  StrayTypeOK'
  <2>1. [link |-> "body", next |-> s, limit |-> l] \in StrayRequest
    BY <1>0 DEF StrayRequest
  <2> QED BY <1>1, <2>1 DEF StrayAnswered, StrayTypeOK
<1>2. ASSUME NEW n \in 1 .. FileSize, StrayData(r, n)
      PROVE  StrayTypeOK'
  <2>1. r \in StrayRequest /\ r.next + n <= r.limit
    BY <1>2 DEF StrayData, StrayTypeOK
  <2>2. r.next \in 0 .. FileSize /\ r.limit \in 0 .. FileSize
    BY <2>1 DEF StrayRequest
  <2>3. r.next + n \in 0 .. FileSize /\ r.next \in Nat
    BY <1>0, <2>1, <2>2
  <2>4. [r EXCEPT !.next = r.next + n] \in StrayRequest
    BY <2>1, <2>3 DEF StrayRequest
  <2>5. Span(r.next, r.next + n) \subseteq Bytes
    BY <2>3, SpanIsBytes
  <2> QED BY <1>2, <2>4, <2>5 DEF StrayData, StrayTypeOK
<1>3. CASE StrayEnds(r)
  BY <1>3 DEF StrayEnds, StrayTypeOK
<1> QED BY <1>1, <1>2, <1>3

LEMMA NextTyping == TypeOK /\ AwaitsUrl /\ [Next]_vars => TypeOK' /\ AwaitsUrl'
<1> SUFFICES ASSUME TypeOK, AwaitsUrl, [Next]_vars
             PROVE  TypeOK' /\ AwaitsUrl'
  OBVIOUS
<1>a. LoopTypeOK /\ ConnTypeOK /\ DiskTypeOK /\ StrayTypeOK /\ signalled \in BOOLEAN
      /\ attempts \in 0 .. (AttemptBound + 1)
  BY DEF TypeOK
<1>b. ASSUME UNCHANGED <<pc, loopVars>> PROVE LoopTypeOK' /\ AwaitsUrl'
  BY <1>a, <1>b DEF LoopTypeOK, AwaitsUrl, loopVars
<1>c. ASSUME UNCHANGED connVars PROVE ConnTypeOK'
  BY <1>a, <1>c DEF ConnTypeOK, connVars
<1>d. ASSUME UNCHANGED diskVars PROVE DiskTypeOK'
  BY <1>a, <1>d DEF DiskTypeOK, diskVars
<1>e. ASSUME Release PROVE ConnTypeOK' /\ DiskTypeOK'
  BY <1>a, <1>e, ReleaseTyping
<1>f. ASSUME UNCHANGED strayVars PROVE StrayTypeOK'
  BY <1>a, <1>f DEF StrayTypeOK, strayVars
<1>1. CASE UNCHANGED vars
  BY <1>1, <1>a, <1>f, <1>b, <1>c, <1>d DEF vars, TypeOK
<1>2. CASE SkipUrl
  <2>1. LoopTypeOK' /\ AwaitsUrl'
    BY <1>2, <1>a, <1>f, SegmentAssumption DEF SkipUrl, LoopTypeOK, AwaitsUrl, SegmentAssumption
  <2> QED BY <2>1, <1>2, <1>a, <1>f, <1>c, <1>d DEF SkipUrl, TypeOK
<1>3. CASE Dispatch
  <2>1. LoopTypeOK' /\ AwaitsUrl'
    BY <1>3, <1>a, <1>f DEF Dispatch, loopVars, LoopTypeOK, AwaitsUrl
  <2>2. ConnTypeOK'
    BY <1>3, <1>a, <1>f, SegmentAssumption
       DEF Dispatch, LoopTypeOK, ConnTypeOK, LinkPhase, SegmentAssumption
  <2>3. attempts' \in 0 .. (AttemptBound + 1)
    BY <1>3, <1>a, <1>f, BoundIsNat DEF Dispatch
  <2> QED BY <2>1, <2>2, <2>3, <1>3, <1>a, <1>f, <1>d DEF Dispatch, TypeOK
<1>4. CASE RunOffList
  <2>1. LoopTypeOK' /\ AwaitsUrl'
    BY <1>4, <1>a, <1>f DEF RunOffList, loopVars, LoopTypeOK, AwaitsUrl, Final
  <2> QED BY <2>1, <1>4, <1>a, <1>f, <1>c, <1>d DEF RunOffList, TypeOK
<1>5. CASE Connect
  <2>1. CASE Release /\ Aborted
    BY <2>1, <1>5, <1>e, <1>f, SettleTyping DEF Connect, Verdict
  <2>2. CASE link' = "open" /\ UNCHANGED <<pc, loopVars, url, start, position, total, limit, diskVars>>
    <3>1. ConnTypeOK'
      BY <2>2, <1>a, <1>f DEF ConnTypeOK, LinkPhase
    <3> QED BY <3>1, <2>2, <1>5, <1>a, <1>f, <1>b, <1>d DEF Connect, TypeOK
  <2> QED BY <2>1, <2>2, <1>5 DEF Connect
<1>6. CASE ErrorResponse
  <2>1. Verdict
    BY <1>6, FailureIsVerdict DEF ErrorResponse
  <2> QED BY <2>1, <1>6, <1>e, <1>f, SettleTyping DEF ErrorResponse
<1>7. ASSUME NEW s \in 0 .. (FileSize - 1), NEW l \in 1 .. FileSize, NEW sized \in Sizes,
             PartialResponse(s, l, sized)
      PROVE  TypeOK' /\ AwaitsUrl'
  <2>1. LoopTypeOK' /\ AwaitsUrl'
    BY <1>7, <1>a, <1>f DEF PartialResponse, loopVars, LoopTypeOK, AwaitsUrl, Final
  <2>2. ConnTypeOK'
    BY <1>7, <1>a, <1>f, SegmentAssumption
       DEF PartialResponse, Partial, LearnTotal, ConnTypeOK, LinkPhase, SegmentAssumption
  <2> QED BY <2>1, <2>2, <1>7, <1>a, <1>f, <1>d DEF PartialResponse, TypeOK
<1>8. ASSUME NEW l \in 1 .. FileSize, NEW sized \in Sizes, FullResponse(l, sized)
      PROVE  TypeOK' /\ AwaitsUrl'
  <2>1. LoopTypeOK' /\ AwaitsUrl'
    BY <1>8, <1>a, <1>f DEF FullResponse, loopVars, LoopTypeOK, AwaitsUrl, Final
  <2>2. ConnTypeOK'
    BY <1>8, <1>a, <1>f, SegmentAssumption
       DEF FullResponse, LearnTotal, ConnTypeOK, LinkPhase, SegmentAssumption
  <2> QED BY <2>1, <2>2, <1>8, <1>a, <1>f, <1>d DEF FullResponse, TypeOK
<1>9. ASSUME NEW n \in 1 .. FileSize, Data(n)
      PROVE  TypeOK' /\ AwaitsUrl'
  <2>1. ConnTypeOK'
    BY <1>9, <1>a, <1>f, SegmentAssumption DEF Data, ConnTypeOK, SegmentAssumption
  <2>2. Span(position, position + n) \subseteq Bytes
    BY <1>9, <1>a, <1>f, SegmentAssumption, SpanIsBytes DEF Data, ConnTypeOK, SegmentAssumption
  <2>3. DiskTypeOK'
    BY <2>2, <1>9, <1>a, <1>f DEF Data, DiskTypeOK
  <2> QED BY <2>1, <2>3, <1>9, <1>a, <1>f, <1>b DEF Data, TypeOK
<1>10. CASE Complete
  <2>1. CASE inflight = {}
    BY <2>1, <1>10, <1>e, <1>f, SettleTyping DEF Complete, Verdict
  <2>2. CASE inflight # {}
    <3>1. ConnTypeOK'
      BY <2>2, <1>10, <1>a, <1>f DEF Complete, ConnTypeOK, LinkPhase
    <3> QED BY <3>1, <2>2, <1>10, <1>a, <1>f, <1>b, <1>d DEF Complete, TypeOK
  <2> QED BY <2>1, <2>2
<1>11. CASE NetworkError
  <2>1. Verdict
    BY <1>11, FailureIsVerdict DEF NetworkError, Verdict
  <2> QED BY <2>1, <1>11, <1>e, <1>f, SettleTyping DEF NetworkError
<1>12. CASE TtfbAbort
  <2>1. StrayTypeOK'
    <3>1. CASE LeavesStray
      <4>1. resumeOffset \in 0 .. FileSize /\ FileSize \in Nat
        BY <1>a, SegmentAssumption DEF LoopTypeOK, SegmentAssumption
      <4>2. [link |-> "queued", next |-> resumeOffset, limit |-> 0] \in StrayRequest
        BY <4>1 DEF StrayRequest
      <4> QED BY <3>1, <4>2, <1>a DEF LeavesStray, StrayTypeOK
    <3> QED BY <3>1, <1>12, <1>f DEF TtfbAbort
  <2> QED BY <2>1, <1>12, <1>e, SettleTyping DEF TtfbAbort, Verdict
<1>13. CASE StallAbort
  BY <1>13, <1>e, <1>f, SettleTyping DEF StallAbort, Verdict
<1>14. CASE SlowAbort
  BY <1>14, <1>e, <1>f, SettleTyping DEF SlowAbort, Verdict
<1>15. CASE UserAbort
  <2>1. LoopTypeOK' /\ AwaitsUrl'
    BY <1>15, <1>a, <1>f DEF UserAbort, loopVars, LoopTypeOK, AwaitsUrl, Final
  <2> QED BY <2>1, <1>15, <1>a, <1>f, <1>c, <1>d, <1>e DEF UserAbort, TypeOK
<1>16. ASSUME NEW c, NEW written \in SUBSET c, CallBack(c, written)
       PROVE  TypeOK' /\ AwaitsUrl'
  <2>1. DiskTypeOK'
    BY <1>16, <1>a, <1>f DEF CallBack, DiskTypeOK
  <2>2. ConnTypeOK'
    BY <1>16, <1>a, <1>f DEF CallBack, ConnTypeOK, LinkPhase
  <2>3. CASE Settled(c)
    BY <2>1, <2>2, <2>3, <1>16, <1>f, SettleTyping DEF CallBack, Verdict
  <2>4. CASE ~Settled(c)
    BY <2>1, <2>2, <2>4, <1>16, <1>a, <1>f, <1>b DEF CallBack, TypeOK
  <2> QED BY <2>3, <2>4
<1>17. ASSUME NEW c, WriteError(c)
       PROVE  TypeOK' /\ AwaitsUrl'
  <2>1. ConnTypeOK' /\ DiskTypeOK'
    BY <1>17, <1>a, <1>f DEF WriteError, ConnTypeOK, DiskTypeOK, LinkPhase
  <2>2. Verdict
    BY <1>17, FailureIsVerdict DEF WriteError
  <2> QED BY <2>1, <2>2, <1>17, <1>f, SettleTyping DEF WriteError
<1>18. ASSUME NEW c, NEW written \in SUBSET c, OrphanCallBack(c, written)
       PROVE  TypeOK' /\ AwaitsUrl'
  <2>1. DiskTypeOK'
    BY <1>18, <1>a, <1>f DEF OrphanCallBack, DiskTypeOK
  <2> QED BY <2>1, <1>18, <1>a, <1>f, <1>b, <1>c DEF OrphanCallBack, TypeOK
<1>19. CASE Iterate
  BY <1>2, <1>3, <1>4, <1>19 DEF Iterate
<1>20. CASE LinkStep
  <2>1. CASE Response
    BY <2>1, <1>6, <1>7, <1>8 DEF Response
  <2>2. CASE Transfer
    BY <2>2, <1>9, <1>10 DEF Transfer
  <2> QED BY <2>1, <2>2, <1>5, <1>11, <1>20 DEF LinkStep
<1>21. CASE ManagedAbort
  BY <1>12, <1>13, <1>14, <1>21 DEF ManagedAbort
<1>22. CASE DiskStep
  <2>1. ASSUME NEW c \in inflight, WriteDone(c) \/ \E k \in c : ShortWrite(c, {b \in c : b <= k})
        PROVE  \E written \in SUBSET c : CallBack(c, written)
    BY <2>1 DEF WriteDone, ShortWrite
  <2>2. ASSUME NEW c \in orphans, OrphanDone(c) \/ OrphanFault(c)
        PROVE  \E written \in SUBSET c : OrphanCallBack(c, written)
    BY <2>2 DEF OrphanDone, OrphanFault
  <2> QED BY <2>1, <2>2, <1>16, <1>17, <1>18, <1>22 DEF DiskStep
<1>23. CASE Finished
  BY <1>1, <1>23 DEF Finished
<1>24. CASE StrayStep
  <2>1. UNCHANGED <<pc, loopVars, signalled, connVars, diskVars, attempts>>
    BY <1>24 DEF StrayStep, StrayAnswered, StrayData, StrayEnds
  <2>2. StrayTypeOK'
    BY <1>24, <1>a, StrayTyping
  <2> QED BY <2>1, <2>2, <1>a, <1>b, <1>c, <1>d DEF TypeOK
<1> QED BY <1>1, <1>15, <1>19, <1>20, <1>21, <1>22, <1>23, <1>24 DEF Next

\* Every variable stays in its type: in particular the resume offset never
\* leaves the file and no budget is overdrawn.
THEOREM Typing == Spec => []TypeOK
<1>1. Init => TypeOK /\ AwaitsUrl
  BY InitTyping DEF Init, AwaitsUrl
<1> QED BY <1>1, NextTyping, PTL DEF Spec

-----------------------------------------------------------------------------
(* What a step can do to the loop: move on at its head, deliver a verdict,  *)
(* or leave it alone.                                                       *)

Settle ==
  /\ pc = "await"
  /\ Verdict
  /\ UNCHANGED <<signalled, attempts, url>>

Quiet ==
  /\ UNCHANGED <<loopVars, attempts, url>>
  /\ pc' = pc \/ pc' \in {"rangeRejected", "aborted"}
     \/ (pc' = "failed" /\ urlIndex > NUrls)

LEMMA StepKinds ==
  ASSUME [Next]_vars
  PROVE  SkipUrl \/ Dispatch \/ Settle \/ Quiet
<1>1. CASE UNCHANGED vars \/ Finished
  BY <1>1 DEF Finished, vars, connVars, Quiet
<1>2. CASE Iterate
  BY <1>2 DEF Iterate, RunOffList, connVars, Quiet
<1>3. CASE Connect
  BY <1>3 DEF Connect, Release, Verdict, Settle, Quiet
<1>4. CASE Response
  <2>1. CASE ErrorResponse
    <3>1. Verdict
      BY <2>1, FailureIsVerdict DEF ErrorResponse
    <3> QED BY <2>1, <3>1 DEF ErrorResponse, Release, Settle
  <2>2. ASSUME NEW s, NEW l, NEW sized, PartialResponse(s, l, sized) PROVE Quiet
    BY <2>2 DEF PartialResponse, Quiet
  <2>3. ASSUME NEW l, NEW sized, FullResponse(l, sized) PROVE Quiet
    BY <2>3 DEF FullResponse, Quiet
  <2> QED BY <1>4, <2>1, <2>2, <2>3 DEF Response
<1>5. CASE Transfer
  <2>1. ASSUME NEW n, Data(n) PROVE Quiet
    BY <2>1 DEF Data, Quiet
  <2>2. CASE Complete
    BY <2>2 DEF Complete, Release, Verdict, Settle, Quiet
  <2> QED BY <1>5, <2>1, <2>2 DEF Transfer
<1>6. CASE NetworkError
  <2>1. Verdict
    BY <1>6, FailureIsVerdict DEF NetworkError, Verdict
  <2> QED BY <1>6, <2>1 DEF NetworkError, Release, Settle
<1>7. CASE ManagedAbort
  BY <1>7 DEF ManagedAbort, TtfbAbort, StallAbort, SlowAbort, Release, Verdict, Settle
<1>8. CASE UserAbort
  BY <1>8 DEF UserAbort, Release, connVars, Quiet
<1>9. CASE DiskStep
  <2>1. ASSUME NEW c, NEW written, CallBack(c, written) PROVE Settle \/ Quiet
    BY <2>1 DEF CallBack, Verdict, Settle, Quiet
  <2>2. ASSUME NEW c, WriteError(c) PROVE Settle
    <3>1. Verdict
      BY <2>2, FailureIsVerdict DEF WriteError
    <3> QED BY <2>2, <3>1 DEF WriteError, Settle
  <2>3. ASSUME NEW c, NEW written, OrphanCallBack(c, written) PROVE Quiet
    BY <2>3 DEF OrphanCallBack, connVars, Quiet
  <2> QED BY <1>9, <2>1, <2>2, <2>3 DEF DiskStep, WriteDone, ShortWrite, OrphanDone, OrphanFault
<1>10. CASE StrayStep
  BY <1>10 DEF StrayStep, StrayAnswered, StrayData, StrayEnds, connVars, Quiet
<1> QED BY <1>1, <1>2, <1>3, <1>4, <1>5, <1>6, <1>7, <1>8, <1>9, <1>10 DEF Next, LinkStep

-----------------------------------------------------------------------------
(* The number of requests is bounded.  Each verdict that keeps the loop     *)
(* running spends at least one of what is left to it: a resume, a try       *)
(* without progress, the commitment, or a URL, whose share pays for the     *)
(* budgets that moving to the next URL gives back.                          *)

Share == MaxNoProgress + 2
UrlsLeft == NUrls + 1 - urlIndex
Spent == noProgress + (IF committed THEN 1 ELSE 0)
Left == (MaxResumes - resumes) + UrlsLeft * Share - Spent

BudgetInv ==
  /\ attempts <= AttemptBound
  /\ urlIndex <= NUrls => attempts + Left <= AttemptBound + 1
  /\ urlIndex <= NUrls /\ pc = "select" => attempts + Left <= AttemptBound

LEMMA OneUrlLess ==
  ASSUME NEW n \in Int, NEW k \in Int
  PROVE  (n - 1) * k = n * k - k
OBVIOUS

LEMMA AtLeastOneShare ==
  ASSUME NEW n \in Nat \ {0}, NEW k \in Nat
  PROVE  n * k >= k
<1>1. n * k = (n - 1) * k + k
  BY OneUrlLess
<1>2. (n - 1) * k \in Nat
  OBVIOUS
<1> QED BY <1>1, <1>2

\* What is left is an integer, and positive while the loop stands at a URL.
LEMMA LeftPositive ==
  ASSUME TypeOK, urlIndex <= NUrls
  PROVE  Left \in Int /\ Left >= 1
<1> USE SegmentAssumption DEF SegmentAssumption, TypeOK, LoopTypeOK
<1>1. UrlsLeft \in Nat \ {0} /\ Share \in Nat
  BY DEF UrlsLeft, Share
<1>2. UrlsLeft * Share >= Share /\ UrlsLeft * Share \in Nat
  BY <1>1, AtLeastOneShare
<1>3. Spent \in Nat /\ Spent <= MaxNoProgress + 1
  BY DEF Spent
<1> QED BY <1>2, <1>3 DEF Left, Share

\* A verdict after which the loop stands at a URL has spent something.
LEMMA VerdictSpends ==
  ASSUME TypeOK, TypeOK', urlIndex <= NUrls, urlIndex' <= NUrls,
         Verdict, pc' = "select"
  PROVE  Left' <= Left - 1
<1> DEFINE product == UrlsLeft * Share
<1>0. product \in Int /\ UrlsLeft \in Int /\ Share \in Int /\ Share = MaxNoProgress + 2
  BY SegmentAssumption DEF UrlsLeft, Share, SegmentAssumption, TypeOK, LoopTypeOK
<1>1. urlIndex' = urlIndex + 1 => product' = product - Share
  <2> SUFFICES ASSUME urlIndex' = urlIndex + 1 PROVE UrlsLeft' * Share = UrlsLeft * Share - Share
    BY DEF Share
  <2>1. UrlsLeft' = UrlsLeft - 1
    BY SegmentAssumption DEF UrlsLeft, SegmentAssumption, TypeOK, LoopTypeOK
  <2> QED BY <2>1, <1>0, OneUrlLess
<1>2. urlIndex' = urlIndex => product' = product
  BY DEF UrlsLeft, Share
<1>3. Left = (MaxResumes - resumes) + product - Spent
      /\ Left' = (MaxResumes - resumes') + product' - Spent'
  BY DEF Left
<1> HIDE DEF product
<1> USE <1>0, <1>1, <1>2, <1>3, SegmentAssumption DEF SegmentAssumption, TypeOK, LoopTypeOK, Spent
<1>4. CASE AfterSlow /\ ~committed
  <2>1. ~committed /\ resumes' = (IF resumes < MaxResumes THEN resumes + 1 ELSE resumes)
        /\ noProgress' = noProgress /\ urlIndex' = urlIndex
    BY <1>4 DEF AfterSlow
  <2>2. CASE resumes < MaxResumes
    <3>1. ~committed'
      BY <2>1, <2>2, <1>4 DEF AfterSlow
    <3> QED BY <2>1, <2>2, <3>1
  <2>3. CASE ~(resumes < MaxResumes)
    <3>1. resumes >= MaxResumes
      BY <2>3
    <3>2. committed'
      BY ONLY <3>1, <1>4 DEF AfterSlow
    <3> QED BY <2>1, <2>3, <3>2
  <2> QED BY <2>2, <2>3
<1>5. ASSUME NEW reason, AfterNoProgress(reason) PROVE Left' <= Left - 1
  BY <1>5 DEF AfterNoProgress
<1>6. ASSUME NEW cause, NEW r \in BOOLEAN, AfterFailure(cause, r) PROVE Left' <= Left - 1
  BY <1>6 DEF AfterFailure
<1>7. CASE AfterSuccess
  BY <1>7 DEF AfterSuccess, AfterShort
<1>8. CASE Aborted
  BY <1>8 DEF Aborted
<1> QED BY <1>4, <1>5, <1>6, <1>7, <1>8 DEF Verdict

LEMMA SpendOne ==
  ASSUME NEW a \in Int, NEW b \in Int, NEW c \in Int, NEW d \in Int,
         a + b <= c + 1, d <= b - 1
  PROVE  a + d <= c
OBVIOUS

\* The step in which a verdict falls keeps the budget.
LEMMA SettleBudget ==
  ASSUME TypeOK, TypeOK', AwaitsUrl, BudgetInv, pc = "await", Verdict,
         UNCHANGED attempts
  PROVE  BudgetInv'
<1>1. urlIndex <= NUrls /\ attempts + Left <= AttemptBound + 1
  BY DEF AwaitsUrl, BudgetInv
<1>2. pc' # "await" /\ (pc' = "select" \/ UNCHANGED loopVars)
  BY DEF Verdict, AfterSlow, AfterNoProgress, AfterFailure, AfterSuccess, AfterShort, Aborted
<1>3. attempts \in Int /\ AttemptBound \in Int /\ Left \in Int /\ Left >= 1
  BY <1>1, LeftPositive, BoundIsNat DEF TypeOK
<1>4. attempts' <= AttemptBound
  BY <1>1, <1>3
<1>5. ASSUME urlIndex' <= NUrls, pc' = "select"
      PROVE  attempts' + Left' <= AttemptBound
  <2>1. Left' \in Int
    BY SegmentAssumption
       DEF Left, UrlsLeft, Share, Spent, SegmentAssumption, TypeOK, LoopTypeOK
  <2>2. Left' <= Left - 1
    BY <1>1, <1>5, VerdictSpends
  <2>3. attempts + Left' <= AttemptBound
    BY ONLY <1>1, <1>3, <2>1, <2>2, SpendOne, Zenon
  <2> QED BY <2>3
<1>6. ASSUME UNCHANGED loopVars
      PROVE  attempts' + Left' <= AttemptBound + 1
  <2>1. Left' = Left
    BY <1>6 DEF loopVars, Left, UrlsLeft, Share, Spent
  <2> QED BY <1>1, <2>1
<1>7. ASSUME urlIndex' <= NUrls, pc' = "select"
      PROVE  attempts' + Left' <= AttemptBound + 1
  <2>1. Left' \in Int
    BY SegmentAssumption
       DEF Left, UrlsLeft, Share, Spent, SegmentAssumption, TypeOK, LoopTypeOK
  <2>2. attempts' + Left' \in Int /\ attempts' + Left' <= AttemptBound
    BY <1>5, <1>7, <2>1 DEF TypeOK
  <2> QED BY ONLY <2>2, <1>3
<1> QED BY <1>2, <1>4, <1>5, <1>6, <1>7 DEF BudgetInv

\* A step that leaves the loop alone and dispatches nothing.
LEMMA IdleBudget ==
  ASSUME BudgetInv, UNCHANGED <<loopVars, attempts>>, pc' = pc \/ pc' # "select"
  PROVE  BudgetInv'
<1>1. Left' = Left
  BY DEF loopVars, Left, UrlsLeft, Share, Spent
<1> QED BY <1>1 DEF BudgetInv, loopVars

LEMMA TradeUp ==
  ASSUME NEW a \in Int, NEW b \in Int, NEW c \in Int, NEW d \in Int,
         a + b <= c, d <= b
  PROVE  a + d <= c /\ a + d <= c + 1
OBVIOUS

LEMMA LoseShare ==
  ASSUME NEW a \in Int, NEW p \in Int, NEW k \in Nat, NEW s \in Int
  PROVE  a + (p - k) - s \in Int /\ a + (p - k) - s <= a + p - s
OBVIOUS

LEMMA NextBudget ==
  ASSUME TypeOK, TypeOK', AwaitsUrl, BudgetInv, [Next]_vars
  PROVE  BudgetInv'
<1>0. attempts \in Int /\ AttemptBound \in Int /\ Share \in Nat
  BY BoundIsNat, SegmentAssumption DEF TypeOK, Share, SegmentAssumption
<1>2. CASE SkipUrl
  <2>1. urlIndex' = urlIndex + 1 /\ urlIndex <= NUrls /\ pc = "select"
        /\ UNCHANGED <<resumes, noProgress, committed, attempts>>
    BY <1>2 DEF SkipUrl
  <2>2. Left \in Int /\ attempts + Left <= AttemptBound /\ attempts <= AttemptBound
    BY <2>1, LeftPositive DEF BudgetInv
  <2>3. UrlsLeft' = UrlsLeft - 1 /\ UrlsLeft \in Int
    BY <2>1, SegmentAssumption DEF UrlsLeft, SegmentAssumption, TypeOK, LoopTypeOK
  <2>4. UrlsLeft' * Share = UrlsLeft * Share - Share
    BY <2>3, <1>0, OneUrlLess
  <2>5. Spent' = Spent /\ resumes' = resumes
    BY <2>1 DEF Spent
  <2>6. Left' \in Int /\ Left' <= Left
    <3>1. Left' = (MaxResumes - resumes) + (UrlsLeft * Share - Share) - Spent
      BY ONLY <2>4, <2>5 DEF Left
    <3>2. MaxResumes - resumes \in Int /\ UrlsLeft * Share \in Int /\ Spent \in Int
      BY <1>0, <2>3, SegmentAssumption DEF Spent, SegmentAssumption, TypeOK, LoopTypeOK
    <3> QED BY ONLY <3>1, <3>2, <1>0, LoseShare, Zenon DEF Left
  <2>7. attempts + Left' <= AttemptBound /\ attempts + Left' <= AttemptBound + 1
    BY ONLY <1>0, <2>2, <2>6, TradeUp, Zenon
  <2> QED BY <2>1, <2>2, <2>7 DEF BudgetInv
<1>3. CASE Dispatch
  <2>1. attempts + Left <= AttemptBound /\ Left \in Int /\ Left >= 1
    BY <1>3, LeftPositive DEF Dispatch, BudgetInv
  <2>2. attempts < AttemptBound
    BY ONLY <2>1, <1>0
  <2>3. attempts' = attempts + 1 /\ UNCHANGED loopVars /\ pc' # "select"
    BY <1>0, <1>3, <2>2 DEF Dispatch
  <2>4. Left' = Left
    BY <2>3 DEF loopVars, Left, UrlsLeft, Share, Spent
  <2>5. attempts + 1 <= AttemptBound /\ (attempts + 1) + Left <= AttemptBound + 1
    BY ONLY <1>0, <2>1, <2>2
  <2> QED BY <2>3, <2>4, <2>5 DEF BudgetInv
<1>4. CASE Settle
  BY <1>4, SettleBudget DEF Settle
<1>5. CASE Quiet
  BY <1>5, IdleBudget DEF Quiet
<1> QED BY <1>2, <1>3, <1>4, <1>5, StepKinds

LEMMA InitBudget == Init => BudgetInv
<1> SUFFICES ASSUME Init PROVE BudgetInv
  OBVIOUS
<1> USE SegmentAssumption DEF SegmentAssumption
<1>1. attempts = 0 /\ Left = MaxResumes + NUrls * Share
  <2>1. UrlsLeft = NUrls /\ Spent = 0 /\ resumes = 0 /\ attempts = 0
    BY DEF Init, UrlsLeft, Spent
  <2>2. NUrls * Share \in Nat
    BY DEF Share
  <2> QED BY <2>1, <2>2 DEF Left
<1>2. AttemptBound = MaxResumes + NUrls * Share
  BY DEF AttemptBound, Share
<1> QED BY <1>1, <1>2, BoundIsNat DEF BudgetInv

\* However verdicts, skips and fallbacks interleave, a call makes at most
\* maxResumes + urls * (maxNoProgressRerolls + 2) requests.
THEOREM RequestsBounded == Spec => []AttemptsBounded
<1>1. Init => TypeOK /\ AwaitsUrl /\ BudgetInv
  BY InitTyping, InitBudget DEF Init, AwaitsUrl
<1>2. TypeOK /\ AwaitsUrl /\ BudgetInv /\ [Next]_vars
      => TypeOK' /\ AwaitsUrl' /\ BudgetInv'
  BY NextTyping, NextBudget
<1>3. BudgetInv => AttemptsBounded
  BY DEF BudgetInv, AttemptsBounded
<1> QED BY <1>1, <1>2, <1>3, PTL DEF Spec

-----------------------------------------------------------------------------
(* The bytes. *)

\* A response starts where it was asked to: a segment checks it, a whole-file
\* stream takes the start from the Content-Range of the mirror.
Aligned == Segmented \/ "wrongStart" \notin MirrorFaults

\* The length of a whole-file stream is known, from the caller or the mirror.
KnownEnd == Segmented \/ ExpectedTotal = FileSize \/ "unsized" \notin MirrorFaults

\* No mirror sends what it was not asked for, or the segment refuses it.
NoSurplus == Segmented \/ MirrorFaults \cap {"ignoresRange", "wrongStart"} = {}

-----------------------------------------------------------------------------
(* What a step does with the bytes that were handed over. *)

Receiving == {"body", "ended"}

\* An attempt ends with a verdict.
Judged ==
  /\ pc = "await" /\ Verdict
  /\ UNCHANGED <<start, position, total>> /\ inflight' \subseteq inflight
  /\ pc' = "done" => link \in Receiving /\ inflight' = {} /\ ~(Target > 0 /\ position < Target)

\* The loop and the offsets stay.
Still ==
  /\ UNCHANGED <<loopVars, start, position, total>>
  /\ inflight' \subseteq inflight
  /\ \/ /\ pc' = pc
        /\ \/ link' = link
           \/ link = "connecting" /\ link' = "open"
           \/ link = "body" /\ link' = "ended"
     \/ pc \in {"select", "await"} /\ pc' \in {"aborted", "failed"}

Answered ==
  \/ \E s \in 0 .. (FileSize - 1), l \in 1 .. FileSize, sized \in Sizes :
        PartialResponse(s, l, sized)
  \/ \E l \in 1 .. FileSize, sized \in Sizes : FullResponse(l, sized)

Received == \E n \in 1 .. FileSize : Data(n)

LEMMA InUnion == \A S, b : b \in UNION S <=> \E w \in S : b \in w
OBVIOUS

LEMMA Member ==
  \A b : b \in Accounted <=>
    (b \in disk \cup lost \/ (\E w \in inflight : b \in w) \/ (\E w \in orphans : b \in w))
<1>1. \A b : b \in Accounted <=>
        b \in disk \/ b \in UNION inflight \/ b \in UNION orphans \/ b \in lost
  BY DEF Accounted
<1> QED BY <1>1, InUnion

LEMMA MemberNext ==
  \A b : b \in Accounted' <=>
    (b \in disk' \cup lost' \/ (\E w \in inflight' : b \in w) \/ (\E w \in orphans' : b \in w))
<1>1. \A b : b \in Accounted' <=>
        b \in disk' \/ b \in UNION inflight' \/ b \in UNION orphans' \/ b \in lost'
  BY DEF Accounted
<1> QED BY <1>1, InUnion

LEMMA SameMembers ==
  ASSUME NEW S, NEW T, \A b : b \in S <=> b \in T
  PROVE  S = T
OBVIOUS

LEMMA ReleaseKeeps ==
  ASSUME Release
  PROVE  Accounted' = Accounted /\ inflight' = {} /\ UNCHANGED <<start, position, total>>
<1>1. /\ disk' = disk /\ lost' = lost /\ inflight' = {} /\ orphans' = orphans \cup inflight
      /\ UNCHANGED <<start, position, total>>
  BY DEF Release
<1>2. \A b : b \in Accounted' <=> b \in Accounted
  BY <1>1, Member, MemberNext
<1> QED BY <1>1, <1>2, SameMembers

LEMMA DiskKeeps == UNCHANGED diskVars => Accounted' = Accounted /\ inflight' = inflight
BY DEF diskVars, Accounted

LEMMA Done ==
  ASSUME AfterSuccess, pc' = "done"
  PROVE  ~(Target > 0 /\ position < Target)
BY DEF AfterSuccess, AfterShort

LEMMA NotDone ==
  ASSUME AfterSlow \/ AfterNoProgress("ttfb") \/ AfterNoProgress("stall") \/ Aborted
         \/ \E cause, reroll : AfterFailure(cause, reroll)
  PROVE  pc' # "done"
BY DEF AfterSlow, AfterNoProgress, AfterFailure, Aborted

LEMMA CallBackKeeps ==
  ASSUME NEW c \in inflight, NEW written \in SUBSET c,
         disk' = disk \cup written, lost' = lost \cup (c \ written),
         inflight' = inflight \ {c}, orphans' = orphans
  PROVE  Accounted' = Accounted
<1>1. \A b : b \in Accounted' <=> b \in Accounted
  BY Member, MemberNext
<1> QED BY <1>1, SameMembers

LEMMA OrphanKeeps ==
  ASSUME NEW c \in orphans, NEW written \in SUBSET c,
         disk' = disk \cup written, lost' = lost \cup (c \ written),
         orphans' = orphans \ {c}, inflight' = inflight
  PROVE  Accounted' = Accounted
<1>1. \A b : b \in Accounted' <=> b \in Accounted
  BY Member, MemberNext
<1> QED BY <1>1, SameMembers

LEMMA WriteErrorKeeps ==
  ASSUME NEW c \in inflight, WriteError(c)
  PROVE  Accounted' = Accounted
<1>1. /\ disk' = disk /\ lost' = lost \cup c /\ inflight' = {}
      /\ orphans' = orphans \cup (inflight \ {c})
  BY DEF WriteError
<1>2. \A b : b \in Accounted' <=> b \in Accounted
  BY <1>1, Member, MemberNext
<1> QED BY <1>2, SameMembers

LEMMA Kinds ==
  ASSUME [Next]_vars
  PROVE  Received \/ Answered \/ (Accounted' = Accounted /\ (SkipUrl \/ Dispatch \/ Judged \/ Still))
<1>1. CASE UNCHANGED vars \/ Finished
  BY <1>1, DiskKeeps DEF Finished, vars, connVars, Still
<1>2. CASE Iterate
  BY <1>2, DiskKeeps DEF Iterate, SkipUrl, Dispatch, RunOffList, connVars, Still
<1>3. CASE Connect
  <2>1. CASE Release /\ Aborted
    BY <1>3, <2>1, ReleaseKeeps DEF Connect, Aborted, Still
  <2>2. CASE link' = "open" /\ UNCHANGED <<pc, loopVars, url, start, position, total, limit, diskVars>>
    BY <1>3, <2>2, DiskKeeps DEF Connect, Still
  <2> QED BY <1>3, <2>1, <2>2 DEF Connect
<1>4. CASE Response
  <2>1. CASE ErrorResponse
    <3>1. Verdict /\ pc' # "done"
      BY <2>1, FailureIsVerdict, NotDone DEF ErrorResponse
    <3> QED BY <2>1, <3>1, ReleaseKeeps DEF ErrorResponse, Judged
  <2> QED BY <1>4, <2>1 DEF Response, Answered
<1>5. CASE Transfer
  <2>1. CASE Complete /\ inflight = {}
    BY <2>1, ReleaseKeeps, Done DEF Complete, Verdict, Judged, Receiving
  <2>2. CASE Complete /\ inflight # {}
    BY <2>2, DiskKeeps DEF Complete, Still
  <2> QED BY <1>5, <2>1, <2>2 DEF Transfer, Received
<1>6. CASE NetworkError
  <2>1. Verdict /\ pc' # "done"
    BY <1>6, FailureIsVerdict, NotDone DEF NetworkError, Verdict
  <2> QED BY <1>6, <2>1, ReleaseKeeps DEF NetworkError, Judged
<1>7. CASE ManagedAbort
  <2>1. Verdict /\ pc' # "done" /\ pc = "await" /\ Release
    BY <1>7, NotDone DEF ManagedAbort, TtfbAbort, StallAbort, SlowAbort, Verdict
  <2> QED BY <2>1, ReleaseKeeps DEF Judged
<1>8. CASE UserAbort
  <2>1. CASE UNCHANGED <<pc, connVars, diskVars>>
    BY <1>8, <2>1, DiskKeeps DEF UserAbort, connVars, Still
  <2>2. CASE pc' = "aborted" /\ Release
    BY <1>8, <2>2, ReleaseKeeps DEF UserAbort, Still
  <2> QED BY <1>8, <2>1, <2>2 DEF UserAbort
<1>9. CASE DiskStep
  <2>1. ASSUME NEW c \in inflight, NEW written \in SUBSET c, CallBack(c, written)
        PROVE  Accounted' = Accounted /\ (Judged \/ Still)
    <3>1. Accounted' = Accounted
      BY <2>1, CallBackKeeps DEF CallBack
    <3>2. CASE Settled(c)
      <4>1. inflight' = {} /\ link = "ended" /\ AfterSuccess
        BY <2>1, <3>2 DEF CallBack, Settled
      <4> QED BY <2>1, <3>1, <4>1, Done DEF CallBack, Verdict, Judged, Receiving
    <3>3. CASE ~Settled(c)
      BY <2>1, <3>1, <3>3 DEF CallBack, Still
    <3> QED BY <3>2, <3>3
  <2>2. ASSUME NEW c \in inflight, WriteError(c)
        PROVE  Accounted' = Accounted /\ Judged
    <3>1. Verdict /\ pc' # "done"
      BY <2>2, FailureIsVerdict, NotDone DEF WriteError
    <3> QED BY <2>2, <3>1, WriteErrorKeeps DEF WriteError, Judged
  <2>3. ASSUME NEW c \in orphans, NEW written \in SUBSET c, OrphanCallBack(c, written)
        PROVE  Accounted' = Accounted /\ Still
    BY <2>3, OrphanKeeps DEF OrphanCallBack, connVars, Still
  <2>4. ASSUME NEW c \in inflight, WriteDone(c) \/ \E k \in c : ShortWrite(c, {b \in c : b <= k})
        PROVE  \E written \in SUBSET c : CallBack(c, written)
    BY <2>4 DEF WriteDone, ShortWrite
  <2>5. ASSUME NEW c \in orphans, OrphanDone(c) \/ OrphanFault(c)
        PROVE  \E written \in SUBSET c : OrphanCallBack(c, written)
    BY <2>5 DEF OrphanDone, OrphanFault
  <2> QED BY <1>9, <2>1, <2>2, <2>3, <2>4, <2>5 DEF DiskStep
<1>10. CASE StrayStep
  BY <1>10, DiskKeeps DEF StrayStep, StrayAnswered, StrayData, StrayEnds, connVars, Still
<1> QED BY <1>1, <1>2, <1>3, <1>4, <1>5, <1>6, <1>7, <1>8, <1>9, <1>10 DEF Next, LinkStep

-----------------------------------------------------------------------------
(* No byte is passed over. *)

\* Below the resume offset everything was handed over; a response starts no
\* higher, and so was everything from its start to the position.
NothingSkipped ==
  /\ Span(Start, resumeOffset) \subseteq Accounted
  /\ pc = "await" => start <= resumeOffset /\ Span(start, position) \subseteq Accounted

\* Until the response is there the handler is at 0.
Untouched == pc = "await" /\ link \notin Receiving => start = 0 /\ position = 0

LEMMA SpanUp ==
  ASSUME NEW S, NEW a \in Nat, NEW r \in Nat, NEW s \in Nat, NEW p \in Nat,
         s <= r, Span(a, r) \subseteq S, Span(s, p) \subseteq S
  PROVE  Span(a, Larger(r, p)) \subseteq S
<1> SUFFICES ASSUME NEW b \in Span(a, Larger(r, p)) PROVE b \in S
  OBVIOUS
<1>1. b \in Int /\ a <= b /\ (b < r \/ (r <= b /\ b < p))
  BY DEF Span, Larger
<1>2. CASE b < r
  BY <1>1, <1>2 DEF Span
<1>3. CASE r <= b /\ b < p
  BY <1>1, <1>3 DEF Span
<1> QED BY <1>1, <1>2, <1>3

LEMMA NoSpan == \A a \in Nat : Span(a, a) = {}
BY DEF Span

\* A verdict that keeps the loop running carries the position over.
LEMMA VerdictCarries ==
  ASSUME Verdict
  PROVE  pc' # "await" /\ (resumeOffset' = Carry \/ UNCHANGED loopVars)
BY DEF Verdict, AfterSlow, AfterNoProgress, AfterFailure, AfterSuccess, AfterShort, Aborted

LEMMA Numbers ==
  ASSUME TypeOK
  PROVE  /\ Start \in Nat /\ FileSize \in Nat /\ resumeOffset \in Nat
         /\ start \in Nat /\ position \in Nat /\ start <= position
BY SegmentAssumption DEF SegmentAssumption, TypeOK, LoopTypeOK, ConnTypeOK

LEMMA DataAdds ==
  ASSUME NEW n \in 1 .. FileSize, Data(n)
  PROVE  /\ Accounted' = Accounted \cup Span(position, position + n)
         /\ UNCHANGED <<pc, loopVars, link, start, total>> /\ position' = position + n
         /\ pc = "await" /\ link = "body" /\ inflight' = inflight \cup {Span(position, position + n)}
<1>1. /\ inflight' = inflight \cup {Span(position, position + n)}
      /\ UNCHANGED <<orphans, disk, lost>>
  BY DEF Data
<1>2. \A b : b \in Accounted' <=> b \in Accounted \cup Span(position, position + n)
  BY <1>1, Member, MemberNext
<1> QED BY <1>2, SameMembers DEF Data

\* What an answer changes.
LEMMA AnswerChanges ==
  ASSUME Answered, TypeOK
  PROVE  /\ pc = "await" /\ link = "open" /\ UNCHANGED loopVars /\ inflight' = inflight
         /\ Accounted' = Accounted /\ start' \in Nat /\ position' = start'
         /\ \/ pc' = "rangeRejected"
            \/ /\ pc' = "await" /\ link' = "body"
               /\ Aligned => start' <= resumeOffset
               /\ NoSurplus => start' = resumeOffset
               /\ \/ Segmented
                  \/ total' = FileSize
                  \/ total' = total /\ "unsized" \in MirrorFaults
<1>1. ASSUME NEW s \in 0 .. (FileSize - 1), NEW l \in 1 .. FileSize, NEW sized \in Sizes,
             PartialResponse(s, l, sized)
      PROVE  /\ pc = "await" /\ link = "open" /\ UNCHANGED loopVars /\ UNCHANGED diskVars
             /\ start' = s /\ position' = s
             /\ \/ pc' = "rangeRejected"
                \/ /\ pc' = "await" /\ link' = "body" /\ LearnTotal(sized)
                   /\ Aligned \/ NoSurplus => s = resumeOffset
  BY <1>1 DEF PartialResponse, Partial, Misplaced, Aligned, NoSurplus
<1>2. ASSUME NEW l \in 1 .. FileSize, NEW sized \in Sizes, FullResponse(l, sized)
      PROVE  /\ pc = "await" /\ link = "open" /\ UNCHANGED loopVars /\ UNCHANGED diskVars
             /\ start' = 0 /\ position' = 0
             /\ \/ pc' = "rangeRejected"
                \/ /\ pc' = "await" /\ link' = "body" /\ LearnTotal(sized)
                   /\ NoSurplus => resumeOffset = 0
  <2>1. resumeOffset \in Nat
    BY Numbers
  <2> QED BY <1>2, <2>1 DEF FullResponse, Full, NoSurplus
<1>3. ASSUME NEW sized \in Sizes, LearnTotal(sized)
      PROVE  \/ Segmented
             \/ total' = FileSize
             \/ total' = total /\ "unsized" \in MirrorFaults
  BY <1>3 DEF LearnTotal, Sizes
<1>4. \A s \in 0 .. (FileSize - 1) : s \in Nat
  BY Numbers
<1>5. resumeOffset \in Nat
  BY Numbers
<1>6. CASE \E s \in 0 .. (FileSize - 1), l \in 1 .. FileSize, sized \in Sizes :
             PartialResponse(s, l, sized)
  BY <1>1, <1>3, <1>4, <1>5, <1>6, DiskKeeps
<1>7. CASE \E l \in 1 .. FileSize, sized \in Sizes : FullResponse(l, sized)
  BY <1>2, <1>3, <1>5, <1>7, DiskKeeps
<1> QED BY <1>6, <1>7 DEF Answered

LEMMA UntouchedNext ==
  ASSUME TypeOK, Untouched, [Next]_vars
  PROVE  Untouched'
<1>1. CASE Received
  BY <1>1, DataAdds DEF Received, Untouched, Receiving
<1>2. CASE Answered
  BY <1>2, AnswerChanges DEF Untouched, Receiving
<1>3. CASE SkipUrl \/ Dispatch
  BY <1>3 DEF SkipUrl, Dispatch, Untouched
<1>4. CASE Judged
  BY <1>4, VerdictCarries DEF Judged, Untouched
<1>5. CASE Still
  BY <1>5 DEF Still, Untouched, Receiving
<1> QED BY <1>1, <1>2, <1>3, <1>4, <1>5, Kinds

LEMMA NothingSkippedNext ==
  ASSUME Aligned, TypeOK, NothingSkipped, [Next]_vars
  PROVE  NothingSkipped'
<1>0. /\ Start \in Nat /\ FileSize \in Nat /\ resumeOffset \in Nat
      /\ start \in Nat /\ position \in Nat /\ start <= position
  BY Numbers
<1>1. CASE Received
  <2>1. PICK n \in 1 .. FileSize : Data(n)
    BY <1>1 DEF Received
  <2>2. /\ Accounted' = Accounted \cup Span(position, position + n)
        /\ pc = "await" /\ start' = start /\ resumeOffset' = resumeOffset
        /\ position' = position + n
    BY <2>1, DataAdds DEF loopVars
  <2>3. Span(start, position + n) \subseteq Span(start, position) \cup Span(position, position + n)
    BY <1>0 DEF Span
  <2> QED BY <2>2, <2>3 DEF NothingSkipped
<1>2. CASE Answered
  <2>1. /\ resumeOffset' = resumeOffset /\ Accounted' = Accounted
        /\ start' \in Nat /\ position' = start' /\ (pc' = "await" => start' <= resumeOffset)
    BY <1>2, AnswerChanges DEF loopVars
  <2>2. Span(start', position') = {}
    BY <2>1, NoSpan
  <2> QED BY <2>1, <2>2 DEF NothingSkipped
<1>3. CASE Accounted' = Accounted /\ SkipUrl
  BY <1>3 DEF SkipUrl, NothingSkipped
<1>4. CASE Accounted' = Accounted /\ Dispatch
  <2>1. start' = 0 /\ position' = 0 /\ resumeOffset' = resumeOffset
    BY <1>4 DEF Dispatch, loopVars
  <2>2. Span(start', position') = {} /\ start' <= resumeOffset
    BY <1>0, <2>1, NoSpan
  <2> QED BY <1>4, <2>1, <2>2 DEF NothingSkipped
<1>5. CASE Accounted' = Accounted /\ Judged
  <2>1. Span(Start, Carry) \subseteq Accounted
    BY <1>0, <1>5, SpanUp DEF Judged, NothingSkipped, Carry
  <2>2. pc' # "await" /\ (resumeOffset' = Carry \/ resumeOffset' = resumeOffset)
    BY <1>5, VerdictCarries DEF Judged, loopVars
  <2> QED BY <1>5, <2>1, <2>2 DEF NothingSkipped
<1>6. CASE Accounted' = Accounted /\ Still
  BY <1>6 DEF Still, NothingSkipped, loopVars
<1> QED BY <1>1, <1>2, <1>3, <1>4, <1>5, <1>6, Kinds

\* With mirrors whose responses start where they were asked to, or in a segment,
\* which checks it, no re-roll and no fallback resumes past bytes that were not
\* handed to fs.write.
THEOREM OffsetBacked ==
  ASSUME Aligned
  PROVE  Spec => []ResumeBacked
<1>1. Init => TypeOK /\ AwaitsUrl /\ NothingSkipped
  <2> SUFFICES ASSUME Init PROVE NothingSkipped
    BY InitTyping DEF Init, AwaitsUrl
  <2> QED BY SegmentAssumption, NoSpan DEF Init, NothingSkipped, SegmentAssumption
<1>2. TypeOK /\ AwaitsUrl /\ NothingSkipped /\ [Next]_vars
      => TypeOK' /\ AwaitsUrl' /\ NothingSkipped'
  BY NextTyping, NothingSkippedNext
<1>3. NothingSkipped => ResumeBacked
  BY DEF NothingSkipped, ResumeBacked
<1> QED BY <1>1, <1>2, <1>3, PTL DEF Spec

-----------------------------------------------------------------------------
(* Success means that nothing is missing. *)

\* The length the end of a whole-file stream is compared with.
EndKnown ==
  pc = "await" /\ ~Segmented => total = IF link \in Receiving THEN FileSize ELSE ExpectedTotal

AllHandedOver == pc = "done" => inflight = {} /\ Span(Start, End) \subseteq Accounted

LEMMA EndKnownNext ==
  ASSUME KnownEnd, TypeOK, EndKnown, [Next]_vars
  PROVE  EndKnown'
<1>1. CASE Received
  BY <1>1, DataAdds DEF Received, EndKnown
<1>2. CASE Answered
  <2>1. ~Segmented => total = ExpectedTotal
    BY <1>2, AnswerChanges DEF EndKnown, Receiving
  <2>2. ~Segmented /\ pc' = "await" => total' = FileSize
    BY <1>2, <2>1, AnswerChanges DEF KnownEnd
  <2>3. pc' = "await" => link' \in Receiving
    BY <1>2, AnswerChanges DEF Receiving
  <2> QED BY <2>2, <2>3 DEF EndKnown
<1>3. CASE SkipUrl \/ Dispatch
  BY <1>3 DEF SkipUrl, Dispatch, EndKnown, Receiving
<1>4. CASE Judged
  BY <1>4, VerdictCarries DEF Judged, EndKnown
<1>5. CASE Still
  BY <1>5 DEF Still, EndKnown, Receiving
<1> QED BY <1>1, <1>2, <1>3, <1>4, <1>5, Kinds

LEMMA SpanDown ==
  ASSUME NEW S, NEW a \in Nat, NEW e \in Nat, NEW r \in Nat, NEW p \in Nat,
         e <= p, Span(a, Larger(r, p)) \subseteq S
  PROVE  Span(a, e) \subseteq S
<1> SUFFICES ASSUME NEW b \in Span(a, e) PROVE b \in Span(a, Larger(r, p))
  OBVIOUS
<1> QED BY DEF Span, Larger

LEMMA AllHandedOverNext ==
  ASSUME Aligned, TypeOK, NothingSkipped, EndKnown, AllHandedOver, [Next]_vars
  PROVE  AllHandedOver'
<1>1. CASE Received
  BY <1>1, DataAdds DEF Received, AllHandedOver
<1>2. CASE Answered
  BY <1>2, AnswerChanges DEF AllHandedOver
<1>3. CASE SkipUrl \/ Dispatch
  BY <1>3 DEF SkipUrl, Dispatch, AllHandedOver
<1>4. CASE Accounted' = Accounted /\ Judged
  <2> SUFFICES ASSUME pc' = "done" PROVE Span(Start, End) \subseteq Accounted /\ inflight' = {}
    BY <1>4 DEF AllHandedOver
  <2>1. /\ Start \in Nat /\ resumeOffset \in Nat /\ position \in Nat /\ start \in Nat
        /\ End \in Nat /\ End > 0 /\ (~Segmented => End = FileSize)
    BY Numbers, SegmentAssumption DEF SegmentAssumption
  <2>2. inflight' = {} /\ pc = "await" /\ link \in Receiving /\ ~(Target > 0 /\ position < Target)
    BY <1>4 DEF Judged
  <2>3. Target = End
    BY <2>1, <2>2 DEF EndKnown, Target
  <2>4. End <= position
    BY <2>1, <2>2, <2>3
  <2>5. Span(Start, Larger(resumeOffset, position)) \subseteq Accounted
    BY <2>1, <2>2, SpanUp DEF NothingSkipped
  <2> QED BY <2>1, <2>2, <2>4, <2>5, SpanDown
<1>5. CASE Accounted' = Accounted /\ Still
  BY <1>5 DEF Still, AllHandedOver
<1> QED BY <1>1, <1>2, <1>3, <1>4, <1>5, Kinds

BytesInv == TypeOK /\ AwaitsUrl /\ NothingSkipped /\ EndKnown /\ AllHandedOver

LEMMA BytesInvInit == Init => BytesInv
<1> SUFFICES ASSUME Init PROVE BytesInv
  OBVIOUS
<1>1. TypeOK /\ AwaitsUrl
  BY InitTyping DEF Init, AwaitsUrl
<1>2. NothingSkipped
  BY SegmentAssumption, NoSpan DEF Init, NothingSkipped, SegmentAssumption
<1> QED BY <1>1, <1>2 DEF BytesInv, Init, EndKnown, AllHandedOver

LEMMA BytesInvNext == Aligned /\ KnownEnd /\ BytesInv /\ [Next]_vars => BytesInv'
BY NextTyping, NothingSkippedNext, EndKnownNext, AllHandedOverNext DEF BytesInv

\* A call that succeeds has every byte on disk, or with an fs.write that still
\* runs, or lost it to an fs.write that failed: a mirror that cuts a response short
\* or ignores the range leaves no gap.  A whole-file stream needs a start and an
\* end it can rely on.
THEOREM SuccessIsWhole ==
  ASSUME Aligned, KnownEnd
  PROVE  Spec => []NoSilentGap
<1>1. BytesInv => NoSilentGap
  <2> SUFFICES ASSUME BytesInv, pc = "done", NEW b \in Span(Start, End)
               PROVE  b \in disk \cup (UNION orphans) \cup lost
    BY DEF NoSilentGap
  <2>1. b \in Accounted /\ inflight = {}
    BY DEF BytesInv, AllHandedOver
  <2>2. b \in disk \cup lost \/ \E w \in orphans : b \in w
    BY <2>1, Member
  <2> QED BY <2>2
<1> QED BY <1>1, BytesInvInit, BytesInvNext, PTL DEF Spec

-----------------------------------------------------------------------------
(* No byte is asked for twice. *)

\* Nothing was handed over from the resume offset up, but what the response that
\* started there brought.
Ceiling ==
  /\ pc = "select" => Accounted \subseteq Span(0, resumeOffset)
  /\ pc = "await" => /\ Accounted \subseteq Span(0, Carry)
                     /\ link \in Receiving => start = resumeOffset

LEMMA CeilingNext ==
  ASSUME NoSurplus, TypeOK, Untouched, Ceiling, [Next]_vars
  PROVE  Ceiling'
<1>0. resumeOffset \in Nat /\ start \in Nat /\ position \in Nat /\ start <= position
  BY Numbers
<1>1. CASE Received
  <2>1. PICK n \in 1 .. FileSize : Data(n)
    BY <1>1 DEF Received
  <2>2. /\ Accounted' = Accounted \cup Span(position, position + n)
        /\ pc = "await" /\ pc' = pc /\ link = "body" /\ link' = link /\ start' = start
        /\ resumeOffset' = resumeOffset /\ position' = position + n
    BY <2>1, DataAdds DEF loopVars
  <2>3. start = resumeOffset /\ Accounted \subseteq Span(0, Carry)
    BY <2>2 DEF Ceiling, Receiving
  <2>4. Carry = position /\ Carry' = position + n
    BY <1>0, <2>2, <2>3 DEF Carry, Larger
  <2>5. Span(0, position) \cup Span(position, position + n) \subseteq Span(0, position + n)
    BY <1>0 DEF Span
  <2>6. Accounted' \subseteq Span(0, Carry')
    BY <2>2, <2>3, <2>4, <2>5
  <2> QED BY <2>2, <2>3, <2>6 DEF Ceiling
<1>2. CASE Answered
  <2>1. /\ pc = "await" /\ link = "open" /\ resumeOffset' = resumeOffset /\ Accounted' = Accounted
        /\ (pc' = "await" => start' = resumeOffset) /\ position' = start' /\ pc' # "select"
    BY <1>2, AnswerChanges DEF loopVars
  <2>2. Carry = resumeOffset
    BY <1>0, <2>1 DEF Untouched, Receiving, Carry, Larger
  <2>3. pc' = "await" => Carry' = resumeOffset
    BY <2>1 DEF Carry, Larger
  <2> QED BY <2>1, <2>2, <2>3 DEF Ceiling
<1>3. CASE Accounted' = Accounted /\ SkipUrl
  BY <1>3 DEF SkipUrl, Ceiling
<1>4. CASE Accounted' = Accounted /\ Dispatch
  <2>1. /\ pc = "select" /\ pc' = "await" /\ link' \notin Receiving
        /\ position' = 0 /\ resumeOffset' = resumeOffset
    BY <1>4 DEF Dispatch, loopVars, Receiving
  <2>2. Carry' = resumeOffset
    BY <1>0, <2>1 DEF Carry, Larger
  <2> QED BY <1>4, <2>1, <2>2 DEF Ceiling
<1>5. CASE Accounted' = Accounted /\ Judged
  <2>1. pc = "await" /\ pc' # "await" /\ (pc' = "select" => resumeOffset' = Carry)
    BY <1>5 DEF Judged, Verdict, AfterSlow, AfterNoProgress, AfterFailure, AfterSuccess,
       AfterShort, Aborted
  <2> QED BY <1>5, <2>1 DEF Ceiling
<1>6. CASE Accounted' = Accounted /\ Still
  <2>1. Carry' = Carry
    BY <1>6 DEF Still, loopVars, Carry
  <2> QED BY <1>6, <2>1 DEF Still, Ceiling, Receiving, loopVars
<1> QED BY <1>1, <1>2, <1>3, <1>4, <1>5, <1>6, Kinds

LEMMA RefetchStep ==
  ASSUME NoSurplus, TypeOK, Ceiling, [Next]_vars, NEW c \in inflight' \ inflight
  PROVE  c \cap Accounted = {}
<1>1. Received
  BY Kinds, AnswerChanges DEF SkipUrl, Dispatch, diskVars, Judged, Still
<1>2. PICK n \in 1 .. FileSize : Data(n)
  BY <1>1 DEF Received
<1>3. c = Span(position, position + n) /\ pc = "await" /\ link = "body"
  BY <1>2, DataAdds
<1>4. resumeOffset \in Nat /\ position \in Nat /\ start <= position
  BY Numbers
<1>5. start = resumeOffset /\ Accounted \subseteq Span(0, Carry)
  BY <1>3 DEF Ceiling, Receiving
<1>6. Carry = position
  BY <1>4, <1>5 DEF Carry, Larger
<1>7. Span(position, position + n) \cap Span(0, position) = {}
  BY <1>4 DEF Span
<1> QED BY <1>3, <1>5, <1>6, <1>7

\* However attempts end, strays left behind or not, a byte that an attempt of
\* the call handed to fs.write is not received again by a later attempt.
THEOREM NeverTwice == Spec => NoRefetch
<1>1. Init => TypeOK /\ AwaitsUrl /\ Untouched /\ Ceiling
  <2> SUFFICES ASSUME Init PROVE Ceiling
    BY InitTyping DEF Init, AwaitsUrl, Untouched
  <2>1. Accounted = {}
    BY Member, SameMembers DEF Init
  <2> QED BY <2>1 DEF Init, Ceiling
<1>2. CASE NoSurplus
  <2>1. TypeOK /\ AwaitsUrl /\ Untouched /\ Ceiling /\ [Next]_vars
        => TypeOK' /\ AwaitsUrl' /\ Untouched' /\ Ceiling'
    BY <1>2, NextTyping, UntouchedNext, CeilingNext
  <2>2. TypeOK /\ Ceiling /\ [Next]_vars
        => [NoSurplus => \A c \in inflight' \ inflight : c \cap Accounted = {}]_vars
    BY RefetchStep
  <2> QED BY <1>1, <2>1, <2>2, PTL DEF Spec, NoRefetch, NoSurplus
<1>3. CASE ~NoSurplus
  <2>1. [NoSurplus => \A c \in inflight' \ inflight : c \cap Accounted = {}]_vars
    BY <1>3
  <2> QED BY <2>1, PTL DEF NoRefetch, NoSurplus
<1> QED BY <1>2, <1>3

-----------------------------------------------------------------------------
(* The last URL is tried before the call fails. *)

\* The attempt that is awaited is one of the current URL; the list is left from
\* its last URL, with the error of an attempt of it.
OffTheList ==
  /\ pc = "await" => url = urlIndex
  /\ pc = "failed" => urlIndex > NUrls
  /\ urlIndex > NUrls => url = NUrls /\ lastError \notin {"none", "slow"}

LEMMA OffTheListNext ==
  ASSUME TypeOK, AwaitsUrl, OffTheList, [Next]_vars
  PROVE  OffTheList'
<1>0. NUrls \in Nat /\ urlIndex \in Nat
  BY SegmentAssumption DEF SegmentAssumption, TypeOK, LoopTypeOK
<1>1. CASE SkipUrl
  BY <1>0, <1>1 DEF SkipUrl, MaySkip, connVars, OffTheList
<1>2. CASE Dispatch
  BY <1>0, <1>2 DEF Dispatch, loopVars, OffTheList
<1>3. CASE Settle
  <2>1. pc = "await" /\ url' = url /\ url = urlIndex /\ urlIndex <= NUrls
    BY <1>3 DEF Settle, OffTheList, AwaitsUrl
  <2>2. /\ pc' \notin {"await", "failed"}
        /\ \/ urlIndex' = urlIndex
           \/ urlIndex' = urlIndex + 1 /\ lastError' \notin {"none", "slow"}
    BY <1>3, <2>1 DEF Settle, Verdict, AfterSlow, AfterNoProgress, AfterFailure, AfterSuccess,
       AfterShort, Aborted, loopVars
  <2> QED BY <1>0, <2>1, <2>2 DEF OffTheList
<1>4. CASE Quiet
  BY <1>4 DEF Quiet, loopVars, OffTheList
<1> QED BY <1>1, <1>2, <1>3, <1>4, StepKinds

\* Whatever the breaker skips and however attempts end, the call fails only after
\* an attempt of the last URL, and never with a speed abort as its error.
THEOREM LastUrlTried == Spec => []LastResortTried
<1>1. Init => TypeOK /\ AwaitsUrl /\ OffTheList
  <2> SUFFICES ASSUME Init PROVE OffTheList
    BY InitTyping DEF Init, AwaitsUrl
  <2> QED BY SegmentAssumption DEF Init, OffTheList, SegmentAssumption
<1>2. TypeOK /\ AwaitsUrl /\ OffTheList /\ [Next]_vars => TypeOK' /\ AwaitsUrl' /\ OffTheList'
  BY NextTyping, OffTheListNext
<1>3. OffTheList => LastResortTried
  BY DEF OffTheList, LastResortTried
<1> QED BY <1>1, <1>2, <1>3, PTL DEF Spec

-----------------------------------------------------------------------------
(* The contract. *)

ContractInv == BytesInv /\ BudgetInv

LEMMA OnlyDispatchRequests == [Next]_vars => Dispatch \/ attempts' = attempts
BY StepKinds DEF SkipUrl, Settle, Quiet

LEMMA RequestsLeft ==
  ASSUME TypeOK, BudgetInv, Dispatch
  PROVE  attempts < AttemptBound /\ attempts' = attempts + 1
<1>1. attempts \in Int /\ AttemptBound \in Int
  BY BoundIsNat DEF TypeOK
<1>2. attempts + Left <= AttemptBound /\ Left \in Int /\ Left >= 1
  BY LeftPositive DEF Dispatch, BudgetInv
<1>3. attempts < AttemptBound
  BY ONLY <1>1, <1>2
<1> QED BY <1>1, <1>3 DEF Dispatch

LEMMA ContractStep ==
  ASSUME ContractInv, BytesInv', [Next]_vars
  PROVE  [Contract!Next]_<<Outcome, Accounted, attempts>>
<1> USE DEF Outcome, Final
<1>1. CASE Dispatch
  <2>1. attempts < AttemptBound /\ attempts' = attempts + 1
    BY <1>1, RequestsLeft DEF ContractInv, BytesInv
  <2>2. Accounted' = Accounted
    BY <1>1, DiskKeeps DEF Dispatch
  <2>3. Contract!Request
    BY <1>1, <2>1, <2>2 DEF Dispatch, Contract!Request
  <2> QED BY <2>3 DEF Contract!Next
<1>2. CASE attempts' = attempts
  <2>1. CASE Received
    <3>1. /\ pc = "await" /\ pc' = pc /\ Accounted \subseteq Accounted'
      BY <2>1, DataAdds DEF Received
    <3>2. \A b : b \in Accounted' => b \in Bytes
      BY MemberNext DEF BytesInv, TypeOK, DiskTypeOK
    <3>3. Contract!Receive
      BY <1>2, <3>1, <3>2 DEF Contract!Receive
    <3> QED BY <3>3 DEF Contract!Next
  <2>2. CASE Answered
    <3>1. pc = "await" /\ pc' \in {"await", "rangeRejected"} /\ Accounted' = Accounted
      BY <2>2, AnswerChanges DEF BytesInv, ContractInv
    <3> QED BY <1>2, <3>1 DEF Contract!Next, Contract!GiveUp
  <2>3. CASE Accounted' = Accounted /\ SkipUrl
    BY <1>2, <2>3 DEF SkipUrl
  <2>4. CASE Accounted' = Accounted /\ Dispatch
    BY <1>1, <2>4
  <2>5. CASE Accounted' = Accounted /\ Judged
    <3>1. pc = "await" /\ pc' \in {"select", "done", "aborted"}
      BY <2>5 DEF Judged, Verdict, AfterSlow, AfterNoProgress, AfterFailure, AfterSuccess,
         AfterShort, Aborted
    <3>2. pc' = "done" => Span(Start, End) \subseteq Accounted
      BY <2>5 DEF BytesInv, AllHandedOver
    <3> QED BY <1>2, <2>5, <3>1, <3>2 DEF Contract!Next, Contract!Succeed, Contract!GiveUp
  <2>6. CASE Accounted' = Accounted /\ Still
    BY <1>2, <2>6 DEF Still, Contract!Next, Contract!GiveUp
  <2> QED BY <2>1, <2>2, <2>3, <2>4, <2>5, <2>6, Kinds
<1> QED BY <1>1, <1>2, OnlyDispatchRequests

\* A segment, and a whole-file stream with a start and an end it can rely on, is what
\* downloadRanged and downloadWithController take it for: a bounded number of
\* requests, bytes that only accumulate, and success only with all of them.
THEOREM KeepsContract ==
  ASSUME Aligned, KnownEnd
  PROVE  Spec => ImplementsContract
<1>1. Init => ContractInv
  BY BytesInvInit, InitBudget DEF ContractInv
<1>2. ContractInv /\ [Next]_vars => ContractInv'
  BY BytesInvNext, NextBudget DEF ContractInv, BytesInv
<1>3. Init => Contract!Init
  <2> SUFFICES ASSUME Init PROVE Contract!Init
    OBVIOUS
  <2>1. Accounted = {}
    BY Member, SameMembers DEF Init
  <2> QED BY <2>1 DEF Init, Contract!Init, Outcome, Final
<1>4. ContractInv /\ ContractInv' /\ [Next]_vars
      => [Contract!Next]_<<Outcome, Accounted, attempts>>
  BY ContractStep DEF ContractInv
<1> QED BY <1>1, <1>2, <1>3, <1>4, PTL DEF Spec, ImplementsContract, Contract!Spec, Contract!vars

=============================================================================
