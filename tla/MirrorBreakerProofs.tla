-------------------------- MODULE MirrorBreakerProofs --------------------------
(***************************************************************************)
(* The breaker opens only on a streak of CDN attempts that brought less    *)
(* than minMeasureBytes, for any number of downloads, any threshold, any   *)
(* weather and any files.  The invariant: the counter never exceeds the    *)
(* streak.                                                                 *)
(***************************************************************************)
EXTENDS MirrorBreaker, TLAPS

Inv ==
    /\ cbFails \in 0..(Threshold - 1)
    /\ barren \in 0..Threshold
    /\ cbFails <= barren
    /\ openFor \in Nat

\* What TripsOnlyDown says of one step.
TripHasStreak == openFor' > openFor => barren' >= Threshold

-----------------------------------------------------------------------------
\* Counting one more failure keeps the counter below the streak; a trip happens
\* on a streak of Threshold.
LEMMA CountFollowsStreak ==
    ASSUME NEW f \in 0..(Threshold - 1), NEW b \in 0..Threshold, f <= b,
           NEW end, ~Measured(end)
    PROVE  /\ Streak(end, b) \in 0..Threshold
           /\ (f + 1 >= Threshold) => Streak(end, b) >= Threshold
           /\ ~(f + 1 >= Threshold) => /\ f + 1 \in 0..(Threshold - 1)
                                       /\ f + 1 <= Streak(end, b)
<1>1. CASE b < Threshold
  <2>1. Streak(end, b) = b + 1
    BY <1>1 DEF Streak
  <2> QED BY <1>1, <2>1, BreakerAssumption
<1>2. CASE ~(b < Threshold)
  <2>1. Streak(end, b) = b
    BY <1>2, BreakerAssumption DEF Streak
  <2> QED BY <1>2, <2>1, BreakerAssumption
<1> QED BY <1>1, <1>2

\* Zero is in range for the counter and for the streak.
LEMMA ZeroFits ==
    /\ 0 \in 0..(Threshold - 1) /\ 0 \in 0..Threshold
    /\ \A b \in 0..Threshold : 0 <= b
  BY BreakerAssumption

\* A cooldown that does not grow, and one that runs down.
LEMMA NotGrowing ==
    ASSUME NEW a \in Nat
    PROVE  ~(a > a) /\ ~(0 > a) /\ 0 \in Nat /\ Cooldown \in Nat
           /\ (a > 0 => a - 1 \in Nat /\ ~(a - 1 > a))
  BY BreakerAssumption

-----------------------------------------------------------------------------
LEMMA InitInv == Init => Inv
  BY ZeroFits, NotGrowing DEF Init, Inv

\* report on an attempt of the CDN.
LEMMA CdnStep ==
    ASSUME Inv, NEW end,
           ReportCdn(end), barren' = Streak(end, barren)
    PROVE  Inv' /\ TripHasStreak
<1> USE DEF Inv
<1>2. /\ barren' \in 0..Threshold
      /\ \A b \in 0..Threshold : 0 <= b
  <2>1. CASE ~Measured(end)
    <3>1. Streak(end, barren) \in 0..Threshold
      BY <2>1, CountFollowsStreak
    <3> QED BY <3>1, ZeroFits
  <2>2. CASE Measured(end)
    <3>1. barren' = 0
      BY <2>2 DEF Streak
    <3> QED BY <3>1, ZeroFits
  <2> QED BY <2>1, <2>2
<1>3. CASE Measured(end)
  <2>1. cbFails' = 0 /\ openFor' = 0
    BY <1>3 DEF ReportCdn
  <2>2. cbFails' <= barren' /\ cbFails' \in 0..(Threshold - 1)
    BY <1>2, <2>1, ZeroFits, Zenon
  <2>3. openFor' \in Nat /\ ~(openFor' > openFor)
    BY <2>1, NotGrowing, Zenon
  <2> QED BY <1>2, <2>2, <2>3, Zenon DEF TripHasStreak
<1>4. CASE ~Measured(end) /\ Trips
  <2>1. cbFails' = 0 /\ openFor' = Cooldown
    BY <1>4 DEF ReportCdn
  <2>2. barren' >= Threshold
    <3>1. cbFails + 1 >= Threshold
      BY <1>4 DEF Trips
    <3>2. Streak(end, barren) >= Threshold
      BY <1>4, <3>1, CountFollowsStreak, Zenon
    <3> QED BY <2>1, <3>2, Zenon
  <2>3. cbFails' <= barren' /\ cbFails' \in 0..(Threshold - 1)
    BY <1>2, <2>1, ZeroFits, Zenon
  <2>4. openFor' \in Nat
    BY <2>1, NotGrowing, Zenon
  <2> QED BY <1>2, <2>2, <2>3, <2>4, Zenon DEF TripHasStreak
<1>5. CASE ~Measured(end) /\ ~Trips
  <2>1. cbFails' = cbFails + 1 /\ openFor' = openFor
    BY <1>5 DEF ReportCdn
  <2>2. ~(cbFails + 1 >= Threshold)
    BY <1>5 DEF Trips
  <2>3. /\ cbFails + 1 \in 0..(Threshold - 1)
        /\ cbFails + 1 <= Streak(end, barren)
    BY <1>5, <2>2, CountFollowsStreak, Zenon
  <2>4. cbFails' <= barren' /\ cbFails' \in 0..(Threshold - 1)
    BY <2>1, <2>3, Zenon
  <2>5. openFor' \in Nat /\ ~(openFor' > openFor)
    BY <2>1, NotGrowing, Zenon
  <2> QED BY <1>2, <2>4, <2>5, Zenon DEF TripHasStreak
<1> QED BY <1>3, <1>4, <1>5

\* A step that leaves the counter and the streak alone and does not open.
LEMMA QuietStep ==
    ASSUME Inv, UNCHANGED <<cbFails, barren>>, openFor' \in Nat, ~(openFor' > openFor)
    PROVE  Inv' /\ TripHasStreak
  BY DEF Inv, TripHasStreak

LEMMA StepInv ==
    ASSUME Inv, [Next]_vars
    PROVE  Inv' /\ TripHasStreak
<1>0. openFor \in Nat
  BY DEF Inv
<1>1. ASSUME NEW d \in Downloads, Start(d)
      PROVE  Inv' /\ TripHasStreak
  BY <1>0, <1>1, NotGrowing, QuietStep, Zenon DEF Start, historyVars
<1>2. ASSUME NEW d \in Downloads, EndCdn(d)
      PROVE  Inv' /\ TripHasStreak
  <2>1. PICK end \in Ends("cdn") : ReportCdn(end) /\ barren' = Streak(end, barren)
    BY <1>2, Zenon DEF EndCdn
  <2> QED BY <2>1, CdnStep
<1>3. ASSUME NEW d \in Downloads, EndOfficial(d)
      PROVE  Inv' /\ TripHasStreak
  <2>1. PICK end \in Ends("official") : ReportOfficial(end)
    BY <1>3, Zenon DEF EndOfficial
  <2>2. barren' = barren
    BY <1>3 DEF EndOfficial, historyVars
  <2>3. CASE armed /\ end = "nothing"
    <3>1. cbFails' = 0 /\ openFor' = 0
      BY <2>1, <2>3 DEF ReportOfficial
    <3>2. openFor' \in Nat /\ ~(openFor' > openFor)
      BY <1>0, <3>1, NotGrowing, Zenon
    <3>3. cbFails' <= barren' /\ cbFails' \in 0..(Threshold - 1) /\ barren' \in 0..Threshold
      BY <2>2, <3>1, ZeroFits, Zenon DEF Inv
    <3> QED BY <3>2, <3>3, Zenon DEF Inv, TripHasStreak
  <2>4. CASE ~(armed /\ end = "nothing")
    <3>1. UNCHANGED <<cbFails, openFor>>
      BY <2>1, <2>4 DEF ReportOfficial
    <3> QED BY <1>0, <2>2, <3>1, NotGrowing, QuietStep, Zenon
  <2> QED BY <2>3, <2>4
<1>4. CASE Tick
  <2>1. openFor' = openFor - 1 /\ openFor > 0 /\ UNCHANGED <<cbFails, barren>>
    BY <1>4 DEF Tick, historyVars
  <2>2. openFor' \in Nat /\ ~(openFor' > openFor)
    BY <1>0, <2>1, NotGrowing, Zenon
  <2> QED BY <2>1, <2>2, QuietStep
<1>5. CASE Weather \/ UNCHANGED vars
  BY <1>0, <1>5, NotGrowing, QuietStep, Zenon DEF Weather, vars, breakerVars, historyVars
<1> QED BY <1>1, <1>2, <1>3, <1>4, <1>5 DEF Next

(***************************************************************************)
(* BmclDownloadController.report: the breaker opens, or stays open longer, *)
(* only when at least Threshold attempts in a row on the CDN, over all     *)
(* downloads, brought less than minMeasureBytes each.                      *)
(***************************************************************************)
THEOREM OpensOnSilence == Spec => TripsOnlyDown
<1>1. Init => Inv
  BY InitInv
<1>2. Inv /\ [Next]_vars => Inv'
  BY StepInv
<1>3. Inv /\ [Next]_vars => [openFor' > openFor => barren' >= Threshold]_vars
  BY StepInv DEF TripHasStreak
<1> QED BY <1>1, <1>2, <1>3, PTL DEF Spec, TripsOnlyDown
=============================================================================
