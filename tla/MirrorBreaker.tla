---------------------------- MODULE MirrorBreaker ----------------------------
(* The circuit breaker of BmclDownloadController, shared by every download    *)
(* of the launcher, together with what runSegment makes of it: each download  *)
(* has two URLs, the re-assignable mirror CDN ("cdn") and the official source *)
(* ("official"), and the controller decides at the head of its loop whether   *)
(* the first one is skipped.                                                  *)
(*                                                                            *)
(* From the end of an attempt to the dispatch of the next one runSegment does *)
(* not await, so the report, the re-roll and the next shouldSkip are one step.*)
(* Bytes are abstracted to "data" (at least minMeasureBytes on this attempt)  *)
(* or less; the two re-roll budgets of runSegment, which SegmentDownload      *)
(* models, are one budget here.                                               *)
EXTENDS Integers, FiniteSets

CONSTANTS
    Downloads,      \* transfers that run at the same time
    Threshold,      \* cbThreshold
    Cooldown,       \* cbCooldownMs, in ticks of the clock
    ProbeEvery,     \* cbProbeEvery
    Rerolls         \* attempts on the CDN beyond the first, per download

ASSUME BreakerAssumption ==
    /\ Threshold \in Nat \ {0}
    /\ Cooldown \in Nat \ {0}
    /\ ProbeEvery \in Nat \ {0}
    /\ Rerolls \in Nat

VARIABLES
    cbFails,    \* consecutive CDN attempts below minMeasureBytes
    openFor,    \* ticks until Date.now() reaches cbOpenUntil
    armed,      \* cbOpenUntil > 0, which stays so after the cooldown elapsed
    probeTick,  \* cbProbeTick
    conn,       \* conn[d]: the source the download's connection is to, or "none"
    rolls,      \* rolls[d]: re-rolls spent on the CDN's URL
    cdn,        \* the CDN: "down", "flaky" or "up"
    official,   \* the official source delivers
    barren,     \* history: CDN attempts in a row below minMeasureBytes
    answered    \* history: one of them was complete or the answer of a 404

breakerVars  == <<cbFails, openFor, armed, probeTick>>
downloadVars == <<conn, rolls>>
sourceVars   == <<cdn, official>>
historyVars  == <<barren, answered>>
vars == <<breakerVars, downloadVars, sourceVars, historyVars>>

Init ==
    /\ cbFails = 0 /\ openFor = 0 /\ armed = FALSE /\ probeTick = 0
    /\ conn = [d \in Downloads |-> "none"]
    /\ rolls = [d \in Downloads |-> 0]
    /\ cdn \in {"down", "up"} /\ official \in BOOLEAN
    /\ barren = 0 /\ answered = FALSE

(***************************************************************************)
(* How an attempt can end.  "data": complete, with at least minMeasureBytes.*)
(* "small": complete, but the file, or what was left of it, is smaller than *)
(* that.  "absent": the CDN answers 404 or 410.                             *)
(* "dropped": aborted or failed after data arrived.    *)
(* "nothing": aborted or failed with less.                                  *)
(***************************************************************************)
Ends(source) ==
    CASE source = "cdn" /\ cdn = "up"    -> {"data", "small", "absent"}
      [] source = "cdn" /\ cdn = "flaky" -> {"data", "small", "absent", "dropped", "nothing"}
      [] source = "cdn" /\ cdn = "down"  -> {"nothing"}
      [] OTHER -> IF official THEN {"data"} ELSE {"nothing"}

Completes(end) == end \in {"data", "small"}
Measured(end)  == end \in {"data", "dropped"}

(* shouldSkip, at the head of runSegment's loop, for the CDN's URL; it sees *)
(* what report has just left.  The last URL is never skipped.               *)
Skipped(d) ==  \* mutant: no request probes an open breaker
    \/ openFor' = 0 /\ conn' = [conn EXCEPT ![d] = "cdn"] /\ probeTick' = probeTick
    \/ openFor' > 0 /\ conn' = [conn EXCEPT ![d] = "official"] /\ probeTick' = probeTick
Aim(d) ==
    \/ /\ openFor' = 0
       /\ probeTick' = probeTick
       /\ conn' = [conn EXCEPT ![d] = "cdn"]
    \/ /\ openFor' > 0
       /\ probeTick' = (probeTick + 1) % ProbeEvery
       /\ conn' = [conn EXCEPT ![d] = IF probeTick' = 0 THEN "cdn" ELSE "official"]

(* report, for an attempt on the CDN. *)
Trips == cbFails + 1 >= Threshold

ReportCdnTotal(end) ==  \* mutant: data closes the breaker but the count goes on
    \/ /\ Measured(end)
       /\ openFor' = 0 /\ armed' = FALSE /\ UNCHANGED cbFails
    \/ /\ ~Measured(end) /\ Trips
       /\ cbFails' = 0 /\ openFor' = Cooldown /\ armed' = TRUE
    \/ /\ ~Measured(end) /\ ~Trips
       /\ cbFails' = cbFails + 1 /\ UNCHANGED <<openFor, armed>>
ReportCdn(end) ==
    \/ /\ Measured(end)
       /\ cbFails' = 0 /\ openFor' = 0 /\ armed' = FALSE
    \/ /\ ~Measured(end) /\ Trips
       /\ cbFails' = 0 /\ openFor' = Cooldown /\ armed' = TRUE
    \/ /\ ~Measured(end) /\ ~Trips
       /\ cbFails' = cbFails + 1
       /\ UNCHANGED <<openFor, armed>>

(* report, for an attempt on the official source: it closes the breaker when *)
(* the fallback delivers nothing either.                                     *)
ReportOfficial(end) ==
    \/ /\ armed /\ end = "nothing"
       /\ cbFails' = 0 /\ openFor' = 0 /\ armed' = FALSE
    \/ /\ ~(armed /\ end = "nothing")
       /\ UNCHANGED <<cbFails, openFor, armed>>

RollSpared(d) == rolls' = [rolls EXCEPT ![d] = @ + 0]  \* mutant: a re-roll costs nothing
SpendRoll(d) == rolls' = [rolls EXCEPT ![d] = @ + 1]

CanReroll(d, end) == end # "absent" /\ rolls[d] < Rerolls

(* The attempts in a row that were not measured, counted up to Threshold. *)
Streak(end, n) ==
    IF Measured(end) THEN 0 ELSE IF n < Threshold THEN n + 1 ELSE n

Start(d) ==
    /\ conn[d] = "none"
    /\ UNCHANGED <<cbFails, openFor, armed>>
    /\ Aim(d)
    /\ rolls' = [rolls EXCEPT ![d] = 0]
    /\ UNCHANGED <<sourceVars, historyVars>>

(* An attempt on the CDN ends: the file is complete, the URL is re-rolled   *)
(* (and may now be skipped), or the download moves to the official source.  *)
EndCdn(d) ==
    /\ conn[d] = "cdn"
    /\ \E end \in Ends("cdn") :
        /\ ReportCdn(end)
        /\ barren' = Streak(end, barren)
        /\ answered' = (~Measured(end) /\ (answered \/ end # "nothing"))
        /\ \/ /\ Completes(end)
              /\ conn' = [conn EXCEPT ![d] = "none"]
              /\ UNCHANGED <<rolls, probeTick>>
           \/ /\ ~Completes(end) /\ CanReroll(d, end)
              /\ SpendRoll(d)
              /\ Aim(d)
           \/ /\ ~Completes(end) /\ ~CanReroll(d, end)
              /\ conn' = [conn EXCEPT ![d] = "official"]
              /\ UNCHANGED <<rolls, probeTick>>
    /\ UNCHANGED sourceVars

(* The official source is the last URL: the download completes or fails. *)
EndOfficial(d) ==
    /\ conn[d] = "official"
    /\ \E end \in Ends("official") : ReportOfficial(end)
    /\ conn' = [conn EXCEPT ![d] = "none"]
    /\ UNCHANGED <<rolls, probeTick, sourceVars, historyVars>>

Tick ==
    /\ openFor > 0
    /\ openFor' = openFor - 1
    /\ UNCHANGED <<cbFails, armed, probeTick, downloadVars, sourceVars, historyVars>>

(* The sources come and go. *)
Weather ==
    /\ cdn' \in {"down", "flaky", "up"} /\ official' \in BOOLEAN
    /\ UNCHANGED <<breakerVars, downloadVars, historyVars>>

Next ==
    \/ \E d \in Downloads : Start(d) \/ EndCdn(d) \/ EndOfficial(d)
    \/ Tick
    \/ Weather

(* Every attempt ends: the deadlines of the handler and undici's timeouts.  *)
(* Time is not fair: nothing below waits for the cooldown.                  *)
Fairness == \A d \in Downloads : WF_vars(EndCdn(d) \/ EndOfficial(d))

Spec == Init /\ [][Next]_vars /\ Fairness

-----------------------------------------------------------------------------
(* The state is well formed: the counter stays below the threshold, and a   *)
(* breaker that is open is armed.                                           *)
TypeOK ==
    /\ cbFails \in 0..(Threshold - 1)
    /\ openFor \in 0..Cooldown
    /\ armed \in BOOLEAN
    /\ openFor > 0 => armed
    /\ probeTick \in 0..(ProbeEvery - 1)
    /\ conn \in [Downloads -> {"none", "cdn", "official"}]
    /\ rolls \in [Downloads -> 0..Rerolls]
    /\ cdn \in {"down", "flaky", "up"}
    /\ official \in BOOLEAN
    /\ barren \in 0..Threshold /\ answered \in BOOLEAN

(* The breaker opens (or its cooldown is renewed) only after Threshold CDN  *)
(* attempts in a row, over all downloads, that brought less than            *)
(* minMeasureBytes each: one that brought more starts the count again.      *)
TripsOnlyDown == [][openFor' > openFor => barren' >= Threshold]_vars

(* "It is delivering nothing - down or unreachable" (lines 110-111): none   *)
(* of these attempts was answered.  The code does not guarantee it.         *)
TripsOnlySilent == [][openFor' > openFor => ~answered']_vars

(* Downloads keep being started. *)
Busy == \A d \in Downloads : []<>(conn[d] # "none")

(* From some time on no attempt on the CDN ends below minMeasureBytes. *)
EventuallyMeasured ==
    <>[][\A d \in Downloads : EndCdn(d) => barren' = 0]_vars

(* Of the requests that meet an open breaker, one in ProbeEvery goes to the *)
(* CDN; once that delivers measured data for good, it is enough for the     *)
(* launcher to return to it, whether or not the cooldown ever elapses,      *)
(* provided downloads keep being started.                                   *)
Returned == <>[](openFor = 0 /\ \A d \in Downloads : conn[d] # "official")
Converges == (EventuallyMeasured /\ <>[](cdn = "up") /\ Busy) => Returned

(* "We converge back to the (faster) CDN as soon as it works again" (lines  *)
(* 314-315), whatever the files' sizes.  The code does not guarantee it.    *)
ConvergesOnceUp == (<>[](cdn = "up") /\ Busy) => Returned

(* A CDN that stays down keeps no download: it gets to the official source, *)
(* whatever the breaker does.                                               *)
LeavesDeadCdn ==
    <>[](cdn = "down") =>
        \A d \in Downloads : (conn[d] = "cdn") ~> (conn[d] # "cdn")

(* Failures counted on the CDN are forgotten only when the CDN delivers,    *)
(* when the breaker opens, or when the open breaker has forced the traffic  *)
(* onto a fallback that delivers nothing: never because of the official     *)
(* source while the CDN is in use.                                          *)
StreakKept ==
    [][cbFails' < cbFails /\ openFor = 0 /\ openFor' = 0 => barren' = 0]_vars
=============================================================================
