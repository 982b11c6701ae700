----------------------------- MODULE ServiceCalls -----------------------------
(***************************************************************************)
(* How calls of service methods wait for each other: @Lock and @Singleton  *)
(* of xmcl-runtime/service/Service.ts over the mutexes of                  *)
(* app/MutexManager.ts, with the calls that a method makes of other        *)
(* decorated methods while it holds its own locks (InstallService:         *)
(* reinstall calls installFabric or installNeoForged).                     *)
(*                                                                         *)
(* A mutex is the queue of the calls that acquired it and did not release  *)
(* it yet; the first one holds it.  A call is made once: making the same   *)
(* call again is another member of Calls.                                  *)
(***************************************************************************)
EXTENDS Naturals, Sequences

CONSTANTS
  Calls,      \* the calls made
  Keys,       \* lock keys (LockKey)
  Singles,    \* singleton keys
  LockKeys,   \* the keys of a call's @Lock, {} without one
  SingleOf,   \* the key of a call's @Singleton, NoSingle without one
  Body        \* the decorated calls its method may make, in order

NoSingle == "no singleton"
NoCall == "no call"

\* A method has at most one of the decorators, and another method's call has
\* one caller.
ASSUME ServiceCallsAssumption ==
  /\ LockKeys \in [Calls -> SUBSET Keys]
  /\ SingleOf \in [Calls -> Singles \cup {NoSingle}]
  /\ NoSingle \notin Singles /\ NoCall \notin Calls
  /\ \A c \in Calls : SingleOf[c] # NoSingle => LockKeys[c] = {}
  /\ Body \in [Calls -> Seq(Calls)]

VARIABLES
  phase,      \* where a call is
  step,       \* the next call of its Body
  queue,      \* the calls in each mutex, the holder first
  instances,  \* the running call of each singleton key
  leader,     \* the call whose result a joined call waits for
  earlier     \* history: the calls made before this one that have not ended

vars == <<phase, step, queue, instances, leader, earlier>>

Pending == {"waiting", "running", "awaiting"}
Ended == {"done", "failed"}

TypeOK ==
  /\ phase \in [Calls -> {"idle", "joined"} \cup Pending \cup Ended]
  /\ step \in [Calls -> Nat \ {0}]
  /\ queue \in [Keys -> Seq(Calls)]
  /\ instances \in [Singles -> Calls \cup {NoCall}]
  /\ leader \in [Calls -> Calls \cup {NoCall}]
  /\ earlier \in [Calls -> SUBSET Calls]

Init ==
  /\ phase = [c \in Calls |-> "idle"]
  /\ step = [c \in Calls |-> 1]
  /\ queue = [k \in Keys |-> <<>>]
  /\ instances = [s \in Singles |-> NoCall]
  /\ leader = [c \in Calls |-> NoCall]
  /\ earlier = [c \in Calls |-> {}]

-----------------------------------------------------------------------------
\* Calls that another method makes.
Nested == UNION {{Body[p][i] : i \in 1 .. Len(Body[p])} : p \in Calls}

Joins(c) == SingleOf[c] # NoSingle /\ instances[SingleOf[c]] # NoCall

Acquired(q, c) == Append(q, c)

\* The decorators: the second call of a running singleton takes its promise;
\* all locks are asked for before anything is awaited.
Invoke(c, phases) ==
  /\ phase[c] = "idle"
  /\ earlier' = [earlier EXCEPT ![c] = {d \in Calls : phase[d] \in Pending}]
  /\ IF Joins(c)
     THEN /\ phase' = [phases EXCEPT ![c] = "joined"]
          /\ leader' = [leader EXCEPT ![c] = instances[SingleOf[c]]]
          /\ UNCHANGED <<queue, instances>>
     ELSE /\ phase' = [phases EXCEPT ![c] = "waiting"]
          /\ queue' = [k \in Keys |->
                         IF k \in LockKeys[c] THEN Acquired(queue[k], c) ELSE queue[k]]
          /\ instances' = [s \in Singles |-> IF s = SingleOf[c] THEN c ELSE instances[s]]
          /\ UNCHANGED leader

\* A client or a service calls it.
Call(c) ==
  /\ c \notin Nested
  /\ Invoke(c, phase)
  /\ UNCHANGED step

\* mutant: the first lock is enough
GrantedOne(c) == LockKeys[c] = {} \/ \E k \in LockKeys[c] : Head(queue[k]) = c
Granted(c) == \A k \in LockKeys[c] : Head(queue[k]) = c

\* Promise.all of the locks: the method runs.
Start(c) ==
  /\ phase[c] = "waiting" /\ Granted(c)
  /\ phase' = [phase EXCEPT ![c] = "running"]
  /\ UNCHANGED <<step, queue, instances, leader, earlier>>

Child(p) == Body[p][step[p]]
HasChild(p) == step[p] <= Len(Body[p])

\* The method calls the next one and awaits it, its locks held.
CallNested(p) ==
  /\ phase[p] = "running" /\ HasChild(p)
  /\ Invoke(Child(p), [phase EXCEPT ![p] = "awaiting"])
  /\ UNCHANGED step

\* What it would install is not part of the version.
SkipNested(p) ==
  /\ phase[p] = "running" /\ HasChild(p)
  /\ step' = [step EXCEPT ![p] = @ + 1]
  /\ UNCHANGED <<phase, queue, instances, leader, earlier>>

NestedDone(p) ==
  /\ phase[p] = "awaiting" /\ phase[Child(p)] = "done"
  /\ phase' = [phase EXCEPT ![p] = "running"]
  /\ step' = [step EXCEPT ![p] = @ + 1]
  /\ UNCHANGED <<queue, instances, leader, earlier>>

\* mutant: the locks are released with a result only, without the finally
ReleasedIfDone(c, outcome) ==
  [k \in Keys |-> IF outcome = "done" /\ k \in LockKeys[c] THEN Tail(queue[k]) ELSE queue[k]]
Released(c, outcome) ==
  [k \in Keys |-> IF k \in LockKeys[c] THEN Tail(queue[k]) ELSE queue[k]]

\* The finally of both decorators.
Settle(c, outcome) ==
  /\ phase' = [phase EXCEPT ![c] = outcome]
  /\ queue' = Released(c, outcome)
  /\ instances' = [s \in Singles |-> IF s = SingleOf[c] THEN NoCall ELSE instances[s]]
  /\ earlier' = [d \in Calls |-> earlier[d] \ {c}]
  /\ UNCHANGED <<step, leader>>

Return(c) == phase[c] = "running" /\ ~HasChild(c) /\ Settle(c, "done")

Throw(c) ==
  /\ \/ phase[c] = "running"
     \/ phase[c] = "awaiting" /\ phase[Child(c)] = "failed"
  /\ Settle(c, "failed")

\* The shared promise settles for every call that took it.
Answer(c) ==
  /\ phase[c] = "joined" /\ phase[leader[c]] \in Ended
  /\ phase' = [phase EXCEPT ![c] = phase[leader[c]]]
  /\ UNCHANGED <<step, queue, instances, leader, earlier>>

Method(c) == Return(c) \/ Throw(c) \/ CallNested(c) \/ SkipNested(c) \/ NestedDone(c)

Idle == \A c \in Calls \ Nested : phase[c] \in Ended
Stopped == Idle /\ UNCHANGED vars

Next ==
  \/ \E c \in Calls : Call(c) \/ Start(c) \/ Method(c) \/ Answer(c)
  \/ Stopped

Spec == Init /\ [][Next]_vars

\* A method that runs ends, and promises settle; nobody has to call.
FairSpec ==
  Spec /\ \A c \in Calls : WF_vars(Start(c) \/ Method(c) \/ Answer(c))

-----------------------------------------------------------------------------
(* Properties. *)

Share(c, d) == LockKeys[c] \cap LockKeys[d] # {}

\* "this service will acquire mutex to run, ensuring the mutual exclusive"
\* (Service.ts:27): also of methods with several keys, and while one of them
\* waits for a nested call.
MutualExclusion ==
  \A c, d \in Calls :
    c # d /\ Share(c, d) => ~({phase[c], phase[d]} \subseteq {"running", "awaiting"})

\* A method with several keys never slips in before a call that was made
\* earlier and shares one of them: the queues of all mutexes agree.
NoOvertaking ==
  [][\A c, d \in Calls :
       phase[c] = "waiting" /\ phase'[c] = "running" /\ Share(c, d) => d \notin earlier[c]]_vars

\* Every call ends, whatever fails and whichever calls nest: no set of calls
\* holds each other's locks.  (A call is made once and an end is final.)
Served == <>[](\A c \in Calls : phase[c] \in {"idle"} \cup Ended)

=============================================================================
