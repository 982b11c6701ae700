-------------------------- MODULE ServiceCallsProofs --------------------------
(***************************************************************************)
(* For any calls, locks, singletons and nesting: methods that share a lock *)
(* key never run at the same time, and no call slips in before one that    *)
(* was made earlier and shares a key with it.  The reason is that a call   *)
(* joins the queues of all its mutexes in one step, so that every queue is *)
(* in the order in which its calls were made.                              *)
(***************************************************************************)
EXTENDS ServiceCalls, SequenceTheorems, TLAPS

Held == {"running", "awaiting"}
In(q, c) == \E i \in 1 .. Len(q) : q[i] = c

-----------------------------------------------------------------------------
(* Queues. *)

LEMMA JoinQueue ==
  ASSUME NEW q \in Seq(Calls), NEW c \in Calls
  PROVE  /\ Append(q, c) \in Seq(Calls)
         /\ Len(Append(q, c)) = Len(q) + 1 /\ Len(q) \in Nat
         /\ \A i \in 1 .. Len(q) : Append(q, c)[i] = q[i]
         /\ Append(q, c)[Len(q) + 1] = c
BY AppendProperties, LenProperties

LEMMA JoinPlaces ==
  ASSUME NEW q \in Seq(Calls), NEW c \in Calls
  PROVE  /\ Append(q, c) # q
         /\ \A i \in 1 .. Len(Append(q, c)) :
               Append(q, c)[i] = c \/ \E j \in 1 .. Len(q) : Append(q, c)[i] = q[j]
<1>1. Append(q, c) # q
  BY JoinQueue
<1>2. ASSUME NEW i \in 1 .. Len(Append(q, c))
      PROVE  Append(q, c)[i] = c \/ \E j \in 1 .. Len(q) : Append(q, c)[i] = q[j]
  <2>1. i \in 1 .. Len(q) \/ i = Len(q) + 1
    BY JoinQueue
  <2> QED BY <2>1, JoinQueue
<1> QED BY <1>1, <1>2

LEMMA JoinIn ==
  ASSUME NEW q \in Seq(Calls), NEW c \in Calls
  PROVE  In(Append(q, c), c) /\ \A d : In(q, d) => In(Append(q, c), d)
<1>1. /\ Len(q) + 1 \in 1 .. Len(Append(q, c))
      /\ \A i \in 1 .. Len(q) : i \in 1 .. Len(Append(q, c))
  BY JoinQueue
<1> QED BY <1>1, JoinQueue DEF In

LEMMA JoinOrder ==
  ASSUME NEW q \in Seq(Calls), NEW c \in Calls,
         NEW j \in 1 .. Len(Append(q, c)), NEW i \in 1 .. (j - 1)
  PROVE  /\ i \in 1 .. Len(q) /\ Append(q, c)[i] = q[i]
         /\ Append(q, c)[j] = c \/ (j \in 1 .. Len(q) /\ Append(q, c)[j] = q[j])
<1>1. i \in 1 .. Len(q) /\ (j \in 1 .. Len(q) \/ j = Len(q) + 1)
  BY JoinQueue
<1> QED BY <1>1, JoinQueue

LEMMA LeaveQueue ==
  ASSUME NEW q \in Seq(Calls), NEW c \in Calls, In(q, c)
  PROVE  /\ Tail(q) \in Seq(Calls) /\ Head(q) = q[1]
         /\ Len(q) \in Nat /\ Len(Tail(q)) = Len(q) - 1
         /\ \A i \in 1 .. (Len(q) - 1) : Tail(q)[i] = q[i + 1]
<1>1. Len(q) \in Nat /\ Len(q) # 0
  BY LenProperties DEF In
<1>2. q # <<>>
  BY <1>1, EmptySeq
<1> QED BY <1>1, <1>2, HeadTailProperties

-----------------------------------------------------------------------------
(* The invariant. *)

\* A pending call is in the queues of its keys and in no others.
QueuesPending ==
  /\ \A k \in Keys : \A i \in 1 .. Len(queue[k]) :
        phase[queue[k][i]] \in Pending /\ k \in LockKeys[queue[k][i]]
  /\ \A c \in Calls : \A k \in LockKeys[c] : phase[c] \in Pending => In(queue[k], c)

\* Every queue is in the order in which its calls were made.
QueuesAgree ==
  \A k \in Keys : \A j \in 1 .. Len(queue[k]) : \A i \in 1 .. (j - 1) :
     queue[k][i] \in earlier[queue[k][j]]

\* What was made earlier and is pending: a strict order.
EarlierOrder ==
  \A c, d \in Calls : d \in earlier[c] => phase[d] \in Pending /\ c \notin earlier[d]

HoldersRun ==
  \A c \in Calls : \A k \in LockKeys[c] : phase[c] \in Held => queue[k][1] = c

IInv == TypeOK /\ QueuesPending /\ QueuesAgree /\ EarlierOrder /\ HoldersRun

LEMMA IInvInit == Init => IInv
<1> SUFFICES ASSUME Init PROVE IInv
  OBVIOUS
<1> USE ServiceCallsAssumption DEF Init
<1>1. TypeOK
  BY EmptySeq DEF TypeOK, Pending, Ended
<1>2. \A k \in Keys : Len(queue[k]) = 0
  BY EmptySeq
<1>3. QueuesPending /\ QueuesAgree
  BY <1>2 DEF QueuesPending, QueuesAgree, Pending
<1>4. EarlierOrder /\ HoldersRun
  BY DEF EarlierOrder, HoldersRun, Held
<1> QED BY <1>1, <1>3, <1>4 DEF IInv

-----------------------------------------------------------------------------
(* The steps, by what they do to the queues. *)

LEMMA ChildCall ==
  ASSUME TypeOK, NEW p \in Calls, HasChild(p)
  PROVE  Child(p) \in Calls
<1>1. Body[p] \in Seq(Calls) /\ step[p] \in 1 .. Len(Body[p])
  BY ServiceCallsAssumption, LenProperties DEF TypeOK, HasChild
<1> QED BY <1>1, ElementOfSeq DEF Child

\* A call is made; the one that makes it was running and awaits it now.
Made(c) ==
  /\ phase[c] = "idle"
  /\ \A d \in Calls \ {c} : phase'[d] = phase[d] \/ (phase[d] = "running" /\ phase'[d] = "awaiting")
  /\ earlier' = [earlier EXCEPT ![c] = {d \in Calls : phase[d] \in Pending}]
  /\ \/ phase'[c] = "joined" /\ queue' = queue
     \/ /\ phase'[c] = "waiting"
        /\ queue' = [k \in Keys |-> IF k \in LockKeys[c] THEN Append(queue[k], c) ELSE queue[k]]

\* The queues stay; who holds its locks now was granted them.
Quiet ==
  /\ UNCHANGED <<queue, earlier>>
  /\ \A d \in Calls : phase'[d] \in Pending <=> phase[d] \in Pending
  /\ \A d \in Calls : phase'[d] \in Held => phase[d] \in Held \/ (phase[d] = "waiting" /\ Granted(d))

\* A call ends and leaves.
Left(c) ==
  /\ phase[c] \in Held /\ phase'[c] \in Ended
  /\ \A d \in Calls \ {c} : phase'[d] = phase[d]
  /\ queue' = [k \in Keys |-> IF k \in LockKeys[c] THEN Tail(queue[k]) ELSE queue[k]]
  /\ earlier' = [d \in Calls |-> earlier[d] \ {c}]

LEMMA MadeBy ==
  ASSUME TypeOK, NEW c \in Calls, Call(c) \/ \E p \in Calls : CallNested(p) /\ c = Child(p)
  PROVE  Made(c)
<1> USE DEF TypeOK, Made, Invoke, Acquired
<1>1. CASE Call(c)
  BY <1>1 DEF Call
<1>2. CASE \E p \in Calls : CallNested(p) /\ c = Child(p)
  BY <1>2 DEF CallNested
<1> QED BY <1>1, <1>2

LEMMA StepKinds ==
  ASSUME TypeOK, [Next]_vars
  PROVE  Quiet \/ \E c \in Calls : Made(c) \/ Left(c)
<1>1. CASE Stopped \/ UNCHANGED vars
  BY <1>1 DEF Stopped, vars, Quiet
<1>2. ASSUME NEW c \in Calls, Call(c) PROVE Made(c)
  BY <1>2, MadeBy
<1>3. ASSUME NEW c \in Calls, CallNested(c) PROVE Made(Child(c)) /\ Child(c) \in Calls
  BY <1>3, MadeBy, ChildCall DEF CallNested
<1>4. ASSUME NEW c \in Calls, Start(c) \/ SkipNested(c) \/ NestedDone(c) PROVE Quiet
  BY <1>4 DEF TypeOK, Start, SkipNested, NestedDone, Quiet, Pending, Held
<1>5. ASSUME NEW c \in Calls, Answer(c) PROVE Quiet
  BY <1>5 DEF TypeOK, Answer, Quiet, Pending, Held, Ended
<1>6. ASSUME NEW c \in Calls, Return(c) \/ Throw(c) PROVE Left(c)
  BY <1>6 DEF TypeOK, Return, Throw, Settle, Released, Left, Held, Ended
<1> QED BY <1>1, <1>2, <1>3, <1>4, <1>5, <1>6 DEF Next, Method
-----------------------------------------------------------------------------
(* Types. *)

\* What a call holds can be released.
LEMMA Release ==
  ASSUME IInv, NEW c \in Calls, phase[c] \in Held, NEW k \in LockKeys[c]
  PROVE  k \in Keys /\ In(queue[k], c)
BY ServiceCallsAssumption DEF IInv, QueuesPending, Held, Pending

LEMMA QueuesJoined ==
  ASSUME NEW queues \in [Keys -> Seq(Calls)], NEW c \in Calls
  PROVE  [k \in Keys |-> IF k \in LockKeys[c] THEN Append(queues[k], c) ELSE queues[k]]
           \in [Keys -> Seq(Calls)]
<1>1. \A k \in Keys : Append(queues[k], c) \in Seq(Calls)
  BY JoinQueue
<1> QED BY <1>1

LEMMA TypeMade ==
  ASSUME TypeOK, NEW c \in Calls, NEW phases \in [Calls -> {"idle", "joined"} \cup Pending \cup Ended],
         Invoke(c, phases), UNCHANGED step
  PROVE  TypeOK'
<1> USE ServiceCallsAssumption DEF TypeOK, Invoke
<1>1. phase' \in [Calls -> {"idle", "joined"} \cup Pending \cup Ended] /\ step' \in [Calls -> Nat \ {0}]
  BY DEF Pending, Ended
<1>2. queue' \in [Keys -> Seq(Calls)]
  <2>1. CASE Joins(c)
    BY <2>1
  <2>2. CASE ~Joins(c)
    <3>1. queue' = [k \in Keys |-> IF k \in LockKeys[c] THEN Append(queue[k], c) ELSE queue[k]]
      BY <2>2 DEF Acquired
    <3> QED BY ONLY <3>1, QueuesJoined, queue \in [Keys -> Seq(Calls)], c \in Calls
  <2> QED BY <2>1, <2>2
<1>3. instances' \in [Singles -> Calls \cup {NoCall}] /\ leader' \in [Calls -> Calls \cup {NoCall}]
  <2>1. CASE Joins(c)
    <3>1. instances[SingleOf[c]] \in Calls \cup {NoCall} /\ instances' = instances
      BY <2>1 DEF Joins
    <3> QED BY <2>1, <3>1
  <2>2. CASE ~Joins(c)
    <3>1. instances' = [s \in Singles |-> IF s = SingleOf[c] THEN c ELSE instances[s]] /\ leader' = leader
      BY <2>2
    <3> QED BY ONLY <3>1, c \in Calls, TypeOK DEF TypeOK
  <2> QED BY <2>1, <2>2
<1>4. earlier' \in [Calls -> SUBSET Calls]
  <2>1. {d \in Calls : phase[d] \in Pending} \in SUBSET Calls
    OBVIOUS
  <2> QED BY <2>1
<1> QED BY <1>1, <1>2, <1>3, <1>4

LEMMA TypeLeft ==
  ASSUME IInv, NEW c \in Calls, phase[c] \in Held, NEW outcome \in Ended, Settle(c, outcome)
  PROVE  TypeOK'
<1> USE ServiceCallsAssumption DEF IInv, TypeOK, Settle
<1>1. phase' \in [Calls -> {"idle", "joined"} \cup Pending \cup Ended] /\ step' \in [Calls -> Nat \ {0}]
  BY DEF Pending, Ended
<1>2. queue' \in [Keys -> Seq(Calls)]
  BY Release, LeaveQueue DEF Released
<1>3. instances' \in [Singles -> Calls \cup {NoCall}] /\ earlier' \in [Calls -> SUBSET Calls]
  OBVIOUS
<1>4. leader' \in [Calls -> Calls \cup {NoCall}]
  OBVIOUS
<1> QED BY <1>1, <1>2, <1>3, <1>4

LEMMA TypeNext ==
  ASSUME IInv, [Next]_vars
  PROVE  TypeOK'
<1>0. TypeOK
  BY DEF IInv
<1>1. CASE Stopped \/ UNCHANGED vars
  BY <1>0, <1>1 DEF Stopped, vars, TypeOK
<1>2. ASSUME NEW c \in Calls, Call(c) PROVE TypeOK'
  BY <1>0, <1>2, TypeMade DEF Call, TypeOK
<1>3. ASSUME NEW p \in Calls, CallNested(p) PROVE TypeOK'
  <2>1. [phase EXCEPT ![p] = "awaiting"] \in [Calls -> {"idle", "joined"} \cup Pending \cup Ended]
    BY <1>0 DEF TypeOK, Pending
  <2>2. Child(p) \in Calls /\ Invoke(Child(p), [phase EXCEPT ![p] = "awaiting"]) /\ UNCHANGED step
    BY <1>0, <1>3, ChildCall DEF CallNested
  <2> HIDE DEF TypeOK
  <2> QED BY <1>0, <2>1, <2>2, TypeMade, Zenon
<1>4. ASSUME NEW c \in Calls, Start(c) \/ SkipNested(c) \/ NestedDone(c) PROVE TypeOK'
  <2>1. step[c] + 1 \in Nat \ {0}
    BY <1>0 DEF TypeOK
  <2>2. step' \in [Calls -> Nat \ {0}]
    BY <1>0, <1>4, <2>1, Zenon DEF TypeOK, Start, SkipNested, NestedDone
  <2>3. phase' \in [Calls -> {"idle", "joined"} \cup Pending \cup Ended]
    BY <1>0, <1>4, Zenon DEF TypeOK, Start, SkipNested, NestedDone, Pending
  <2> QED BY <1>0, <1>4, <2>2, <2>3, Zenon DEF TypeOK, Start, SkipNested, NestedDone
<1>5. ASSUME NEW c \in Calls, Answer(c) PROVE TypeOK'
  BY <1>0, <1>5 DEF TypeOK, Answer, Ended
<1>6. ASSUME NEW c \in Calls, Return(c) \/ Throw(c) PROVE TypeOK'
  BY <1>6, TypeLeft DEF Return, Throw, Held, Ended
<1> QED BY <1>1, <1>2, <1>3, <1>4, <1>5, <1>6 DEF Next, Method
-----------------------------------------------------------------------------
(* Quiet steps and calls that are made keep the rest of the invariant. *)

Rest == QueuesPending /\ QueuesAgree /\ EarlierOrder /\ HoldersRun

\* Every k that is locked by a pending call is a mutex with a queue.
LEMMA Queued ==
  ASSUME IInv, NEW c \in Calls, NEW k \in LockKeys[c], phase[c] \in Pending
  PROVE  k \in Keys /\ queue[k] \in Seq(Calls) /\ In(queue[k], c)
BY ServiceCallsAssumption DEF IInv, TypeOK, QueuesPending

LEMMA QuietKeeps ==
  ASSUME IInv, TypeOK', Quiet
  PROVE  Rest'
<1> USE DEF IInv, Quiet
<1>1. QueuesPending'
  BY DEF QueuesPending, TypeOK
<1>2. QueuesAgree'
  BY DEF QueuesAgree
<1>3. EarlierOrder'
  BY DEF EarlierOrder
<1>4. HoldersRun'
  <2>1. ASSUME NEW c \in Calls, NEW k \in LockKeys[c], phase'[c] \in Held PROVE queue[k][1] = c
    <3>1. CASE phase[c] \in Held
      BY <3>1 DEF HoldersRun
    <3>2. CASE phase[c] = "waiting" /\ Granted(c)
      BY <3>2, Queued, LeaveQueue DEF Granted, Pending
    <3> QED BY <2>1, <3>1, <3>2
  <2> QED BY <2>1 DEF HoldersRun
<1> QED BY <1>1, <1>2, <1>3, <1>4 DEF Rest

LEMMA MadeKeeps ==
  ASSUME IInv, TypeOK', NEW c \in Calls, Made(c)
  PROVE  Rest'
<1> USE DEF IInv
<1>1. phase[c] \notin Pending /\ phase'[c] \notin Held
  BY DEF Made, Pending, Held
<1>2. \A d \in Calls : phase[d] \in Pending => d # c /\ phase'[d] \in Pending
  BY <1>1 DEF Made, Pending
<1>3. \A d \in Calls \ {c} : (phase'[d] \in Pending => phase[d] \in Pending) /\ earlier'[d] = earlier[d]
  BY DEF Made, Pending, TypeOK
<1>4. earlier'[c] = {d \in Calls : phase[d] \in Pending}
  BY DEF Made, TypeOK
<1>5. \A k \in Keys : queue'[k] = queue[k] \/ (k \in LockKeys[c] /\ queue'[k] = Append(queue[k], c))
  BY DEF Made, TypeOK
<1>6. QueuesPending'
  <2>1. ASSUME NEW k \in Keys, NEW i \in 1 .. Len(queue'[k])
        PROVE  phase'[queue'[k][i]] \in Pending /\ k \in LockKeys[queue'[k][i]]
    <3>1. CASE queue'[k] = queue[k]
      BY <1>2, <3>1, ElementOfSeq DEF QueuesPending, TypeOK
    <3>2. CASE k \in LockKeys[c] /\ queue'[k] = Append(queue[k], c)
      <4>1. queue'[k][i] = c \/ \E j \in 1 .. Len(queue[k]) : queue'[k][i] = queue[k][j]
        BY <3>2, JoinPlaces DEF TypeOK
      <4>2. CASE queue'[k][i] = c
        <5>1. queue' # queue
          BY <1>1, <3>2, JoinPlaces DEF TypeOK, QueuesPending
        <5> QED BY <3>2, <4>2, <5>1 DEF Made, Pending
      <4> QED BY <1>2, <4>1, <4>2, ElementOfSeq DEF QueuesPending, TypeOK
    <3> QED BY <1>5, <3>1, <3>2
  <2>2. ASSUME NEW d \in Calls, NEW k \in LockKeys[d], phase'[d] \in Pending
        PROVE  In(queue'[k], d)
    <3>1. k \in Keys
      BY ServiceCallsAssumption
    <3>2. CASE d = c
      <4>1. queue'[k] = Append(queue[k], c)
        BY <1>5, <2>2, <3>1, <3>2 DEF Made, Pending, TypeOK
      <4> QED BY <3>1, <3>2, <4>1, JoinIn DEF TypeOK
    <3>3. CASE d # c
      <4>1. In(queue[k], d)
        BY <1>3, <2>2, <3>3, Queued
      <4>2. In(Append(queue[k], c), d)
        BY <3>1, <4>1, JoinIn DEF TypeOK
      <4>3. queue'[k] = queue[k] \/ queue'[k] = Append(queue[k], c)
        BY <1>5, <3>1
      <4> QED BY <4>1, <4>2, <4>3, Zenon
    <3> QED BY <3>2, <3>3
  <2> QED BY <2>1, <2>2 DEF QueuesPending
<1>7. QueuesAgree'
  <2>1. ASSUME NEW k \in Keys, NEW j \in 1 .. Len(queue'[k]), NEW i \in 1 .. (j - 1)
        PROVE  queue'[k][i] \in earlier'[queue'[k][j]]
    <3>1. \A n \in 1 .. Len(queue[k]) : queue[k][n] \in Calls \ {c} /\ phase[queue[k][n]] \in Pending
      BY <1>1, ElementOfSeq DEF QueuesPending, TypeOK
    <3>2. CASE queue'[k] = queue[k]
      <4>1. queue[k][i] \in earlier[queue[k][j]] /\ queue[k][j] \in Calls \ {c}
        BY <3>1, <3>2 DEF QueuesAgree
      <4> QED BY <1>3, <3>2, <4>1
    <3>3. CASE queue'[k] = Append(queue[k], c)
      <4>1. /\ i \in 1 .. Len(queue[k]) /\ queue'[k][i] = queue[k][i]
            /\ queue'[k][j] = c \/ (j \in 1 .. Len(queue[k]) /\ queue'[k][j] = queue[k][j])
        BY <3>3, JoinOrder DEF TypeOK
      <4>2. CASE queue'[k][j] = c
        BY <1>4, <3>1, <4>1, <4>2
      <4>3. CASE j \in 1 .. Len(queue[k]) /\ queue'[k][j] = queue[k][j]
        <5>1. queue[k][i] \in earlier[queue[k][j]] /\ queue[k][j] \in Calls \ {c}
          BY <3>1, <4>3 DEF QueuesAgree
        <5> QED BY <1>3, <4>1, <4>3, <5>1
      <4> QED BY <4>1, <4>2, <4>3
    <3> QED BY <1>5, <3>2, <3>3
  <2> QED BY <2>1 DEF QueuesAgree
<1>8. EarlierOrder'
  <2>1. ASSUME NEW e \in Calls, NEW d \in Calls, d \in earlier'[e]
        PROVE  phase'[d] \in Pending /\ e \notin earlier'[d]
    <3>1. CASE e = c
      BY <1>1, <1>2, <1>3, <1>4, <2>1, <3>1 DEF EarlierOrder
    <3>2. CASE e # c
      BY <1>1, <1>2, <1>3, <2>1, <3>2 DEF EarlierOrder
    <3> QED BY <3>1, <3>2
  <2> QED BY <2>1 DEF EarlierOrder
<1>9. HoldersRun'
  <2>1. ASSUME NEW d \in Calls, NEW k \in LockKeys[d], phase'[d] \in Held
        PROVE  queue'[k][1] = d
    <3>1. phase[d] \in Held
      BY <1>1, <2>1 DEF Made, Held
    <3>2. k \in Keys /\ queue[k][1] = d /\ In(queue[k], d)
      BY <3>1, Queued DEF HoldersRun, Held, Pending
    <3>3. 1 \in 1 .. Len(queue[k])
      BY <3>2, LenProperties DEF In, TypeOK
    <3>4. CASE queue'[k] = Append(queue[k], c)
      BY <3>2, <3>3, <3>4, JoinQueue DEF TypeOK
    <3> QED BY <1>5, <3>2, <3>4
  <2> QED BY <2>1 DEF HoldersRun
<1> QED BY <1>6, <1>7, <1>8, <1>9 DEF Rest
-----------------------------------------------------------------------------
(* The calls that end leave the rest of the invariant. *)

LEMMA LeaveIn ==
  ASSUME NEW q \in Seq(Calls), NEW c \in Calls, NEW d, In(q, c), In(q, d), q[1] # d
  PROVE  In(Tail(q), d)
<1>1. PICK i \in 1 .. Len(q) : q[i] = d
  BY DEF In
<1>2. i - 1 \in 1 .. Len(Tail(q)) /\ i - 1 \in 1 .. (Len(q) - 1) /\ (i - 1) + 1 = i
  BY <1>1, LeaveQueue
<1>3. Tail(q)[i - 1] = d
  BY <1>1, <1>2, LeaveQueue
<1> QED BY <1>2, <1>3 DEF In

\* What is left of a queue are its other places, in their order.
LEMMA LeavePlaces ==
  ASSUME NEW q \in Seq(Calls), NEW c \in Calls, In(q, c)
  PROVE  \A j \in 1 .. Len(Tail(q)) :
           /\ j + 1 \in 1 .. Len(q) /\ Tail(q)[j] = q[j + 1] /\ 1 \in 1 .. ((j + 1) - 1)
           /\ \A i \in 1 .. (j - 1) :
                i + 1 \in 1 .. ((j + 1) - 1) /\ Tail(q)[i] = q[i + 1]
<1>1. ASSUME NEW j \in 1 .. Len(Tail(q))
      PROVE  j + 1 \in 1 .. Len(q) /\ Tail(q)[j] = q[j + 1] /\ 1 \in 1 .. ((j + 1) - 1)
  BY LeaveQueue
<1>2. ASSUME NEW j \in 1 .. Len(Tail(q)), NEW i \in 1 .. (j - 1)
      PROVE  i + 1 \in 1 .. ((j + 1) - 1) /\ Tail(q)[i] = q[i + 1]
  BY LeaveQueue
<1> QED BY <1>1, <1>2

\* The places of a queue after a call left all its queues.
LEMMA LeftPlaces ==
  ASSUME IInv, NEW c \in Calls, Left(c), NEW k \in Keys
  PROVE  \A j \in 1 .. Len(queue'[k]) : \E n \in 1 .. Len(queue[k]) :
           /\ queue'[k][j] = queue[k][n] /\ queue[k][n] # c
           /\ \A i \in 1 .. (j - 1) : \E m \in 1 .. (n - 1) :
                queue'[k][i] = queue[k][m] /\ queue[k][m] # c
<1> USE DEF IInv
<1>1. queue[k] \in Seq(Calls) /\ Len(queue[k]) \in Nat
  BY LenProperties DEF TypeOK
<1>2. CASE k \notin LockKeys[c]
  <2>1. \A n \in 1 .. Len(queue[k]) : queue[k][n] # c
    BY <1>2 DEF QueuesPending
  <2>2. queue'[k] = queue[k]
    BY <1>2 DEF Left
  <2>3. \A j \in 1 .. Len(queue[k]) : \A i \in 1 .. (j - 1) : i \in 1 .. Len(queue[k])
    BY <1>1
  <2> QED BY <2>1, <2>2, <2>3, Zenon
<1>3. CASE k \in LockKeys[c]
  <2>1. queue[k][1] = c /\ In(queue[k], c)
    BY <1>3, Queued DEF Left, HoldersRun, Held, Pending
  <2>2. queue'[k] = Tail(queue[k])
    BY <1>3 DEF Left
  <2>3. \A n \in 1 .. Len(queue[k]) : 1 \in 1 .. (n - 1) => queue[k][n] # c
    <3>1. ASSUME NEW n \in 1 .. Len(queue[k]), 1 \in 1 .. (n - 1) PROVE c \in earlier[queue[k][n]]
      BY <2>1, <3>1 DEF QueuesAgree
    <3> QED BY <3>1 DEF EarlierOrder
  <2>4. ASSUME NEW j \in 1 .. Len(Tail(queue[k])), NEW i \in 1 .. (j - 1)
        PROVE  /\ i + 1 \in 1 .. ((j + 1) - 1) /\ Tail(queue[k])[i] = queue[k][i + 1]
               /\ queue[k][i + 1] # c
    <3>1. i \in 1 .. Len(Tail(queue[k]))
      BY <1>1, <2>1, LeaveQueue
    <3> QED BY <1>1, <2>1, <2>3, <3>1, LeavePlaces
  <2>5. ASSUME NEW j \in 1 .. Len(Tail(queue[k]))
        PROVE  /\ j + 1 \in 1 .. Len(queue[k]) /\ Tail(queue[k])[j] = queue[k][j + 1]
               /\ queue[k][j + 1] # c
    BY <1>1, <2>1, <2>3, LeavePlaces
  <2>6. ASSUME NEW j \in 1 .. Len(Tail(queue[k]))
        PROVE  \E n \in 1 .. Len(queue[k]) :
                 /\ Tail(queue[k])[j] = queue[k][n] /\ queue[k][n] # c
                 /\ \A i \in 1 .. (j - 1) : \E m \in 1 .. (n - 1) :
                      Tail(queue[k])[i] = queue[k][m] /\ queue[k][m] # c
    <3>1. \A i \in 1 .. (j - 1) : \E m \in 1 .. ((j + 1) - 1) :
            Tail(queue[k])[i] = queue[k][m] /\ queue[k][m] # c
      BY <2>4, Zenon
    <3> QED BY <2>5, <3>1, Zenon
  <2> QED BY <2>2, <2>6
<1> QED BY <1>2, <1>3
LEMMA LeftKeeps ==
  ASSUME IInv, TypeOK', NEW c \in Calls, Left(c)
  PROVE  Rest'
<1> USE DEF IInv
<1>1. phase[c] \in Pending /\ phase'[c] \notin Pending /\ phase'[c] \notin Held
  BY DEF Left, Held, Pending, Ended
<1>2. \A d \in Calls \ {c} : phase'[d] = phase[d]
  BY DEF Left
<1>3. \A d \in Calls : earlier'[d] = earlier[d] \ {c}
  BY DEF Left
<1>4. \A k \in Keys : \A n \in 1 .. Len(queue[k]) : queue[k][n] \in Calls
  BY ElementOfSeq DEF TypeOK
<1>5. QueuesPending'
  <2>1. ASSUME NEW k \in Keys, NEW j \in 1 .. Len(queue'[k])
        PROVE  phase'[queue'[k][j]] \in Pending /\ k \in LockKeys[queue'[k][j]]
    <3>1. PICK n \in 1 .. Len(queue[k]) : queue'[k][j] = queue[k][n] /\ queue[k][n] # c
      BY LeftPlaces
    <3> QED BY <1>2, <1>4, <3>1 DEF QueuesPending
  <2>2. ASSUME NEW d \in Calls, NEW k \in LockKeys[d], phase'[d] \in Pending
        PROVE  In(queue'[k], d)
    <3>1. d # c /\ k \in Keys /\ queue[k] \in Seq(Calls) /\ In(queue[k], d)
      BY <1>1, <1>2, <2>2, Queued
    <3>2. CASE k \in LockKeys[c]
      <4>1. queue'[k] = Tail(queue[k]) /\ queue[k][1] = c
        BY <3>1, <3>2 DEF Left, HoldersRun
      <4>2. In(queue[k], c)
        BY <1>1, <3>2, Queued
      <4> QED BY <3>1, <4>1, <4>2, LeaveIn
    <3>3. CASE k \notin LockKeys[c]
      BY <3>1, <3>3 DEF Left
    <3> QED BY <3>2, <3>3
  <2> QED BY <2>1, <2>2 DEF QueuesPending
<1>6. QueuesAgree'
  <2>1. ASSUME NEW k \in Keys, NEW j \in 1 .. Len(queue'[k]), NEW i \in 1 .. (j - 1)
        PROVE  queue'[k][i] \in earlier'[queue'[k][j]]
    <3>1. PICK n \in 1 .. Len(queue[k]) :
            /\ queue'[k][j] = queue[k][n]
            /\ \E m \in 1 .. (n - 1) : queue'[k][i] = queue[k][m] /\ queue[k][m] # c
      BY LeftPlaces
    <3>2. queue'[k][i] \in earlier[queue[k][n]] \ {c}
      BY <3>1 DEF QueuesAgree
    <3> QED BY <1>3, <1>4, <3>1, <3>2
  <2> QED BY <2>1 DEF QueuesAgree
<1>7. EarlierOrder'
  BY <1>2, <1>3 DEF EarlierOrder
<1>8. HoldersRun'
  <2>1. ASSUME NEW d \in Calls, NEW k \in LockKeys[d], phase'[d] \in Held
        PROVE  queue'[k][1] = d
    <3>1. d # c /\ phase[d] \in Held /\ k \in Keys
      BY <1>1, <1>2, <2>1, ServiceCallsAssumption
    <3>2. queue[k][1] = d /\ k \notin LockKeys[c]
      BY <3>1 DEF HoldersRun, Left
    <3> QED BY <3>1, <3>2 DEF Left
  <2> QED BY <2>1 DEF HoldersRun
<1> QED BY <1>5, <1>6, <1>7, <1>8 DEF Rest

LEMMA IInvNext ==
  ASSUME IInv, [Next]_vars
  PROVE  IInv'
<1>1. TypeOK /\ TypeOK'
  BY TypeNext DEF IInv
<1>2. Rest'
  BY <1>1, StepKinds, QuietKeeps, MadeKeeps, LeftKeeps
<1> QED BY <1>1, <1>2 DEF IInv, Rest

LEMMA Inductive == Spec => []IInv
<1> QED BY IInvInit, IInvNext, PTL DEF Spec

-----------------------------------------------------------------------------
(* What it is good for. *)

\* The decorators exclude each other for any set of methods and keys: two
\* calls that run with a common key would both be first in its queue.
THEOREM Exclusive == Spec => []MutualExclusion
<1>1. ASSUME IInv PROVE MutualExclusion
  <2>1. ASSUME NEW c \in Calls, NEW d \in Calls, c # d, Share(c, d),
               phase[c] \in Held, phase[d] \in Held
        PROVE  FALSE
    <3>1. PICK k \in LockKeys[c] : k \in LockKeys[d]
      BY <2>1 DEF Share
    <3> QED BY <1>1, <2>1, <3>1 DEF IInv, HoldersRun
  <2> QED BY <2>1 DEF MutualExclusion, Held
<1> QED BY <1>1, Inductive, PTL

LEMMA StartsInOrder ==
  ASSUME IInv, [Next]_vars, NEW c \in Calls, NEW d \in Calls,
         phase[c] = "waiting", phase'[c] = "running", Share(c, d)
  PROVE  d \notin earlier[c]
<1> USE DEF IInv
<1>1. Granted(c)
  <2>1. ~(\E e \in Calls : Made(e) \/ Left(e))
    BY DEF Made, Left, Held, Ended
  <2> QED BY <2>1, StepKinds DEF Quiet, Held
<1>2. PICK k \in LockKeys[c] : k \in LockKeys[d]
  BY DEF Share
<1>3. queue[k] \in Seq(Calls) /\ k \in Keys /\ queue[k][1] = c
  BY <1>1, <1>2, Queued, LeaveQueue DEF Granted, Pending
<1> SUFFICES ASSUME d \in earlier[c] PROVE FALSE
  OBVIOUS
<1>4. PICK i \in 1 .. Len(queue[k]) : queue[k][i] = d
  BY <1>2, Queued DEF EarlierOrder, In
<1>5. d # c
  BY DEF EarlierOrder
<1>6. i \in Nat /\ i # 1 /\ 1 \in 1 .. (i - 1)
  <2>1. Len(queue[k]) \in Nat /\ i # 1
    BY <1>3, <1>4, <1>5, LenProperties
  <2> QED BY <2>1
<1>7. c \in earlier[d]
  BY <1>3, <1>4, <1>6 DEF QueuesAgree
<1> QED BY <1>7 DEF EarlierOrder

\* A call that needs several locks waits its turn at each of them, and that
\* turn is the same: it never starts before one that was made earlier.
THEOREM InOrder == Spec => NoOvertaking
<1>1. ASSUME IInv, [Next]_vars
      PROVE  [\A c, d \in Calls : phase[c] = "waiting" /\ phase'[c] = "running" /\ Share(c, d)
                => d \notin earlier[c]]_vars
  BY <1>1, StartsInOrder
<1> QED BY <1>1, Inductive, PTL DEF Spec, NoOvertaking

=============================================================================
