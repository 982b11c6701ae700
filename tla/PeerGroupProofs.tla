---------------------------- MODULE PeerGroupProofs ----------------------------
(***************************************************************************)
(* For any launchers, calls, attempts, revisions and faults: at most one   *)
(* room is not closed, and it is the one getGroup() returns.  The reason   *)
(* is that every call closes the room it finds before it makes another,    *)
(* and that only the last call keeps the room it was admitted to.          *)
(*                                                                         *)
(* And a room is connected to whom its snapshot allows.  The reason is     *)
(* that the messages on its socket are in the order of the topologies they *)
(* were sent in, so that no snapshot is stale and no signal comes while    *)
(* the room waits for a master.                                            *)
(***************************************************************************)
EXTENDS PeerGroup, TLAPS

Alive(m) == m.made /\ ~m.closed
NoneAlive == \A r \in Calls : ~Alive(room[r])

\* All that the proof asks of the value of a room: the two fields are there.
HasFields(m) == {"made", "closed"} \subseteq DOMAIN m

-----------------------------------------------------------------------------
(* The methods of a room never reopen it. *)

Onward(m, n) == HasFields(n) /\ (Alive(n) => Alive(m))

LEMMA OnwardTrans ==
  ASSUME NEW m, NEW n, NEW o, Onward(m, n), Onward(n, o)
  PROVE  Onward(m, o)
BY DEF Onward

LEMMA ClosePeersOnward ==
  ASSUME NEW m, HasFields(m), NEW ps
  PROVE  Onward(m, ClosePeers(m, ps))
BY DEF Onward, Alive, HasFields, ClosePeers

LEMMA CloseRoomPeersOnward ==
  ASSUME NEW m, HasFields(m)
  PROVE  Onward(m, CloseRoomPeers(m))
BY ClosePeersOnward DEF CloseRoomPeers

LEMMA ClosedIsClosed ==
  ASSUME NEW m, HasFields(m)
  PROVE  HasFields(Closed(m)) /\ ~Alive(Closed(m))
BY CloseRoomPeersOnward DEF Onward, Alive, HasFields, Closed

LEMMA ShutIsClosed ==
  ASSUME NEW m
  PROVE  HasFields(Shut(m)) /\ ~Alive(Shut(m))
BY DEF Alive, HasFields, Shut, MadeRoom

LEMMA QuitIsClosed ==
  ASSUME NEW m, HasFields(m)
  PROVE  HasFields(Quit(m)) /\ ~Alive(Quit(m))
BY ClosedIsClosed, ShutIsClosed DEF Quit, Alive

LEMMA PostOnward ==
  ASSUME NEW m, HasFields(m), NEW type, NEW p
  PROVE  Onward(m, Post(m, type, p))
BY DEF Onward, Alive, HasFields, Post

LEMMA SentOnward ==
  ASSUME NEW m, HasFields(m), NEW msg
  PROVE  Onward(m, Sent(m, msg))
BY DEF Onward, Alive, HasFields, Sent

LEMMA InitiatedOnward ==
  ASSUME NEW m, HasFields(m)
  PROVE  Onward(m, Initiated(m))
BY DEF Onward, Alive, HasFields, Initiated

LEMMA SettledOnward ==
  ASSUME NEW m, HasFields(m)
  PROVE  Onward(m, Settled(m))
BY DEF Onward, Alive, HasFields, Settled

LEMMA AppliedOnward ==
  ASSUME NEW m, HasFields(m), NEW s
  PROVE  Onward(m, Applied(m, s))
<1> DEFINE kept == ClosePeers(m, m.asked \ s.members)
           cut == IF Rebuilds(m, s) THEN CloseRoomPeers(kept) ELSE kept
           read == [cut EXCEPT !.master = s.master, !.members = s.members,
                               !.status = s.status, !.rev = s.rev, !.snap = TRUE]
<1>1. Onward(m, kept)
  BY ClosePeersOnward
<1>2. Onward(m, cut)
  BY <1>1, CloseRoomPeersOnward DEF Onward
<1>3. Onward(m, read)
  BY <1>2 DEF Onward, Alive, HasFields
<1>4. Onward(m, Initiated(read))
  BY <1>3, InitiatedOnward, OnwardTrans DEF Onward
<1>5. Onward(m, Settled(Initiated(read)))
  BY <1>4, SettledOnward, OnwardTrans DEF Onward
<1> QED BY <1>5 DEF Applied

-----------------------------------------------------------------------------
(* The invariant. *)

Shapes ==
  /\ DOMAIN room = Calls /\ DOMAIN pc = Calls
  /\ \A r \in Calls : HasFields(room[r])

\* Where the last call is, and what it has closed by then.
LastCall ==
  \A c \in Calls : c = operation =>
    /\ pc[c] = "quitting" => NoneAlive
    /\ pc[c] = "admitting" => current = NoCall
    /\ pc[c] = "connecting" => current \in {c, NoCall}

IInv == Shapes /\ LastCall /\ OneLiveRoom

LEMMA AliveIsCurrent ==
  ASSUME IInv, NEW r \in Calls, Alive(room[r])
  PROVE  current = r
BY DEF IInv, OneLiveRoom, Alive

LEMMA NoRoomNoneAlive ==
  ASSUME IInv, current = NoCall
  PROVE  NoneAlive
<1>1. \A r \in Calls : r # NoCall
  BY DEF Calls, NoCall
<1> QED BY <1>1, AliveIsCurrent DEF NoneAlive

LEMMA IInvInit == Init => IInv
<1> SUFFICES ASSUME Init PROVE IInv
  OBVIOUS
<1>1. ASSUME NEW r \in Calls
      PROVE  HasFields(room[r]) /\ ~room[r].made
  BY DEF Init, HasFields, MadeRoom
<1>2. Shapes /\ OneLiveRoom
  BY <1>1 DEF Init, Shapes, OneLiveRoom
<1>3. LastCall
  BY DEF Init, LastCall
<1> QED BY <1>2, <1>3 DEF IInv

\* Steps that close rooms at most, that forget the current room only when it
\* is closed, and that bring no call to one of the three places.
Quiet ==
  /\ operation' = operation
  /\ current' \in {current, NoCall}
  /\ DOMAIN room' = Calls
  /\ \A r \in Calls : /\ HasFields(room'[r])
                      /\ Alive(room'[r]) => Alive(room[r]) /\ (current' = current \/ r # current)
  /\ DOMAIN pc' = Calls
  /\ \A c \in Calls :
       pc'[c] \in {"quitting", "admitting", "connecting"} => pc'[c] = pc[c]

LEMMA QuietKeeps ==
  ASSUME IInv, Quiet
  PROVE  IInv'
<1>1. Shapes'
  BY DEF Quiet, Shapes, HasFields
<1>2. OneLiveRoom'
  BY DEF Quiet, IInv, OneLiveRoom, Alive
<1>3. NoneAlive => NoneAlive'
  BY DEF NoneAlive, Quiet, Alive
<1>4. LastCall'
  BY <1>3 DEF Quiet, IInv, LastCall
<1> QED BY <1>1, <1>2, <1>4 DEF IInv

\* The same for a step that changes one room, by a method of it.
LEMMA RoomGoesOn ==
  ASSUME IInv, NEW r \in Calls, NEW n, Onward(room[r], n),
         room' = [room EXCEPT ![r] = n], UNCHANGED <<operation, pc, current>>
  PROVE  IInv'
<1>1. Quiet
  BY DEF Quiet, IInv, Shapes, Onward
<1> QED BY <1>1, QuietKeeps

LEMMA RoomEnds ==
  ASSUME IInv, NEW r \in Calls, NEW m, EndRoom(r, m), HasFields(m), UNCHANGED <<operation, pc>>
  PROVE  IInv'
<1>1. HasFields(Shut(Closed(m))) /\ ~Alive(Shut(Closed(m)))
  BY ShutIsClosed
<1>2. Quiet
  BY <1>1 DEF EndRoom, Quiet, IInv, Shapes
<1> QED BY <1>2, QuietKeeps

-----------------------------------------------------------------------------
(* The calls. *)

\* quit() of the current room leaves no room open.
LEMMA QuitLeavesNone ==
  ASSUME IInv, room' = RoomsAfterQuit(current)
  PROVE  NoneAlive' /\ DOMAIN room' = Calls /\ \A r \in Calls : HasFields(room'[r])
<1>1. DOMAIN room' = Calls
  BY DEF RoomsAfterQuit
<1>2. ASSUME NEW r \in Calls
      PROVE  HasFields(room'[r]) /\ ~Alive(room'[r])
  <2>1. HasFields(room[r])
    BY DEF IInv, Shapes
  <2>2. room'[r] = IF r = current THEN Quit(room[r]) ELSE room[r]
    BY DEF RoomsAfterQuit
  <2> QED BY <2>1, <2>2, QuitIsClosed, AliveIsCurrent
<1> QED BY <1>1, <1>2 DEF NoneAlive, Alive

\* A call that makes itself the last one and closes the current room.
LEMMA NewCallKeeps ==
  ASSUME IInv, NEW c \in Calls, NextCall(c), room' = RoomsAfterQuit(current),
         NEW place, pc' = [pc EXCEPT ![c] = place],
         place = "admitting" => current' = NoCall, place # "connecting"
  PROVE  IInv'
<1>1. NoneAlive' /\ DOMAIN room' = Calls /\ \A r \in Calls : HasFields(room'[r])
  BY QuitLeavesNone
<1>2. DOMAIN pc' = Calls /\ pc'[c] = place
  BY DEF IInv, Shapes
<1>3. Shapes'
  BY <1>1, <1>2 DEF Shapes, HasFields
<1>4. OneLiveRoom'
  BY <1>1 DEF NoneAlive, OneLiveRoom, Alive
<1>5. LastCall'
  BY <1>1, <1>2 DEF LastCall, NextCall
<1> QED BY <1>3, <1>4, <1>5 DEF IInv

LEMMA EnterFromRoomKeeps ==
  ASSUME IInv, NEW c \in Calls, EnterFromRoom(c)
  PROVE  IInv'
BY NewCallKeeps DEF EnterFromRoom

LEMMA EnterGroupKeeps ==
  ASSUME IInv, NEW c \in Calls, EnterGroup(c)
  PROVE  IInv'
BY NewCallKeeps DEF EnterGroup, Admit

LEMMA LeaveGroupKeeps ==
  ASSUME IInv, NEW c \in Calls, LeaveGroup(c)
  PROVE  IInv'
<1>1. CASE QuitAwaits(current)
  BY <1>1, NewCallKeeps DEF LeaveGroup
<1>2. CASE ~QuitAwaits(current)
  BY <1>2, NewCallKeeps DEF LeaveGroup
<1> QED BY <1>1, <1>2

LEMMA AdmittedKeeps ==
  ASSUME IInv, NEW c \in Calls, Admitted(c)
  PROVE  IInv'
<1> PICK s \in AdmittingRooms :
      LET m == MadeRoom(s)
      IN  IF Stale(c)
          THEN /\ room' = [room EXCEPT ![c] = Shut(Closed(m))]
               /\ pc' = [pc EXCEPT ![c] = IF Deletes(m) THEN "dropping" ELSE "done"]
               /\ quits' = [quits EXCEPT ![c] = IF Deletes(m) THEN c ELSE NoCall]
               /\ UNCHANGED <<current, shown>>
          ELSE /\ room' = [room EXCEPT ![c] = [m EXCEPT !.socket = "opening"]]
               /\ current' = c
               /\ shown' = [group |-> c, state |-> "live"]
               /\ pc' = [pc EXCEPT ![c] = "connecting"]
               /\ UNCHANGED quits
  BY DEF Admitted
<1>1. pc[c] = "admitting" /\ operation' = operation
  BY DEF Admitted
<1>2. CASE Stale(c)
  <2>1. HasFields(Shut(Closed(MadeRoom(s)))) /\ ~Alive(Shut(Closed(MadeRoom(s))))
    BY ShutIsClosed
  <2>2. Quiet
    BY <1>1, <1>2, <2>1 DEF Quiet, IInv, Shapes
  <2> QED BY <2>2, QuietKeeps
<1>3. CASE ~Stale(c)
  <2>1. current = NoCall /\ c = operation
    BY <1>1, <1>3 DEF IInv, LastCall, Stale
  <2>2. NoneAlive
    BY <2>1, NoRoomNoneAlive
  <2>3. HasFields([MadeRoom(s) EXCEPT !.socket = "opening"])
    BY DEF HasFields, MadeRoom
  <2>4. Shapes'
    BY <1>3, <2>3 DEF IInv, Shapes, HasFields
  <2>5. OneLiveRoom'
    BY <1>3, <2>2 DEF IInv, Shapes, NoneAlive, OneLiveRoom, Alive
  <2>6. LastCall'
    BY <1>1, <1>3, <2>1 DEF IInv, Shapes, LastCall
  <2> QED BY <2>4, <2>5, <2>6 DEF IInv
<1> QED BY <1>2, <1>3

LEMMA AdmissionFailsKeeps ==
  ASSUME IInv, NEW c \in Calls, AdmissionFails(c)
  PROVE  IInv'
<1>1. Quiet
  BY DEF AdmissionFails, Quiet, IInv, Shapes
<1> QED BY <1>1, QuietKeeps

LEMMA QuitReturnsKeeps ==
  ASSUME IInv, NEW c \in Calls, QuitReturns(c)
  PROVE  IInv'
<1> DEFINE r == quits[c]
<1>1. /\ room' = [room EXCEPT ![r] = Shut(room[r])]
      /\ operation' = operation
  BY DEF QuitReturns
<1>2. HasFields(Shut(room[r])) /\ ~Alive(Shut(room[r]))
  BY ShutIsClosed
<1>3. /\ DOMAIN room' = Calls
      /\ \A d \in Calls : HasFields(room'[d]) /\ (Alive(room'[d]) => Alive(room[d]))
  BY <1>1, <1>2 DEF IInv, Shapes
<1>4. CASE pc[c] = "quitting" /\ ~Stale(c)
  <2>1. c = operation /\ NoneAlive
    BY <1>4 DEF IInv, LastCall, Stale
  <2>2. pc' = [pc EXCEPT ![c] = "admitting"] /\ current' = NoCall
    BY <1>4 DEF QuitReturns, Admit
  <2>3. Shapes'
    BY <1>3, <2>2 DEF IInv, Shapes, HasFields
  <2>4. OneLiveRoom'
    BY <1>3, <2>1 DEF NoneAlive, OneLiveRoom, Alive
  <2>5. LastCall'
    BY <1>1, <2>1, <2>2 DEF IInv, Shapes, LastCall
  <2> QED BY <2>3, <2>4, <2>5 DEF IInv
<1>5. CASE ~(pc[c] = "quitting" /\ ~Stale(c))
  <2>1. pc' = [pc EXCEPT ![c] = "done"] /\ current' = current
    BY <1>5 DEF QuitReturns
  <2>2. Quiet
    BY <1>1, <1>3, <2>1 DEF Quiet, IInv, Shapes
  <2> QED BY <2>2, QuietKeeps
<1> QED BY <1>4, <1>5

-----------------------------------------------------------------------------
(* Sockets and restore(). *)

LEMMA SocketOpensKeeps ==
  ASSUME IInv, NEW r \in Calls, SocketOpens(r)
  PROVE  IInv'
<1> DEFINE m == [room[r] EXCEPT !.socket = "open", !.inbox = <<Snapshot(room[r].server)>>,
                                !.restore = "no"]
           n == IF pc[r] = "connecting" /\ Stale(r) THEN Quit(m) ELSE m
<1>1. Onward(room[r], m)
  BY DEF IInv, Shapes, Onward, Alive, HasFields
<1>2. Onward(room[r], n)
  BY <1>1, QuitIsClosed DEF Onward
<1>3. room' = [room EXCEPT ![r] = n]
  BY DEF SocketOpens
<1>4. UNCHANGED <<operation, current>>
  BY DEF SocketOpens
<1>5. DOMAIN pc' = Calls /\ \A c \in Calls : pc'[c] = pc[c] \/ pc'[c] = "done"
  BY DEF SocketOpens, IInv, Shapes
<1> HIDE DEF m, n
<1>6. Quiet
  BY <1>2, <1>3, <1>4, <1>5 DEF Quiet, IInv, Shapes, Onward
<1> QED BY <1>6, QuietKeeps

LEMMA ConnectFailsKeeps ==
  ASSUME IInv, NEW r \in Calls, ConnectFails(r)
  PROVE  IInv'
<1> DEFINE m == [room[r] EXCEPT !.socket = "none"]
<1>1. Onward(room[r], m)
  BY DEF IInv, Shapes, Onward, Alive, HasFields
<1>2. HasFields(Quit(m)) /\ ~Alive(Quit(m))
  BY <1>1, QuitIsClosed DEF Onward
<1>3. operation' = operation /\ pc[r] = "connecting"
  BY DEF ConnectFails
<1>4. CASE Stale(r)
  <2>1. /\ room' = [room EXCEPT ![r] = m]
        /\ pc' = [pc EXCEPT ![r] = "done"] /\ current' = current
    BY <1>4 DEF ConnectFails
  <2>2. Quiet
    BY <1>1, <1>3, <2>1 DEF Quiet, IInv, Shapes, Onward
  <2> QED BY <2>2, QuietKeeps
<1>5. CASE ~Stale(r)
  <2>1. current \in {r, NoCall}
    BY <1>3, <1>5 DEF IInv, LastCall, Stale
  <2>2. /\ room' = [room EXCEPT ![r] = Quit(m)]
        /\ pc' = [pc EXCEPT ![r] = IF Deletes(m) THEN "failing" ELSE "done"]
        /\ current' = NoCall
    BY <1>5 DEF ConnectFails
  <2>3. Quiet
    BY <1>2, <1>3, <2>1, <2>2 DEF Quiet, IInv, Shapes
  <2> QED BY <2>3, QuietKeeps
<1> QED BY <1>4, <1>5

LEMMA SocketClosesKeeps ==
  ASSUME IInv, NEW r \in Calls, SocketCloses(r)
  PROVE  IInv'
<1>0. UNCHANGED <<operation, pc>>
  BY DEF SocketCloses
<1> PICK left \in {room[r].server.requests, <<>>} :
      LET m == [room[r] EXCEPT !.socket = "none", !.inbox = <<>>, !.server.requests = left]
      IN  IF m.closed
          THEN room' = [room EXCEPT ![r] = Shut(m)] /\ UNCHANGED <<current, shown>>
          ELSE \/ EndRoom(r, m)
               \/ /\ room' = [room EXCEPT ![r] =
                       [CloseRoomPeers(m) EXCEPT !.pending = NoTransfer,
                                                 !.restore = "asking", !.tries = 0]]
                  /\ shown' = ShowState("live")
                  /\ UNCHANGED current
  BY DEF SocketCloses
<1> DEFINE m == [room[r] EXCEPT !.socket = "none", !.inbox = <<>>, !.server.requests = left]
           n == [CloseRoomPeers(m) EXCEPT !.pending = NoTransfer,
                                          !.restore = "asking", !.tries = 0]
<1>1. Onward(room[r], m)
  BY DEF IInv, Shapes, Onward, Alive, HasFields
<1>2. Onward(room[r], n)
  <2>1. Onward(room[r], CloseRoomPeers(m))
    BY <1>1, CloseRoomPeersOnward, OnwardTrans DEF Onward
  <2> QED BY <2>1 DEF Onward, Alive, HasFields
<1>3. Onward(room[r], Shut(m))
  BY ShutIsClosed DEF Onward
<1>4. \/ room' = [room EXCEPT ![r] = Shut(m)] /\ UNCHANGED current
      \/ EndRoom(r, m)
      \/ room' = [room EXCEPT ![r] = n] /\ UNCHANGED current
  OBVIOUS
<1> HIDE DEF m, n
<1> QED BY <1>0, <1>1, <1>2, <1>3, <1>4, RoomGoesOn, RoomEnds DEF Onward

LEMMA RejoinKeeps ==
  ASSUME IInv, NEW r \in Calls, Rejoin(r)
  PROVE  IInv'
<1> DEFINE n == [room[r] EXCEPT !.restore = "connecting", !.socket = "opening", !.snap = FALSE,
                   !.role = IF room[r].server.master = Me THEN "master" ELSE "member"]
<1>1. Onward(room[r], n)
  BY DEF IInv, Shapes, Onward, Alive, HasFields
<1>2. room' = [room EXCEPT ![r] = n] /\ UNCHANGED <<operation, pc, current>>
  BY DEF Rejoin
<1> QED BY <1>1, <1>2, RoomGoesOn

LEMMA RejoinFailsKeeps ==
  ASSUME IInv, NEW r \in Calls, RejoinFails(r)
  PROVE  IInv'
<1> DEFINE m == [room[r] EXCEPT !.socket = "none", !.tries = @ + 1, !.restore = "asking"]
<1>1. Onward(room[r], m)
  BY DEF IInv, Shapes, Onward, Alive, HasFields
<1>2. UNCHANGED <<operation, pc>>
  BY DEF RejoinFails
<1>3. \/ EndRoom(r, m)
      \/ room' = [room EXCEPT ![r] = m] /\ UNCHANGED current
  BY DEF RejoinFails
<1> HIDE DEF m
<1> QED BY <1>1, <1>2, <1>3, RoomGoesOn, RoomEnds DEF Onward

-----------------------------------------------------------------------------
(* Messages. *)

LEMMA TakeOnward ==
  ASSUME IInv, NEW r \in Calls
  PROVE  HasFields(room[r]) /\ Onward(room[r], Take(r))
BY DEF IInv, Shapes, Onward, Alive, HasFields, Take

LEMMA TakeStateKeeps ==
  ASSUME IInv, NEW r \in Calls, TakeState(r)
  PROVE  IInv'
<1> DEFINE s == Head(room[r].inbox)
           m == Take(r)
<1>1. Onward(room[r], m) /\ Onward(room[r], Applied(m, s))
  BY TakeOnward, AppliedOnward, OnwardTrans DEF Onward
<1>2. UNCHANGED <<operation, pc>>
  BY DEF TakeState
<1>3. \/ room' = [room EXCEPT ![r] = m] /\ UNCHANGED current
      \/ EndRoom(r, m)
      \/ room' = [room EXCEPT ![r] = Applied(m, s)] /\ UNCHANGED current
  BY DEF TakeState
<1> HIDE DEF m, s
<1> QED BY <1>1, <1>2, <1>3, RoomGoesOn, RoomEnds DEF Onward

LEMMA TakeSignalKeeps ==
  ASSUME IInv, NEW r \in Calls, TakeSignal(r)
  PROVE  IInv'
<1> DEFINE p == Head(room[r].inbox).from
           m == Take(r)
           n == IF Ignored(m, p) THEN m
                ELSE [m EXCEPT !.asked = @ \cup {p}, !.links = @ \cup {p}]
<1>1. Onward(room[r], m)
  BY TakeOnward
<1>2. room' = [room EXCEPT ![r] = n] /\ UNCHANGED <<operation, pc, current>>
  BY DEF TakeSignal
<1> HIDE DEF m, p
<1>3. Onward(room[r], n)
  BY <1>1 DEF Onward, Alive, HasFields
<1> QED BY <1>2, <1>3, RoomGoesOn

LEMMA ProtocolFailsKeeps ==
  ASSUME IInv, NEW r \in Calls, ProtocolFails(r)
  PROVE  IInv'
<1>1. Onward(room[r], Take(r))
  BY TakeOnward
<1> QED BY <1>1, RoomGoesOn, RoomEnds DEF ProtocolFails, Onward

LEMMA TakeErrorKeeps ==
  ASSUME IInv, NEW r \in Calls, TakeError(r)
  PROVE  IInv'
<1>1. Onward(room[r], [Take(r) EXCEPT !.pending = NoTransfer])
  BY TakeOnward DEF Onward, Alive, HasFields
<1> QED BY <1>1, RoomGoesOn DEF TakeError

-----------------------------------------------------------------------------
(* The user and the server. *)

LEMMA TransferMasterKeeps ==
  ASSUME IInv, NEW p \in Peers, TransferMaster(p)
  PROVE  IInv'
<1> DEFINE m == room[current]
           n == [Post(m, "transfer", p) EXCEPT !.pending =
                   [to |-> p, since |-> m.rev, master |-> m.master]]
<1>1. room' = [room EXCEPT ![current] = n] /\ UNCHANGED <<operation, pc, current>>
  BY DEF TransferMaster
<1>2. CASE current \in Calls
  <2>1. Onward(m, Post(m, "transfer", p))
    BY <1>2, PostOnward DEF IInv, Shapes
  <2>2. Onward(m, n)
    BY <2>1 DEF Onward, Alive, HasFields
  <2> HIDE DEF n
  <2> QED BY <1>1, <1>2, <2>2, RoomGoesOn
<1>3. CASE current \notin Calls
  <2> HIDE DEF n
  <2>1. Quiet
    BY <1>1, <1>3 DEF Quiet, IInv, Shapes
  <2> QED BY <2>1, QuietKeeps
<1> QED BY <1>2, <1>3

LEMMA TransferTimesOutKeeps ==
  ASSUME IInv, NEW r \in Calls, TransferTimesOut(r)
  PROVE  IInv'
<1>1. Onward(room[r], [room[r] EXCEPT !.pending = NoTransfer])
  BY DEF IInv, Shapes, Onward, Alive, HasFields
<1> QED BY <1>1, RoomGoesOn DEF TransferTimesOut

LEMMA LinkEndsKeeps ==
  ASSUME IInv, NEW r \in Calls, NEW p, LinkEnds(r, p)
  PROVE  IInv'
<1>1. Onward(room[r], ClosePeers(Post(room[r], "remove", p), {p}))
  <2>1. Onward(room[r], Post(room[r], "remove", p))
    BY PostOnward DEF IInv, Shapes
  <2> QED BY <2>1, ClosePeersOnward, OnwardTrans DEF Onward
<1>2. Onward(room[r], [room[r] EXCEPT !.links = room[r].links \ {p}])
  BY DEF IInv, Shapes, Onward, Alive, HasFields
<1> QED BY <1>1, <1>2, RoomGoesOn DEF LinkEnds

\* A topology is sent: to the room as it is, or as its server handled it.
LEMMA ChangeKeeps ==
  ASSUME IInv, NEW r \in Calls, NEW s, Change(r, s)
  PROVE  IInv'
<1> DEFINE t == [s EXCEPT !.rev = @ + 1]
           m == [room[r] EXCEPT !.server = t]
<1>1. Onward(room[r], m)
  BY DEF IInv, Shapes, Onward, Alive, HasFields
<1>2. Onward(room[r], Sent(m, Snapshot(t)))
  BY <1>1, SentOnward, OnwardTrans DEF Onward
<1>3. room' = [room EXCEPT ![r] = Sent(m, Snapshot(t))] /\ UNCHANGED <<operation, pc, current>>
  BY DEF Change
<1> HIDE DEF m, t
<1> QED BY <1>2, <1>3, RoomGoesOn

LEMMA HandleKeeps ==
  ASSUME IInv, NEW r \in Calls, Handle(r)
  PROVE  IInv'
<1> DEFINE q == Head(room[r].server.requests)
           s == [room[r].server EXCEPT !.requests = Tail(@)]
           m == [room[r] EXCEPT !.server = s]
<1>1. Onward(room[r], m)
  BY DEF IInv, Shapes, Onward, Alive, HasFields
<1>2. Onward(room[r], Sent(m, [type |-> "error"]))
  BY <1>1, SentOnward, OnwardTrans DEF Onward
<1>3. \/ /\ room' = [room EXCEPT ![r] = Sent(m, [type |-> "error"])]
         /\ UNCHANGED <<operation, pc, current>>
      \/ Change(r, [s EXCEPT !.master = q.peer])
      \/ Change(r, [s EXCEPT !.members = @ \ {q.peer}])
  BY DEF Handle
<1> HIDE DEF m, s, q
<1> QED BY <1>2, <1>3, ChangeKeeps, RoomGoesOn

LEMMA ServerStepKeeps ==
  ASSUME IInv, NEW r \in Calls, ServerStep(r)
  PROVE  IInv'
<1>1. HasFields(room[r])
  BY DEF IInv, Shapes
<1>2. ASSUME PeerJoins(r) \/ PeerLeaves(r) PROVE IInv'
  BY <1>2, ChangeKeeps DEF PeerJoins, PeerLeaves
<1>3. ASSUME MasterTransfers(r) \/ MasterVanishes(r) \/ MasterFound(r) \/ MasterCloses(r)
      PROVE  IInv'
  BY <1>3, ChangeKeeps DEF MasterTransfers, MasterVanishes, MasterFound, MasterCloses
<1>4. ASSUME Signal(r) \/ Malformed(r) PROVE IInv'
  <2>1. PICK msg :
           /\ room' = [room EXCEPT ![r] = Sent(room[r], msg)]
           /\ UNCHANGED <<operation, pc, current>>
    BY <1>4 DEF Signal, Malformed
  <2> QED BY <1>1, <2>1, SentOnward, RoomGoesOn
<1> QED BY <1>2, <1>3, <1>4, HandleKeeps DEF ServerStep

-----------------------------------------------------------------------------
LEMMA NextKeeps == IInv /\ [Next]_vars => IInv'
<1> SUFFICES ASSUME IInv, [Next]_vars PROVE IInv'
  OBVIOUS
<1>1. CASE UserStep
  BY <1>1, TransferMasterKeeps, TransferTimesOutKeeps, LinkEndsKeeps DEF UserStep
<1>2. ASSUME NEW c \in Calls, CallStep(c) PROVE IInv'
  BY <1>2, EnterFromRoomKeeps, EnterGroupKeeps, LeaveGroupKeeps, AdmittedKeeps,
     AdmissionFailsKeeps, QuitReturnsKeeps DEF CallStep
<1>3. ASSUME NEW r \in Calls, SocketStep(r) PROVE IInv'
  BY <1>3, SocketOpensKeeps, ConnectFailsKeeps, SocketClosesKeeps, RejoinKeeps,
     RejoinFailsKeeps DEF SocketStep
<1>4. ASSUME NEW r \in Calls, MessageStep(r) PROVE IInv'
  BY <1>4, TakeStateKeeps, TakeSignalKeeps, ProtocolFailsKeeps, TakeErrorKeeps DEF MessageStep
<1>5. CASE UNCHANGED vars
  <2>1. Quiet
    BY <1>5 DEF vars, Quiet, IInv, Shapes
  <2> QED BY <2>1, QuietKeeps
<1> QED BY <1>1, <1>2, <1>3, <1>4, <1>5, ServerStepKeeps DEF Next

\* createPeerGroup keeps at most one room open, the one getGroup() returns,
\* however calls, answers, sockets and messages interleave.
THEOREM OneRoom == Spec => []OneLiveRoom
<1>1. IInv => OneLiveRoom
  BY DEF IInv
<1> QED BY <1>1, IInvInit, NextKeeps, PTL DEF Spec

-----------------------------------------------------------------------------
(* Topology.  The types of the fields, and what the methods make of a room. *)

Transfers == [to : Peers \cup {Nobody}, since : 0 .. MaxRevision, master : Peers \cup {Me, Nobody}]

LEMMA RoomFields ==
  ASSUME NEW m \in Rooms
  PROVE  /\ m.inbox \in Seq(Messages) /\ m.rev \in 0 .. MaxRevision /\ m.status \in Statuses
         /\ m.master \in Peers \cup {Me, Nobody} /\ m.members \in SUBSET Peers
         /\ m.asked \in SUBSET Peers /\ m.links \in SUBSET Peers
         /\ m.server \in ServerRooms /\ m.tries \in 0 .. Attempts - 1
         /\ m.pending \in Transfers
BY DEF Rooms, Transfers

LEMMA InboxTyped ==
  ASSUME NEW m \in Rooms, NEW x \in Seq(Messages)
  PROVE  [m EXCEPT !.inbox = x] \in Rooms
BY DEF Rooms

LEMMA PendingTyped ==
  ASSUME NEW m \in Rooms, NEW x \in Transfers
  PROVE  [m EXCEPT !.pending = x] \in Rooms
BY DEF Rooms, Transfers

LEMMA ServerTyped ==
  ASSUME NEW m \in Rooms, NEW x \in ServerRooms
  PROVE  [m EXCEPT !.server = x] \in Rooms
BY DEF Rooms

LEMMA PeersTyped ==
  ASSUME NEW m \in Rooms, NEW x \in SUBSET Peers, NEW y \in SUBSET Peers
  PROVE  [m EXCEPT !.asked = x, !.links = y] \in Rooms
BY DEF Rooms

LEMMA SnapTyped ==
  ASSUME NEW m \in Rooms, NEW s \in Snapshots
  PROVE [m EXCEPT !.master = s.master, !.members = s.members,
                               !.status = s.status, !.rev = s.rev, !.snap = TRUE] \in Rooms
BY DEF Rooms, Snapshots

LEMMA NoTransferTyped == NoTransfer \in Transfers
BY PeerGroupAssumption DEF NoTransfer, Transfers

LEMMA MadeRoomTyped ==
  ASSUME NEW s \in ServerRooms
  PROVE  MadeRoom(s) \in Rooms
<1>1. << >> \in Seq(Messages)
  OBVIOUS
<1>2. "open" \in Statuses /\ 0 \in 0 .. MaxRevision /\ 0 \in 0 .. Attempts - 1
  BY PeerGroupAssumption DEF Statuses
<1>3. (IF s.master = Me THEN "master" ELSE "member") \in {"master", "member"}
  OBVIOUS
<1> QED BY <1>1, <1>2, <1>3, NoTransferTyped DEF MadeRoom, Rooms, Transfers

LEMMA ClosePeersTyped ==
  ASSUME NEW m \in Rooms, NEW ps
  PROVE  ClosePeers(m, ps) \in Rooms
BY DEF ClosePeers, Rooms

LEMMA SentTyped ==
  ASSUME NEW m \in Rooms, NEW msg \in Messages
  PROVE  Sent(m, msg) \in Rooms
<1>1. Append(m.inbox, msg) \in Seq(Messages)
  BY RoomFields
<1> QED BY <1>1, InboxTyped DEF Sent

LEMMA InitiatedTyped ==
  ASSUME NEW m \in Rooms
  PROVE  Initiated(m) \in Rooms
<1> DEFINE new == m.members \ (m.asked \cup m.links)
<1>1. m.asked \cup new \in SUBSET Peers /\ m.links \cup new \in SUBSET Peers
  BY RoomFields
<1>2. [m EXCEPT !.asked = m.asked \cup new, !.links = m.links \cup new] \in Rooms
  BY <1>1, PeersTyped
<1> QED BY <1>2 DEF Initiated

LEMMA SettledTyped ==
  ASSUME NEW m \in Rooms
  PROVE  Settled(m) \in Rooms
BY PendingTyped, NoTransferTyped DEF Settled

LEMMA ShutTyped ==
  ASSUME NEW m \in Rooms
  PROVE  Shut(m) \in Rooms
<1>1. NoServer \in ServerRooms
  BY PeerGroupAssumption DEF NoServer, ServerRooms, Statuses
<1> DEFINE n == MadeRoom(NoServer)
<1>2. n \in Rooms
  BY <1>1, MadeRoomTyped
<1> HIDE DEF n
<1>3. /\ m.links \in SUBSET Peers /\ m.asked \in SUBSET Peers
      /\ (IF m.socket \in {"opening", "aborted"} THEN "aborted" ELSE "none")
           \in {"none", "opening", "open", "aborted"}
  BY RoomFields
<1> QED BY <1>2, <1>3 DEF Shut, Rooms, n

LEMMA ClosedTyped ==
  ASSUME NEW m \in Rooms
  PROVE  Closed(m) \in Rooms
<1>1. CloseRoomPeers(m) \in Rooms
  BY ClosePeersTyped DEF CloseRoomPeers
<1> QED BY <1>1, NoTransferTyped DEF Closed, Rooms, Transfers

-----------------------------------------------------------------------------
(* The invariant of a room, and of the rooms together. *)

\* A message that brings the room out of the wait for a master, or into it.
Opens(x) == x.type = "state" /\ x.status # "waiting"
Waits(x) == x.type = "state" /\ x.status = "waiting"

\* When message j is read, the room does not wait for a master.
OpenAt(m, j) ==
  /\ \A i \in 1 .. j - 1 : Waits(m.inbox[i]) => \E k \in i + 1 .. j - 1 : Opens(m.inbox[k])
  /\ m.snap /\ m.status = "waiting" => \E k \in 1 .. j - 1 : Opens(m.inbox[k])

\* Every snapshot that is on its way is news.
Ordered(m) ==
  /\ m.rev <= m.server.rev
  /\ \A i \in 1 .. Len(m.inbox) : m.inbox[i].type = "state" =>
       /\ m.inbox[i].rev <= m.server.rev
       /\ ~Outdated(m, m.inbox[i])
       /\ \A j \in 1 .. Len(m.inbox) :
            i < j /\ m.inbox[j].type = "state" => m.inbox[i].rev < m.inbox[j].rev

\* Signals are sent, and so read, while the room has a master.
Timely(m) ==
  m.socket = "open" =>
    /\ m.server.status # "waiting" => OpenAt(m, Len(m.inbox) + 1)
    /\ \A j \in 1 .. Len(m.inbox) : m.inbox[j].type = "signal" => OpenAt(m, j)

\* A socket that opens finds no snapshot, one that is not open has no messages.
Offline(m) ==
  /\ m.socket = "opening" => ~m.snap
  /\ m.socket # "open" => m.inbox = <<>>
  /\ m.restore # "no" => m.socket # "open"

\* Connections are those that were asked for, in the snapshot there is.
Linked(m) ==
  /\ m.links \subseteq m.asked
  /\ ~m.snap \/ m.socket # "open" \/ m.status = "waiting" => m.asked = {}
  /\ m.asked \subseteq IF m.master = Me THEN m.members ELSE {m.master}

Follows(m) == Ordered(m) /\ Timely(m) /\ Offline(m) /\ Linked(m)

Owned(m) == m.server.status # "closed" => m.server.master # Nobody

Sound(m) == m \in Rooms /\ Owned(m) /\ (~m.closed => Follows(m))

TopologyInv == TypeOK /\ \A r \in Calls : Sound(room[r])

-----------------------------------------------------------------------------
LEMMA ShutSound == ASSUME NEW m \in Rooms PROVE Sound(Shut(m))
<1>1. Shut(m) \in Rooms
  BY ShutTyped
<1>2. Owned(Shut(m)) /\ Shut(m).closed
  BY DEF Owned, Shut, MadeRoom, NoServer
<1> QED BY <1>1, <1>2 DEF Sound

LEMMA ClosedSound == ASSUME NEW m \in Rooms, Owned(m) PROVE Sound(Closed(m))
<1>1. Closed(m) \in Rooms
  BY ClosedTyped
<1>2. Closed(m).closed /\ Closed(m).server = m.server
  BY DEF Closed, CloseRoomPeers, ClosePeers, Rooms
<1> QED BY <1>1, <1>2 DEF Sound, Owned

LEMMA QuitSound == ASSUME NEW m \in Rooms, Owned(m) PROVE Sound(Quit(m))
<1>1. CASE m.closed
  BY <1>1 DEF Quit, Sound
<1>2. CASE ~m.closed
  BY <1>2, ClosedSound, ShutSound, ClosedTyped DEF Quit
<1> QED BY <1>1, <1>2

LEMMA MadeSound ==
  ASSUME NEW s \in ServerRooms, Owned([server |-> s]), NEW x \in {"none", "opening"}
  PROVE  Sound([MadeRoom(s) EXCEPT !.socket = x])
<1> DEFINE m == [MadeRoom(s) EXCEPT !.socket = x]
<1>1. m \in Rooms
  BY MadeRoomTyped DEF Rooms
<1>2. /\ m.inbox = << >> /\ m.rev = 0 /\ m.snap = FALSE /\ m.socket = x /\ m.restore = "no"
      /\ m.links = {} /\ m.asked = {} /\ m.server = s
  BY DEF MadeRoom
<1>3. Owned(m)
  BY <1>2 DEF Owned
<1> HIDE DEF m
<1>4. Ordered(m)
  BY <1>2 DEF Ordered, ServerRooms
<1>5. Timely(m) /\ Offline(m) /\ Linked(m)
  BY <1>2 DEF Timely, Offline, Linked
<1> QED BY <1>1, <1>3, <1>4, <1>5 DEF Sound, Follows, m

\* The messages, the snapshot and the topology are the same.
Fields(m, n) ==
  /\ n.inbox = m.inbox /\ n.rev = m.rev /\ n.snap = m.snap /\ n.status = m.status
  /\ n.master = m.master /\ n.members = m.members /\ n.socket = m.socket /\ n.restore = m.restore
  /\ n.server.rev = m.server.rev /\ n.server.status = m.server.status
  /\ n.server.master = m.server.master
  /\ n.closed = m.closed

\* A room that loses connections at most.
LEMMA SameSound ==
  ASSUME NEW m, NEW n \in Rooms, Sound(m), Fields(m, n), n.asked \subseteq m.asked, 
         n.links \subseteq m.links, n.links \subseteq n.asked
  PROVE  Sound(n)
<1>1. Owned(n)
  BY DEF Sound, Owned, Fields
<1> SUFFICES ASSUME ~n.closed PROVE Follows(n)
  BY <1>1 DEF Sound
<1>2. Follows(m)
  BY DEF Sound, Fields
<1>3. \A x : Outdated(n, x) = Outdated(m, x)
  BY DEF Outdated, Fields
<1>4. \A j : OpenAt(n, j) = OpenAt(m, j)
  BY DEF OpenAt, Fields
<1>5. Ordered(n)
  BY <1>2, <1>3 DEF Follows, Ordered, Fields
<1>6. Timely(n)
  BY <1>2, <1>4 DEF Follows, Timely, Fields
<1>7. Offline(n) /\ Linked(n)
  BY <1>2 DEF Follows, Offline, Linked, Fields
<1> QED BY <1>5, <1>6, <1>7 DEF Follows

-----------------------------------------------------------------------------
(* Messages are read. *)

LEMMA HeadTyped ==
  ASSUME NEW m \in Rooms, m.inbox # << >>
  PROVE  /\ Head(m.inbox) \in Messages
         /\ Len(m.inbox) \in Nat \ {0} /\ m.inbox[1] = Head(m.inbox)
         /\ Tail(m.inbox) \in Seq(Messages)
         /\ Len(Tail(m.inbox)) = Len(m.inbox) - 1
         /\ \A i \in 1 .. Len(m.inbox) - 1 : Tail(m.inbox)[i] = m.inbox[i + 1]
<1>1. m.inbox \in Seq(Messages)
  BY RoomFields
<1> QED BY <1>1

LEMMA StateTyped ==
  ASSUME NEW x \in Messages, x.type = "state"
  PROVE  x \in Snapshots
BY DEF Messages, Snapshots

\* A message that is no snapshot leaves the others as they are.
LEMMA TakenSound ==
  ASSUME NEW m, Sound(m), m.inbox # << >>, Head(m.inbox).type # "state"
  PROVE  Sound([m EXCEPT !.inbox = Tail(@)])
<1> DEFINE n == [m EXCEPT !.inbox = Tail(m.inbox)]
           L == Len(m.inbox)
<1>0. m \in Rooms
  BY DEF Sound
<1>1. n \in Rooms
  BY <1>0, HeadTyped, InboxTyped
<1>2. /\ n.inbox = Tail(m.inbox) /\ n.rev = m.rev /\ n.snap = m.snap /\ n.status = m.status
      /\ n.master = m.master /\ n.members = m.members /\ n.socket = m.socket /\ n.restore = m.restore
      /\ n.server = m.server /\ n.closed = m.closed /\ n.asked = m.asked /\ n.links = m.links
  BY <1>0 DEF Rooms
<1>3. /\ L \in Nat \ {0} /\ Len(n.inbox) = L - 1 /\ ~Opens(m.inbox[1])
      /\ \A i \in 1 .. L - 1 : n.inbox[i] = m.inbox[i + 1]
  BY <1>0, <1>2, HeadTyped DEF Opens
<1> HIDE DEF n, L
<1>4. Owned(n)
  BY <1>2 DEF Sound, Owned
<1> SUFFICES ASSUME ~m.closed PROVE Follows(n)
  BY <1>1, <1>2, <1>4 DEF Sound, n
<1>5. Follows(m)
  BY DEF Sound
<1>6. \A x : Outdated(n, x) = Outdated(m, x)
  BY <1>2 DEF Outdated
<1>7. Ordered(n)
  <2>1. ASSUME NEW i \in 1 .. L - 1, n.inbox[i].type = "state"
        PROVE  /\ n.inbox[i].rev <= n.server.rev
               /\ ~Outdated(n, n.inbox[i])
               /\ \A j \in 1 .. L - 1 :
                    i < j /\ n.inbox[j].type = "state" => n.inbox[i].rev < n.inbox[j].rev
    <3>1. i + 1 \in 1 .. L
      BY <1>3
    <3>2. \A j \in 1 .. L - 1 : j + 1 \in 1 .. L /\ (i < j => i + 1 < j + 1)
      BY <1>3
    <3> QED BY <1>2, <1>3, <1>5, <1>6, <2>1, <3>1, <3>2 DEF Follows, Ordered, L
  <2> QED BY <1>2, <1>3, <1>5, <2>1 DEF Follows, Ordered
<1>8. ASSUME NEW j \in 1 .. L, OpenAt(m, j + 1) PROVE OpenAt(n, j)
  <2>1. ASSUME NEW i \in 1 .. j - 1, Waits(n.inbox[i])
        PROVE  \E k \in i + 1 .. j - 1 : Opens(n.inbox[k])
    <3>1. i + 1 \in 1 .. (j + 1) - 1 /\ Waits(m.inbox[i + 1])
      BY <1>3, <2>1
    <3>2. PICK k \in (i + 1) + 1 .. (j + 1) - 1 : Opens(m.inbox[k])
      BY <1>8, <3>1 DEF OpenAt
    <3>3. k - 1 \in i + 1 .. j - 1 /\ k - 1 \in 1 .. L - 1 /\ (k - 1) + 1 = k
      BY <1>3, <3>2
    <3> QED BY <1>3, <3>2, <3>3
  <2>2. ASSUME n.snap, n.status = "waiting"
        PROVE  \E k \in 1 .. j - 1 : Opens(n.inbox[k])
    <3>1. PICK k \in 1 .. (j + 1) - 1 : Opens(m.inbox[k])
      BY <1>2, <1>8, <2>2 DEF OpenAt
    <3>2. k - 1 \in 1 .. j - 1 /\ k - 1 \in 1 .. L - 1 /\ (k - 1) + 1 = k
      BY <1>3, <3>1
    <3> QED BY <1>3, <3>1, <3>2
  <2> QED BY <2>1, <2>2 DEF OpenAt
<1>9. Timely(n)
  <2> SUFFICES ASSUME n.socket = "open" 
               PROVE /\ n.server.status # "waiting" => OpenAt(n, L)
                     /\ \A j \in 1 .. L - 1 : n.inbox[j].type = "signal" => OpenAt(n, j)
    BY <1>3 DEF Timely
  <2>1. \A j \in 1 .. L - 1 : j + 1 \in 1 .. L /\ j \in 1 .. L
    BY <1>3
  <2>2. L \in 1 .. L /\ m.socket = "open" /\ Len(m.inbox) = L
    BY <1>2, <1>3 DEF L
  <2>3. n.server.status # "waiting" => OpenAt(m, L + 1)
    BY <1>2, <1>5, <2>2 DEF Follows, Timely
  <2>4. ASSUME NEW j \in 1 .. L - 1, n.inbox[j].type = "signal" PROVE OpenAt(m, j + 1)
    BY <1>3, <1>5, <2>1, <2>2, <2>4 DEF Follows, Timely
  <2> QED BY <1>8, <2>1, <2>2, <2>3, <2>4
<1>10. Offline(n) /\ Linked(n)
  BY <1>0, <1>2, <1>5, HeadTyped DEF Follows, Offline, Linked
<1> QED BY <1>7, <1>9, <1>10 DEF Follows


\* What closing and making connections, and settling a transfer, leave alone.
Kept(m, n) ==
  /\ n \in Rooms
  /\ n.master = m.master /\ n.members = m.members /\ n.status = m.status
  /\ n.rev = m.rev /\ n.snap = m.snap /\ n.inbox = m.inbox /\ n.socket = m.socket
  /\ n.restore = m.restore /\ n.server = m.server /\ n.closed = m.closed

LEMMA ClosePeersKept ==
  ASSUME NEW m \in Rooms, NEW ps
  PROVE  Kept(m, ClosePeers(m, ps))
<1>1. ClosePeers(m, ps) \in Rooms
  BY ClosePeersTyped
<1> QED BY <1>1 DEF Kept, ClosePeers, Rooms

LEMMA InitiatedKept ==
  ASSUME NEW m \in Rooms
  PROVE  Kept(m, Initiated(m))
<1>1. Initiated(m) \in Rooms
  BY InitiatedTyped
<1> QED BY <1>1 DEF Kept, Initiated

LEMMA SettledKept ==
  ASSUME NEW m \in Rooms
  PROVE  Kept(m, Settled(m)) /\ Settled(m).asked = m.asked /\ Settled(m).links = m.links
<1>1. Settled(m) \in Rooms
  BY SettledTyped
<1> QED BY <1>1 DEF Kept, Settled, Rooms

\* m with the snapshot s
Read(m, s) == [m EXCEPT !.master = s.master, !.members = s.members,
                        !.status = s.status, !.rev = s.rev, !.snap = TRUE]

LEMMA ReadFields ==
  ASSUME NEW m \in Rooms, NEW s \in Snapshots
  PROVE  LET n == Read(m, s)
         IN  /\ n \in Rooms /\ n.links = m.links /\ n.asked = m.asked
             /\ n.master = s.master /\ n.members = s.members /\ n.status = s.status
             /\ n.rev = s.rev /\ n.snap = TRUE /\ n.inbox = m.inbox /\ n.socket = m.socket
             /\ n.restore = m.restore /\ n.server = m.server /\ n.closed = m.closed
<1>1. Read(m, s) \in Rooms
  BY SnapTyped DEF Read
<1>2. DOMAIN m = {"made", "closed", "role", "socket", "inbox", "restore", "tries", "snap", "rev",
                  "status", "master", "members", "asked", "links", "pending", "server"}
  BY DEF Rooms
<1> QED BY <1>1, <1>2 DEF Read

\* The connections a snapshot leaves, before new ones are made.
Cut(m, s) ==
  LET kept == ClosePeers(m, m.asked \ s.members)
  IN  IF Rebuilds(m, s) THEN CloseRoomPeers(kept) ELSE kept

LEMMA AppliedParts ==
  ASSUME NEW m, NEW s
  PROVE  Applied(m, s) = Settled(Initiated(Read(Cut(m, s), s)))
BY DEF Applied, Read, Cut

LEMMA CutKept ==
  ASSUME NEW m \in Rooms, NEW s
  PROVE  Kept(m, Cut(m, s))
<1>1. Kept(m, ClosePeers(m, m.asked \ s.members))
  BY ClosePeersKept
<1>2. Kept(ClosePeers(m, m.asked \ s.members), CloseRoomPeers(ClosePeers(m, m.asked \ s.members)))
  BY <1>1, ClosePeersKept DEF CloseRoomPeers, Kept
<1> QED BY <1>1, <1>2 DEF Cut, Kept

LEMMA AppliedFields ==
  ASSUME NEW m \in Rooms, NEW s \in Snapshots
  PROVE  LET n == Applied(m, s)
         IN  /\ n \in Rooms
             /\ n.master = s.master /\ n.members = s.members /\ n.status = s.status
             /\ n.rev = s.rev /\ n.snap = TRUE /\ n.inbox = m.inbox /\ n.socket = m.socket
             /\ n.restore = m.restore /\ n.server = m.server /\ n.closed = m.closed
<1> DEFINE cut == Cut(m, s)
           read == Read(cut, s)
<1>1. Kept(m, cut)
  BY CutKept
<1>2. /\ read \in Rooms
      /\ read.master = s.master /\ read.members = s.members /\ read.status = s.status
      /\ read.rev = s.rev /\ read.snap = TRUE /\ read.inbox = cut.inbox /\ read.socket = cut.socket
      /\ read.restore = cut.restore /\ read.server = cut.server /\ read.closed = cut.closed
  BY <1>1, ReadFields DEF Kept
<1>3. Kept(read, Initiated(read)) /\ Kept(Initiated(read), Settled(Initiated(read)))
  BY <1>2, InitiatedKept, SettledKept DEF Kept
<1> HIDE DEF read, cut
<1> QED BY <1>1, <1>2, <1>3, AppliedParts DEF Kept, read, cut

LEMMA AppliedLinks ==
  ASSUME NEW m \in Rooms, NEW s \in Snapshots, Linked(m), s.status # "closed"
  PROVE  LET n == Applied(m, s)
         IN  /\ n.links \subseteq n.asked
             /\ n.status = "waiting" => n.asked = {}
             /\ n.asked \subseteq IF n.master = Me THEN n.members ELSE {n.master}
<1> DEFINE kept == ClosePeers(m, m.asked \ s.members)
           cut == Cut(m, s)
           read == Read(cut, s)
           n == Applied(m, s)
<1>1. /\ kept \in Rooms
      /\ kept.links = m.links \ (m.asked \ s.members) /\ kept.asked = m.asked \ (m.asked \ s.members)
  BY ClosePeersTyped DEF ClosePeers, Rooms
<1>2. kept.links \subseteq kept.asked /\ kept.asked \subseteq m.asked \cap s.members
  BY <1>1 DEF Linked
<1>3. CloseRoomPeers(kept).links = {} /\ CloseRoomPeers(kept).asked = {}
  BY <1>1, <1>2 DEF CloseRoomPeers, ClosePeers, Rooms
<1>4. /\ cut \in Rooms /\ cut.links \subseteq cut.asked /\ cut.asked \subseteq m.asked \cap s.members
      /\ Rebuilds(m, s) => cut.asked = {}
  BY <1>1, <1>2, <1>3, ClosePeersTyped DEF CloseRoomPeers, Cut
<1> HIDE DEF cut
<1>5. /\ read \in Rooms /\ read.links = cut.links /\ read.asked = cut.asked
      /\ read.master = s.master /\ read.members = s.members /\ read.status = s.status
  BY <1>4, ReadFields
<1>6. cut.asked \subseteq IF s.master = Me THEN s.members ELSE {s.master}
  <2>1. CASE m.master = Nobody
    <3>1. Nobody \notin s.members /\ Me # Nobody
      BY PeerGroupAssumption DEF Snapshots, Me, Nobody
    <3> QED BY <1>4, <2>1, <3>1 DEF Linked
  <2>2. CASE m.master # Nobody /\ m.master # s.master
    BY <1>4, <2>2 DEF Rebuilds
  <2>3. CASE m.master = s.master
    BY <1>4, <2>3 DEF Linked
  <2> QED BY <2>1, <2>2, <2>3
<1> HIDE DEF read
<1>7. LET i == Initiated(read)
      IN  /\ i.links \subseteq i.asked
          /\ s.status = "waiting" => i.asked = {}
          /\ i.asked \subseteq IF s.master = Me THEN s.members ELSE {s.master}
  BY <1>4, <1>5, <1>6 DEF Initiated, Rebuilds, Rooms
<1>8. n.links = Initiated(read).links /\ n.asked = Initiated(read).asked
  BY <1>5, InitiatedTyped, SettledKept, AppliedParts DEF read, cut
<1>9. n.master = s.master /\ n.members = s.members /\ n.status = s.status
  BY AppliedFields
<1> QED BY <1>7, <1>8, <1>9

\* A snapshot is applied.
LEMMA AppliedSound ==
  ASSUME NEW m, Sound(m), ~m.closed, m.socket = "open", m.inbox # << >>,
         NEW s, s = Head(m.inbox), s.type = "state", s.status # "closed"
  PROVE  Sound(Applied([m EXCEPT !.inbox = Tail(@)], s))
<1> DEFINE t == [m EXCEPT !.inbox = Tail(m.inbox)]
           n == Applied(t, s)
           L == Len(m.inbox)
<1>0. m \in Rooms /\ Follows(m) /\ s \in Snapshots
  BY HeadTyped, StateTyped DEF Sound
<1>1. t \in Rooms /\ t.inbox = Tail(m.inbox)
  BY <1>0, HeadTyped, InboxTyped DEF Rooms
<1>2. /\ t.snap = m.snap /\ t.status = m.status /\ t.socket = m.socket /\ t.closed = m.closed
      /\ t.master = m.master /\ t.members = m.members /\ t.restore = m.restore
      /\ t.server = m.server /\ t.asked = m.asked /\ t.links = m.links
  BY <1>0 DEF Rooms
<1>3. Linked(t)
  BY <1>0, <1>2 DEF Follows, Linked
<1>4. /\ n \in Rooms /\ n.status = s.status /\ n.rev = s.rev /\ n.snap = TRUE
      /\ n.inbox = Tail(m.inbox) /\ n.socket = "open" /\ n.restore = m.restore
      /\ n.server = m.server /\ n.closed = m.closed
  BY <1>0, <1>1, <1>2, AppliedFields
<1>5. Linked(n)
  BY <1>0, <1>1, <1>3, <1>4, AppliedLinks DEF Linked
<1> HIDE DEF n
<1>6. /\ L \in Nat \ {0} /\ Len(n.inbox) = L - 1 /\ m.inbox[1] = s
      /\ \A i \in 1 .. L - 1 : n.inbox[i] = m.inbox[i + 1]
  BY <1>0, <1>4, HeadTyped
<1>t. \A i \in 1 .. L : m.inbox[i] \in Messages
  BY <1>0, RoomFields
<1> HIDE DEF L
<1>7. Ordered(n)
  <2>1. s.rev <= m.server.rev /\ s.rev \in Nat
    BY <1>0, <1>6 DEF Follows, Ordered, Snapshots, L
  <2>2. ASSUME NEW i \in 1 .. L - 1, n.inbox[i].type = "state"
        PROVE  /\ n.inbox[i].rev <= n.server.rev
               /\ ~Outdated(n, n.inbox[i])
               /\ \A j \in 1 .. L - 1 :
                    i < j /\ n.inbox[j].type = "state" => n.inbox[i].rev < n.inbox[j].rev
    <3>1. i + 1 \in 1 .. L /\ 1 \in 1 .. L /\ 1 < i + 1
      BY <1>6
    <3>2. \A j \in 1 .. L - 1 : j + 1 \in 1 .. L /\ (i < j => i + 1 < j + 1)
      BY <1>6
    <3>3. n.inbox[i].rev <= n.server.rev /\ s.rev < n.inbox[i].rev
      BY <1>0, <1>4, <1>6, <2>2, <3>1 DEF Follows, Ordered, L
    <3>4. n.inbox[i] \in Snapshots
      BY <1>t, <1>6, <2>2, <3>1, StateTyped
    <3>5. ~Outdated(n, n.inbox[i])
      <4>1. n.inbox[i].rev \in Nat
        BY <3>4 DEF Snapshots
      <4>2. n.rev = s.rev
        BY <1>4
      <4> QED BY <2>1, <3>3, <4>1, <4>2 DEF Outdated
    <3>6. ASSUME NEW j \in 1 .. L - 1, i < j, n.inbox[j].type = "state"
          PROVE  n.inbox[i].rev < n.inbox[j].rev
      BY <1>0, <1>6, <2>2, <3>1, <3>2, <3>6 DEF Follows, Ordered, L
    <3> QED BY <3>3, <3>5, <3>6
  <2> QED BY <1>4, <1>6, <2>1, <2>2 DEF Ordered
<1>8. ASSUME NEW j \in 1 .. L, OpenAt(m, j + 1) PROVE OpenAt(n, j)
  <2>1. ASSUME NEW i \in 1 .. j, Waits(m.inbox[i])
        PROVE  \E k \in i .. j - 1 : Opens(n.inbox[k])
    <3>1. i \in 1 .. (j + 1) - 1
      BY <1>6
    <3>2. PICK k \in i + 1 .. (j + 1) - 1 : Opens(m.inbox[k])
      BY <1>8, <2>1, <3>1 DEF OpenAt
    <3>3. k - 1 \in i .. j - 1 /\ k - 1 \in 1 .. L - 1 /\ (k - 1) + 1 = k
      BY <1>6, <3>2
    <3> QED BY <1>6, <3>2, <3>3
  <2>2. ASSUME NEW i \in 1 .. j - 1, Waits(n.inbox[i])
        PROVE  \E k \in i + 1 .. j - 1 : Opens(n.inbox[k])
    <3>1. i + 1 \in 1 .. j /\ Waits(m.inbox[i + 1])
      BY <1>6, <2>2
    <3> QED BY <2>1, <3>1
  <2>3. n.status = "waiting" => \E k \in 1 .. j - 1 : Opens(n.inbox[k])
    <3>1. 1 \in 1 .. j /\ (n.status = "waiting" => Waits(m.inbox[1]))
      BY <1>4, <1>6 DEF Waits
    <3> QED BY <2>1, <3>1
  <2> QED BY <2>2, <2>3 DEF OpenAt
<1>9. Timely(n)
  <2>1. L \in 1 .. L /\ \A j \in 1 .. L - 1 : j + 1 \in 1 .. L /\ j \in 1 .. L
    BY <1>6
  <2>2. n.server.status # "waiting" => OpenAt(m, L + 1)
    BY <1>0, <1>4 DEF Follows, Timely, L
  <2>3. ASSUME NEW j \in 1 .. L - 1, n.inbox[j].type = "signal" PROVE OpenAt(m, j + 1)
    BY <1>0, <1>6, <2>1, <2>3 DEF Follows, Timely, L
  <2>4. /\ n.server.status # "waiting" => OpenAt(n, L)
        /\ \A j \in 1 .. L - 1 : n.inbox[j].type = "signal" => OpenAt(n, j)
    BY <1>8, <2>1, <2>2, <2>3
  <2>5. Len(n.inbox) + 1 = L
    BY <1>6
  <2> QED BY <1>6, <2>4, <2>5 DEF Timely
<1>10. Offline(n)
  BY <1>0, <1>4 DEF Follows, Offline
<1>11. Owned(n)
  BY <1>4 DEF Sound, Owned
<1> QED BY <1>4, <1>5, <1>7, <1>9, <1>10, <1>11 DEF Sound, Follows, n

\* The offer of a member is read, by its master, or by the member of that master.
LEMMA SignalSound ==
  ASSUME NEW m, Sound(m), m.inbox # << >>, Head(m.inbox).type = "signal", m.socket = "open",
         NEW p \in Peers, m.snap, p \in m.members,
         ~Ignored([m EXCEPT !.inbox = Tail(@)], p)
  PROVE  Sound([[m EXCEPT !.inbox = Tail(@)] EXCEPT !.asked = @ \cup {p}, !.links = @ \cup {p}])
<1> DEFINE t == [m EXCEPT !.inbox = Tail(m.inbox)]
           n == [t EXCEPT !.asked = t.asked \cup {p}, !.links = t.links \cup {p}]
<1>1. Sound(t)
  BY TakenSound
<1>2. t \in Rooms /\ m \in Rooms /\ t.asked \in SUBSET Peers /\ t.links \in SUBSET Peers
  BY <1>1, RoomFields DEF Sound
<1>3. /\ t.snap = m.snap /\ t.members = m.members /\ t.master = m.master /\ t.status = m.status
      /\ t.closed = m.closed /\ t.socket = m.socket
  BY <1>2 DEF Rooms
<1> HIDE DEF t
<1>4. n \in Rooms
  BY <1>2, PeersTyped
<1>5. /\ n.asked = t.asked \cup {p} /\ n.links = t.links \cup {p}
      /\ n.master = t.master /\ n.members = t.members /\ n.status = t.status
      /\ n.rev = t.rev /\ n.snap = t.snap /\ n.inbox = t.inbox /\ n.socket = t.socket
      /\ n.restore = t.restore /\ n.server = t.server /\ n.closed = t.closed
  BY <1>2 DEF Rooms
<1> HIDE DEF n
<1>6. ~n.closed => Follows(n)
  <2> SUFFICES ASSUME ~n.closed PROVE Follows(n)
    OBVIOUS
  <2>1. Follows(t) /\ Follows(m)
    BY <1>1, <1>3, <1>5 DEF Sound
  <2>2. \A x : Outdated(n, x) = Outdated(t, x)
    BY <1>5 DEF Outdated
  <2>3. \A j : OpenAt(n, j) = OpenAt(t, j)
    BY <1>5 DEF OpenAt
  <2>4. Ordered(n) /\ Offline(n)
    BY <1>5, <2>1, <2>2 DEF Follows, Ordered, Offline
  <2>5. Timely(n)
    BY <1>5, <2>1, <2>3 DEF Follows, Timely
  <2>6. m.status # "waiting"
    <3>1. 1 \in 1 .. Len(m.inbox) /\ m.inbox[1].type = "signal"
      BY <1>2, HeadTyped
    <3>2. OpenAt(m, 1)
      BY <2>1, <3>1 DEF Follows, Timely
    <3> QED BY <3>2 DEF OpenAt
  <2>7. p \in IF m.master = Me THEN m.members ELSE {m.master}
    BY <1>3 DEF Ignored, IsMaster, t
  <2>8. Linked(n)
    BY <1>3, <1>5, <2>1, <2>6, <2>7 DEF Follows, Linked
  <2> QED BY <2>4, <2>5, <2>8 DEF Follows
<1>7. Owned(n)
  BY <1>1, <1>5 DEF Sound, Owned
<1> QED BY <1>4, <1>6, <1>7 DEF Sound, n, t

-----------------------------------------------------------------------------
(* Messages are sent. *)

\* What m was when message j is read, n is with one more message.
LEMMA OpenAtLonger ==
  ASSUME NEW m, m.inbox \in Seq(Messages), NEW n, NEW msg, n.inbox = Append(m.inbox, msg),
         n.snap = m.snap, n.status = m.status, NEW j \in 1 .. Len(m.inbox) + 1, OpenAt(m, j)
  PROVE  OpenAt(n, j)
<1>1. \A k \in 1 .. Len(m.inbox) : n.inbox[k] = m.inbox[k]
  OBVIOUS
<1>2. \A i \in 1 .. j - 1 : i \in 1 .. Len(m.inbox)
                            /\ \A k \in i + 1 .. j - 1 : k \in 1 .. Len(m.inbox)
  OBVIOUS
<1> QED BY <1>1, <1>2 DEF OpenAt

\* A message that is no snapshot.
LEMMA OtherSent ==
  ASSUME NEW m, Sound(m), NEW msg \in Messages, msg.type # "state",
         msg.type = "signal" => m.server.status # "waiting"
  PROVE  Sound(Sent(m, msg))
<1>1. CASE m.socket # "open"
  BY <1>1 DEF Sent
<1>2. CASE m.socket = "open"
  <2> DEFINE n == [m EXCEPT !.inbox = Append(m.inbox, msg)]
             L == Len(m.inbox)
  <2>1. m \in Rooms /\ m.inbox \in Seq(Messages) /\ Append(m.inbox, msg) \in Seq(Messages)
    BY RoomFields DEF Sound
  <2>2. n \in Rooms
    BY <2>1, InboxTyped
  <2>3. /\ n.inbox = Append(m.inbox, msg) /\ n.rev = m.rev /\ n.snap = m.snap /\ n.status = m.status
        /\ n.master = m.master /\ n.members = m.members /\ n.socket = m.socket /\ n.restore = m.restore
        /\ n.server = m.server /\ n.closed = m.closed /\ n.asked = m.asked /\ n.links = m.links
    BY <2>1 DEF Rooms
  <2> HIDE DEF n
  <2>4. /\ L \in Nat /\ Len(n.inbox) = L + 1 /\ n.inbox[L + 1] = msg
        /\ \A i \in 1 .. L : n.inbox[i] = m.inbox[i]
        /\ ~Waits(msg) /\ ~Opens(msg)
    BY <2>1, <2>3 DEF Waits, Opens
  <2>5. Owned(n)
    BY <2>3 DEF Sound, Owned
  <2>6. ASSUME ~n.closed PROVE Follows(n)
    <3>1. Follows(m)
      BY <2>3, <2>6 DEF Sound
    <3>2. \A x : Outdated(n, x) = Outdated(m, x)
      BY <2>3 DEF Outdated
    <3>3. \A i \in 1 .. L + 1 : i \in 1 .. L \/ i = L + 1
      BY <2>4
    <3>4. Ordered(n)
      BY <2>3, <2>4, <3>1, <3>2, <3>3 DEF Follows, Ordered
    <3>5. \A j \in 1 .. L + 1 : OpenAt(m, j) => OpenAt(n, j)
      BY <2>1, <2>3, OpenAtLonger
    <3>6. ASSUME n.server.status # "waiting" PROVE OpenAt(n, L + 1) /\ OpenAt(n, L + 2)
      <4>1. OpenAt(m, L + 1) /\ L + 1 \in 1 .. L + 1
        BY <1>2, <2>3, <2>4, <3>1, <3>6 DEF Follows, Timely
      <4>2. OpenAt(n, L + 1)
        BY <3>5, <4>1
      <4>3. \A i \in 1 .. (L + 2) - 1 : i \in 1 .. (L + 1) - 1 \/ i = L + 1
        BY <2>4
      <4>4. \A i \in 1 .. (L + 2) - 1 : \A k \in i + 1 .. (L + 1) - 1 : k \in i + 1 .. (L + 2) - 1
        BY <2>4
      <4>5. \A k \in 1 .. (L + 1) - 1 : k \in 1 .. (L + 2) - 1
        BY <2>4
      <4>6. OpenAt(n, L + 2)
        BY <2>4, <4>2, <4>3, <4>4, <4>5 DEF OpenAt
      <4> QED BY <4>2, <4>6
    <3>7. Timely(n)
      <4>1. \A j \in 1 .. L : n.inbox[j].type = "signal" => OpenAt(n, j)
        BY <1>2, <2>4, <3>1, <3>3, <3>5 DEF Follows, Timely
      <4>2. n.inbox[L + 1].type = "signal" => OpenAt(n, L + 1)
        BY <2>3, <2>4, <3>6
      <4>3. (L + 1) + 1 = L + 2
        BY <2>4
      <4> QED BY <2>4, <3>3, <3>6, <4>1, <4>2, <4>3 DEF Timely
    <3>8. Offline(n) /\ Linked(n)
      BY <1>2, <2>3, <3>1 DEF Follows, Offline, Linked
    <3> QED BY <3>4, <3>7, <3>8 DEF Follows
  <2>7. Sound(n)
    BY <2>2, <2>5, <2>6 DEF Sound
  <2> QED BY <1>2, <2>7 DEF Sent, n
<1> QED BY <1>1, <1>2

\* The topology changes, and who has a socket is told.
LEMMA SnapshotTyped ==
  ASSUME NEW t \in ServerRooms, t.master # Nobody
  PROVE  Snapshot(t) \in Snapshots /\ Snapshot(t) \in Messages
BY DEF Snapshot, Snapshots, ServerRooms, Messages

LEMMA ChangeSent ==
  ASSUME NEW m, Sound(m), NEW t \in ServerRooms, t.master # Nobody, t.rev = m.server.rev + 1
  PROVE  Sound(Sent([m EXCEPT !.server = t], Snapshot(t)))
<1> DEFINE u == [m EXCEPT !.server = t]
           n == Sent(u, Snapshot(t))
           L == Len(m.inbox)
<1>1. /\ m \in Rooms /\ m.inbox \in Seq(Messages) /\ m.server \in ServerRooms
      /\ m.rev \in Nat /\ m.server.rev \in Nat /\ t.rev \in Nat
  BY RoomFields DEF Sound, ServerRooms, Rooms
<1>2. u \in Rooms
  BY <1>1, ServerTyped
<1>3. /\ u.inbox = m.inbox /\ u.rev = m.rev /\ u.snap = m.snap /\ u.status = m.status
      /\ u.master = m.master /\ u.members = m.members /\ u.socket = m.socket /\ u.restore = m.restore
      /\ u.server = t /\ u.closed = m.closed /\ u.asked = m.asked /\ u.links = m.links
  BY <1>1 DEF Rooms
<1>4. n \in Rooms
  BY <1>2, SentTyped, SnapshotTyped
<1> HIDE DEF u
<1>5. /\ n.inbox = IF m.socket = "open" THEN Append(m.inbox, Snapshot(t)) ELSE m.inbox
      /\ n.rev = m.rev /\ n.snap = m.snap /\ n.status = m.status
      /\ n.master = m.master /\ n.members = m.members /\ n.socket = m.socket /\ n.restore = m.restore
      /\ n.server = t /\ n.closed = m.closed /\ n.asked = m.asked /\ n.links = m.links
  BY <1>2, <1>3 DEF Sent, Rooms
<1> HIDE DEF n
<1>6. Owned(n)
  BY <1>5 DEF Owned
<1> SUFFICES ASSUME ~n.closed PROVE Follows(n)
  BY <1>4, <1>6 DEF Sound, n, u
<1>7. Follows(m)
  BY <1>5 DEF Sound
<1>8. Offline(n) /\ Linked(n)
  BY <1>5, <1>7 DEF Follows, Offline, Linked
<1>9. CASE m.socket # "open"
  <2>1. n.inbox = << >> /\ n.socket # "open"
    BY <1>5, <1>7, <1>9 DEF Follows, Offline
  <2>2. Ordered(n) /\ Timely(n)
    BY <1>1, <1>5, <1>7, <2>1 DEF Follows, Ordered, Timely
  <2> QED BY <1>8, <2>2 DEF Follows
<1>10. CASE m.socket = "open"
  <2>1. /\ L \in Nat /\ Len(n.inbox) = L + 1 /\ n.inbox[L + 1] = Snapshot(t)
        /\ \A i \in 1 .. L : n.inbox[i] = m.inbox[i] /\ m.inbox[i] \in Messages
        /\ \A i \in 1 .. L + 1 : i \in 1 .. L \/ i = L + 1
    BY <1>1, <1>5, <1>10
  <2>2. Snapshot(t).type = "state" /\ Snapshot(t).rev = t.rev /\ Snapshot(t).status = t.status
    BY DEF Snapshot
  <2> HIDE DEF L
  <2>3. \A i \in 1 .. L : m.inbox[i].type = "state" => m.inbox[i].rev \in Nat
    BY <2>1, StateTyped DEF Snapshots
  <2>4. \A x : Outdated(n, x) = Outdated(m, x)
    BY <1>5 DEF Outdated
  <2>5. m.rev < t.rev /\ ~Outdated(n, Snapshot(t))
    BY <1>1, <1>5, <1>7, <2>2 DEF Follows, Ordered, Outdated
  <2>6. Ordered(n)
    <3>1. \A i \in 1 .. L : m.inbox[i].type = "state" =>
            m.inbox[i].rev <= m.server.rev /\ m.inbox[i].rev < t.rev
      BY <1>1, <1>7, <2>3 DEF Follows, Ordered, L
    <3>2. ASSUME NEW i \in 1 .. L, m.inbox[i].type = "state"
          PROVE  /\ m.inbox[i].rev <= t.rev /\ ~Outdated(n, m.inbox[i])
                 /\ \A j \in 1 .. L + 1 :
                      i < j /\ n.inbox[j].type = "state" => m.inbox[i].rev < n.inbox[j].rev
      <4>1. ~Outdated(n, m.inbox[i])
        BY <1>7, <2>4, <3>2 DEF Follows, Ordered, L
      <4>2. \A j \in 1 .. L : i < j /\ m.inbox[j].type = "state" => m.inbox[i].rev < m.inbox[j].rev
        BY <1>7, <3>2 DEF Follows, Ordered, L
      <4>3. m.inbox[i].rev <= t.rev
        BY <1>1, <2>3, <3>1, <3>2
      <4> QED BY <2>1, <2>2, <3>1, <3>2, <4>1, <4>2, <4>3
    <3>3. \A j \in 1 .. L + 1 : ~(L + 1 < j)
      BY <2>1
    <3>4. n.rev <= t.rev /\ t.rev <= t.rev
      BY <1>1, <1>5, <2>5
    <3> QED BY <1>5, <2>1, <2>2, <2>5, <3>2, <3>3, <3>4 DEF Ordered
  <2>7. Timely(n)
    <3>1. \A j \in 1 .. L : n.inbox[j].type = "signal" => OpenAt(n, j)
      <4>1. ASSUME NEW j \in 1 .. L, n.inbox[j].type = "signal" PROVE OpenAt(m, j) /\ j \in 1 .. L + 1
        BY <1>7, <1>10, <2>1, <4>1 DEF Follows, Timely, L
      <4> QED BY <1>1, <1>5, <1>10, <4>1, OpenAtLonger DEF L
    <3>2. n.server.status # "waiting" => OpenAt(n, (L + 1) + 1)
      <4>1. ASSUME t.status # "waiting" PROVE Opens(n.inbox[L + 1]) /\ ~Waits(n.inbox[L + 1])
        BY <2>1, <2>2, <4>1 DEF Opens, Waits
      <4>2. \A i \in 1 .. ((L + 1) + 1) - 1 : i = L + 1 \/ L + 1 \in i + 1 .. ((L + 1) + 1) - 1
        BY <2>1
      <4>3. L + 1 \in 1 .. ((L + 1) + 1) - 1
        BY <2>1
      <4> QED BY <1>5, <4>1, <4>2, <4>3 DEF OpenAt
    <3> QED BY <2>1, <2>2, <3>1, <3>2 DEF Timely
  <2> QED BY <1>8, <2>6, <2>7 DEF Follows
<1> QED BY <1>9, <1>10

-----------------------------------------------------------------------------
(* Sockets. *)

\* A room without an open socket has no message and no connection.
LEMMA OfflineSound ==
  ASSUME NEW m, Sound(m), NEW n \in Rooms, n.closed = m.closed, n.server = m.server,
         n.rev = m.rev, n.inbox = << >>, n.asked = {}, n.links = {},
         n.socket # "open", n.socket = "opening" => ~n.snap
  PROVE  Sound(n)
<1>1. Owned(n)
  BY DEF Sound, Owned
<1>2. ASSUME ~n.closed PROVE Follows(n)
  BY <1>2 DEF Sound, Follows, Ordered, Timely, Offline, Linked
<1> QED BY <1>1, <1>2 DEF Sound

LEMMA OpenedSound ==
  ASSUME NEW m, Sound(m), m.socket = "opening", m.server.status # "closed"
  PROVE  Sound([m EXCEPT !.socket = "open", !.inbox = <<Snapshot(m.server)>>, !.restore = "no"])
<1> DEFINE x == Snapshot(m.server)
           n == [m EXCEPT !.socket = "open", !.inbox = <<x>>, !.restore = "no"]
<1>1. m \in Rooms /\ m.server \in ServerRooms /\ m.server.master # Nobody
  BY RoomFields DEF Sound, Owned
<1>2. x \in Messages /\ x.type = "state" /\ x.rev = m.server.rev /\ x.status = m.server.status
  BY <1>1, SnapshotTyped DEF Snapshot
<1> HIDE DEF x
<1>3. <<x>> \in Seq(Messages)
  BY <1>2
<1>4. n \in Rooms
  BY <1>1, <1>3 DEF Rooms
<1>5. /\ n.inbox = <<x>> /\ n.rev = m.rev /\ n.snap = m.snap /\ n.status = m.status
      /\ n.master = m.master /\ n.members = m.members /\ n.socket = "open" /\ n.restore = "no"
      /\ n.server = m.server /\ n.closed = m.closed /\ n.asked = m.asked /\ n.links = m.links
  BY <1>1 DEF Rooms
<1>6. Len(n.inbox) = 1 /\ n.inbox[1] = x
  BY <1>5
<1> HIDE DEF n
<1>7. Owned(n)
  BY <1>1, <1>5 DEF Owned
<1>8. ASSUME ~n.closed PROVE Follows(n)
  <2>1. Follows(m) /\ ~n.snap
    BY <1>5, <1>8 DEF Sound, Follows, Offline
  <2>2. m.rev <= m.server.rev /\ m.rev \in Nat /\ m.server.rev \in Nat
    BY <1>1, <2>1 DEF Follows, Ordered, Rooms, ServerRooms
  <2>3. Ordered(n)
    BY <1>2, <1>5, <1>6, <2>1, <2>2 DEF Ordered, Outdated
  <2>4. n.server.status # "waiting" => OpenAt(n, 2)
    BY <1>2, <1>5, <1>6, <2>1 DEF OpenAt, Waits
  <2>5. Timely(n)
    BY <1>2, <1>5, <1>6, <2>4 DEF Timely
  <2>6. Offline(n) /\ Linked(n)
    BY <1>5, <2>1 DEF Follows, Offline, Linked
  <2> QED BY <2>3, <2>5, <2>6 DEF Follows
<1> QED BY <1>4, <1>7, <1>8 DEF Sound, n, x

LEMMA NoMoreLinks ==
  ASSUME NEW m, Sound(m), ~m.closed, m.socket # "open"
  PROVE  m.asked = {} /\ m.links = {} /\ m.inbox = << >>
BY DEF Sound, Follows, Linked, Offline

LEMMA ConnectFailedSound ==
  ASSUME NEW m, Sound(m), m.socket # "open"
  PROVE  Sound([m EXCEPT !.socket = "none"])
<1> DEFINE n == [m EXCEPT !.socket = "none"]
<1>1. n \in Rooms
  BY DEF Sound, Rooms
<1>2. /\ n.closed = m.closed /\ n.server = m.server /\ n.rev = m.rev /\ n.inbox = m.inbox
      /\ n.asked = m.asked /\ n.links = m.links /\ n.socket = "none"
  BY DEF Sound, Rooms
<1> HIDE DEF n
<1>3. CASE m.closed
  BY <1>1, <1>2, <1>3 DEF Sound, Owned, n
<1>4. CASE ~m.closed
  BY <1>1, <1>2, <1>4, NoMoreLinks, OfflineSound DEF n
<1> QED BY <1>3, <1>4

LEMMA RestoringSound ==
  ASSUME NEW m, Sound(m), ~m.closed => m.socket # "open", NEW k \in 0 .. Attempts - 1
  PROVE  Sound([m EXCEPT !.socket = "none", !.tries = k, !.restore = "asking"])
<1> DEFINE n == [m EXCEPT !.socket = "none", !.tries = k, !.restore = "asking"]
<1>1. n \in Rooms
  BY DEF Sound, Rooms
<1>2. /\ n.closed = m.closed /\ n.server = m.server /\ n.rev = m.rev /\ n.inbox = m.inbox
      /\ n.asked = m.asked /\ n.links = m.links /\ n.socket = "none"
  BY DEF Sound, Rooms
<1> HIDE DEF n
<1>3. CASE m.closed
  BY <1>1, <1>2, <1>3 DEF Sound, Owned, n
<1>4. CASE ~m.closed
  BY <1>1, <1>2, <1>4, NoMoreLinks, OfflineSound DEF n
<1> QED BY <1>3, <1>4

LEMMA RejoinSound ==
  ASSUME NEW m, Sound(m), ~m.closed => m.socket # "open", NEW x \in {"master", "member"}
  PROVE  Sound([m EXCEPT !.restore = "connecting", !.socket = "opening", !.snap = FALSE, !.role = x])
<1> DEFINE n == [m EXCEPT !.restore = "connecting", !.socket = "opening", !.snap = FALSE, !.role = x]
<1>1. n \in Rooms
  BY DEF Sound, Rooms
<1>2. /\ n.closed = m.closed /\ n.server = m.server /\ n.rev = m.rev /\ n.inbox = m.inbox
      /\ n.asked = m.asked /\ n.links = m.links /\ n.socket = "opening" /\ n.snap = FALSE
  BY DEF Sound, Rooms
<1> HIDE DEF n
<1>3. CASE m.closed
  BY <1>1, <1>2, <1>3 DEF Sound, Owned, n
<1>4. CASE ~m.closed
  BY <1>1, <1>2, <1>4, NoMoreLinks, OfflineSound DEF n
<1> QED BY <1>3, <1>4

\* The socket of an open room is lost, with the requests that are on it.
LEMMA LostSound ==
  ASSUME NEW m, Sound(m), NEW left \in Seq(Requests)
  PROVE  LET l == [m EXCEPT !.socket = "none", !.inbox = <<>>, !.server.requests = left]
         IN  l \in Rooms /\ Owned(l) /\ l.closed = m.closed
<1> DEFINE sv == [m.server EXCEPT !.requests = left]
           l == [m EXCEPT !.socket = "none", !.inbox = <<>>, !.server = sv]
<1>1. sv \in ServerRooms /\ sv.status = m.server.status /\ sv.master = m.server.master
  BY DEF Sound, Rooms, ServerRooms
<1>2. << >> \in Seq(Messages)
  OBVIOUS
<1> HIDE DEF sv
<1>3. l \in Rooms /\ l.server = sv /\ l.closed = m.closed
  BY <1>1, <1>2 DEF Sound, Rooms
<1>4. Owned(l)
  BY <1>1, <1>3 DEF Sound, Owned
<1>5. l = [m EXCEPT !.socket = "none", !.inbox = <<>>, !.server.requests = left]
  BY DEF sv
<1> QED BY <1>3, <1>4, <1>5

LEMMA LostAndRestoring ==
  ASSUME NEW m, Sound(m), ~m.closed, NEW left \in Seq(Requests)
  PROVE  Sound([CloseRoomPeers([m EXCEPT !.socket = "none", !.inbox = <<>>, !.server.requests = left])
                  EXCEPT !.pending = NoTransfer, !.restore = "asking", !.tries = 0])
<1> DEFINE l == [m EXCEPT !.socket = "none", !.inbox = <<>>, !.server.requests = left]
           c == CloseRoomPeers(l)
           n == [c EXCEPT !.pending = NoTransfer, !.restore = "asking", !.tries = 0]
<1>1. l \in Rooms /\ Owned(l) /\ ~l.closed
  BY LostSound
<1>2. /\ l.socket = "none" /\ l.inbox = << >> /\ l.rev = m.rev /\ l.asked = m.asked /\ l.links = m.links
      /\ l.server.rev = m.server.rev
  BY DEF Sound, Rooms, ServerRooms
<1> HIDE DEF l
<1>3. /\ c \in Rooms /\ c.socket = "none" /\ c.inbox = << >> /\ c.rev = l.rev /\ c.asked = {} /\ c.links = {}
      /\ c.server = l.server /\ c.closed = l.closed
  <2>1. l.links \subseteq l.asked
    BY <1>2 DEF Sound, Follows, Linked
  <2>2. Kept(l, c)
    BY <1>1, ClosePeersKept DEF CloseRoomPeers
  <2>3. c.links = {} /\ c.asked = {}
    BY <1>1, <2>1 DEF CloseRoomPeers, ClosePeers, Rooms
  <2> QED BY <1>2, <2>2, <2>3 DEF Kept
<1> HIDE DEF c
<1>4. 0 \in 0 .. Attempts - 1
  BY PeerGroupAssumption
<1>5. n \in Rooms
  BY <1>3, <1>4, NoTransferTyped DEF Rooms, Transfers
<1>6. /\ n.socket = "none" /\ n.inbox = << >> /\ n.rev = l.rev /\ n.asked = {} /\ n.links = {}
      /\ n.server = l.server /\ n.closed = l.closed
  BY <1>3 DEF Rooms
<1> HIDE DEF n
<1>7. Owned(n)
  BY <1>1, <1>6 DEF Owned
<1>8. n.rev <= n.server.rev
  BY <1>2, <1>6 DEF Sound, Follows, Ordered
<1>9. Follows(n)
  BY <1>6, <1>8 DEF Follows, Ordered, Timely, Offline, Linked
<1> QED BY <1>5, <1>7, <1>9 DEF Sound, n, c, l

-----------------------------------------------------------------------------
(* The steps. *)

Shows == [group : Calls \cup {NoCall}, state : {"live", "closing", "closed"}]

LEMMA TypeParts ==
  TypeOK <=> /\ operation \in 0 .. NCalls
             /\ pc \in [Calls -> {"idle", "quitting", "admitting", "connecting", "failing",
                                  "dropping", "leaving", "done"}]
             /\ quits \in [Calls -> Calls \cup {NoCall}]
             /\ current \in Calls \cup {NoCall}
             /\ room \in [Calls -> Rooms]
             /\ shown \in Shows
             /\ faults \in 0 .. MaxFaults
BY DEF TypeOK, Shows

\* A step that changes one room, and other variables within their types.
Else ==
  /\ operation' \in 0 .. NCalls
  /\ pc' \in [Calls -> {"idle", "quitting", "admitting", "connecting", "failing",
                        "dropping", "leaving", "done"}]
  /\ quits' \in [Calls -> Calls \cup {NoCall}]
  /\ current' \in Calls \cup {NoCall}
  /\ shown' \in Shows
  /\ faults' \in 0 .. MaxFaults

LEMMA RoomFollows ==
  ASSUME TopologyInv, NEW r, NEW n, r \in Calls => Sound(n), room' = [room EXCEPT ![r] = n], Else
  PROVE  TopologyInv'
<1>1. room \in [Calls -> Rooms]
  BY TypeParts DEF TopologyInv
<1>2. \A c \in Calls : Sound(room'[c])
  BY <1>1 DEF TopologyInv
<1>3. room' \in [Calls -> Rooms]
  BY <1>1 DEF Sound
<1>4. TypeOK'
  BY <1>3 DEF TypeOK, Else, Shows
<1> QED BY <1>2, <1>4 DEF TopologyInv

LEMMA ElseSame ==
  ASSUME TypeOK, UNCHANGED <<operation, pc, quits, current, shown, faults>>
  PROVE  Else
BY DEF TypeOK, Else, Shows

LEMMA ShowTyped ==
  ASSUME TypeOK, NEW x \in {"live", "closing", "closed"}
  PROVE  ShowState(x) \in Shows /\ Nothing \in Shows
BY DEF TypeOK, ShowState, Nothing, Shows

LEMMA RoomEndFollows ==
  ASSUME TopologyInv, NEW r \in Calls, NEW m \in Rooms, EndRoom(r, m),
         UNCHANGED <<operation, pc, quits>>, faults' \in 0 .. MaxFaults
  PROVE  TopologyInv'
<1>1. Sound(Shut(Closed(m)))
  BY ClosedTyped, ShutSound
<1>2. Else
  BY ShowTyped DEF EndRoom, Else, TopologyInv, TypeOK
<1> QED BY <1>1, <1>2, RoomFollows DEF EndRoom

LEMMA QuitFollows ==
  ASSUME TopologyInv, NEW r, room' = RoomsAfterQuit(r), Else
  PROVE  TopologyInv'
<1>1. room' = [c \in Calls |-> IF c = r THEN Quit(room[c]) ELSE room[c]]
  BY DEF RoomsAfterQuit
<1>2. \A c \in Calls : Sound(room'[c])
  BY <1>1, QuitSound DEF TopologyInv, Sound
<1>3. room' \in [Calls -> Rooms]
  BY <1>1, <1>2 DEF Sound
<1>4. TypeOK'
  BY <1>3 DEF TypeOK, Else, Shows
<1> QED BY <1>2, <1>4 DEF TopologyInv

LEMMA NewCallFollows ==
  ASSUME TopologyInv, NEW c \in Calls, EnterFromRoom(c) \/ EnterGroup(c) \/ LeaveGroup(c)
  PROVE  TopologyInv'
<1>1. c \in 0 .. NCalls /\ TypeOK
  BY PeerGroupAssumption DEF Calls, TopologyInv
<1>2. CASE EnterFromRoom(c)
  <2>1. QuitAwaits(current) => current \in Calls
    BY DEF QuitAwaits
  <2>2. Else
    BY <1>1, <1>2, <2>1, ShowTyped DEF EnterFromRoom, NextCall, Else, TypeOK, Shows
  <2> QED BY <1>2, <2>2, QuitFollows DEF EnterFromRoom
<1>3. CASE EnterGroup(c)
  <2>1. Else
    BY <1>1, <1>3 DEF EnterGroup, Admit, NextCall, Else, TypeOK, Shows
  <2> QED BY <1>3, <2>1, QuitFollows DEF EnterGroup
<1>4. CASE LeaveGroup(c)
  <2>1. QuitAwaits(current) => current \in Calls
    BY DEF QuitAwaits
  <2>2. Else
    BY <1>1, <1>4, <2>1, ShowTyped DEF LeaveGroup, NextCall, Else, TypeOK, Shows
  <2> QED BY <1>4, <2>2, QuitFollows DEF LeaveGroup
<1> QED BY <1>2, <1>3, <1>4

LEMMA AdmittedFollows ==
  ASSUME TopologyInv, NEW c \in Calls, Admitted(c)
  PROVE  TopologyInv'
<1>0. TypeOK
  BY DEF TopologyInv
<1>1. PICK s \in AdmittingRooms :
      LET m == MadeRoom(s)
      IN  IF Stale(c)
          THEN /\ room' = [room EXCEPT ![c] = Shut(Closed(m))]
               /\ pc' = [pc EXCEPT ![c] = IF Deletes(m) THEN "dropping" ELSE "done"]
               /\ quits' = [quits EXCEPT ![c] = IF Deletes(m) THEN c ELSE NoCall]
               /\ UNCHANGED <<current, shown>>
          ELSE /\ room' = [room EXCEPT ![c] = [m EXCEPT !.socket = "opening"]]
               /\ current' = c
               /\ shown' = [group |-> c, state |-> "live"]
               /\ pc' = [pc EXCEPT ![c] = "connecting"]
               /\ UNCHANGED quits
  BY DEF Admitted
<1>2. s \in ServerRooms /\ s.master # Nobody
  <2>1. PICK p \in Peers \cup {Me} :
          s = [status |-> "open", master |-> p, members |-> {p} \ {Me}, rev |-> 1, requests |-> <<>>]
    BY DEF AdmittingRooms
  <2>2. << >> \in Seq(Requests) /\ 1 \in 0 .. MaxRevision /\ Me # Nobody /\ Nobody \notin Peers
    BY PeerGroupAssumption DEF Me, Nobody
  <2> QED BY <2>1, <2>2 DEF ServerRooms, Statuses
<1>3. MadeRoom(s) \in Rooms
  BY <1>2, MadeRoomTyped
<1>4. UNCHANGED <<operation, faults>>
  BY DEF Admitted
<1>5. Else
  <2>1. CASE Stale(c)
    BY <1>0, <1>1, <1>4, <2>1 DEF Else, TypeOK, Shows
  <2>2. CASE ~Stale(c)
    BY <1>0, <1>1, <1>4, <2>2 DEF Else, TypeOK, Shows
  <2> QED BY <2>1, <2>2
<1>6. CASE Stale(c)
  <2>1. Sound(Shut(Closed(MadeRoom(s))))
    BY <1>3, ClosedTyped, ShutSound
  <2> QED BY <1>1, <1>5, <1>6, <2>1, RoomFollows
<1>7. CASE ~Stale(c)
  <2>1. Sound([MadeRoom(s) EXCEPT !.socket = "opening"])
    BY <1>2, MadeSound DEF Owned
  <2> QED BY <1>1, <1>5, <1>7, <2>1, RoomFollows
<1> QED BY <1>6, <1>7

LEMMA AdmissionFailsFollows ==
  ASSUME TopologyInv, NEW c \in Calls, AdmissionFails(c)
  PROVE  TopologyInv'
<1>1. TypeOK'
  BY ShowTyped DEF TopologyInv, TypeOK, AdmissionFails, Shows, Nothing
<1> QED BY <1>1 DEF TopologyInv, AdmissionFails

LEMMA QuitReturnsFollows ==
  ASSUME TopologyInv, NEW c \in Calls, QuitReturns(c)
  PROVE  TopologyInv'
<1>1. quits[c] \in Calls /\ room[quits[c]] \in Rooms /\ TypeOK
  BY DEF QuitReturns, TopologyInv, TypeOK
<1>2. Else
  BY <1>1, ShowTyped DEF QuitReturns, Admit, Else, TypeOK, Shows, Nothing, ShowState
<1>3. Sound(Shut(room[quits[c]]))
  BY <1>1, ShutSound
<1>4. room' = [room EXCEPT ![quits[c]] = Shut(room[quits[c]])]
  BY DEF QuitReturns
<1> QED BY <1>1, <1>2, <1>3, <1>4, RoomFollows

LEMMA SocketOpensFollows ==
  ASSUME TopologyInv, NEW r \in Calls, SocketOpens(r)
  PROVE  TopologyInv'
<1> DEFINE m == [room[r] EXCEPT !.socket = "open", !.inbox = <<Snapshot(room[r].server)>>,
                                !.restore = "no"]
           n == IF pc[r] = "connecting" /\ Stale(r) THEN Quit(m) ELSE m
<1>1. Sound(m)
  BY OpenedSound DEF TopologyInv, SocketOpens
<1>2. Sound(n)
  BY <1>1, QuitSound DEF Sound
<1>3. room' = [room EXCEPT ![r] = n]
  BY DEF SocketOpens
<1>4. Else
  BY DEF SocketOpens, Else, TopologyInv, TypeOK, Shows
<1> HIDE DEF n, m
<1> QED BY <1>2, <1>3, <1>4, RoomFollows

LEMMA ConnectFailsFollows ==
  ASSUME TopologyInv, NEW r \in Calls, ConnectFails(r)
  PROVE  TopologyInv'
<1> DEFINE m == [room[r] EXCEPT !.socket = "none"]
<1>0. TypeOK
  BY DEF TopologyInv
<1>1. Sound(m)
  BY ConnectFailedSound DEF TopologyInv, ConnectFails, OpeningFails
<1>2. Sound(Quit(m))
  BY <1>1, QuitSound DEF Sound
<1>3. UNCHANGED operation /\ faults' \in 0 .. MaxFaults
  BY <1>0, PeerGroupAssumption DEF ConnectFails, OpeningFails, Refused, TypeOK
<1>4. CASE Stale(r)
  <2>1. room' = [room EXCEPT ![r] = m] /\ pc' = [pc EXCEPT ![r] = "done"]
        /\ UNCHANGED <<quits, current, shown>>
    BY <1>4 DEF ConnectFails
  <2>2. Else
    BY <1>0, <1>3, <2>1 DEF Else, TypeOK, Shows
  <2> QED BY <1>1, <2>1, <2>2, RoomFollows
<1>5. CASE ~Stale(r)
  <2>1. /\ room' = [room EXCEPT ![r] = Quit(m)]
        /\ current' = NoCall
        /\ pc' = [pc EXCEPT ![r] = IF Deletes(m) THEN "failing" ELSE "done"]
        /\ quits' = [quits EXCEPT ![r] = IF Deletes(m) THEN r ELSE NoCall]
        /\ shown' = IF Deletes(m) THEN ShowState("closing") ELSE Nothing
    BY <1>5 DEF ConnectFails
  <2>2. shown' \in Shows
    BY <1>0, <2>1, ShowTyped
  <2> HIDE DEF m
  <2>3. Else
    BY <1>0, <1>3, <2>1, <2>2 DEF Else, TypeOK
  <2> QED BY <1>2, <2>1, <2>3, RoomFollows
<1> QED BY <1>4, <1>5

LEMMA SocketClosesFollows ==
  ASSUME TopologyInv, NEW r \in Calls, SocketCloses(r)
  PROVE  TopologyInv'
<1>0. TypeOK /\ Sound(room[r]) /\ room[r] \in Rooms
  BY DEF TopologyInv, Sound
<1>1. PICK left \in {room[r].server.requests, <<>>} :
       LET m == [room[r] EXCEPT !.socket = "none", !.inbox = <<>>, !.server.requests = left]
       IN  IF m.closed
           THEN room' = [room EXCEPT ![r] = Shut(m)] /\ UNCHANGED <<current, shown>>
           ELSE \/ EndRoom(r, m)
                \/ /\ room' = [room EXCEPT ![r] =
                        [CloseRoomPeers(m) EXCEPT !.pending = NoTransfer,
                                                  !.restore = "asking", !.tries = 0]]
                   /\ shown' = ShowState("live")
                   /\ UNCHANGED current
  BY DEF SocketCloses
<1> DEFINE m == [room[r] EXCEPT !.socket = "none", !.inbox = <<>>, !.server.requests = left]
           n == [CloseRoomPeers(m) EXCEPT !.pending = NoTransfer, !.restore = "asking", !.tries = 0]
<1>2. left \in Seq(Requests)
  <2>1. room[r].server.requests \in Seq(Requests) /\ << >> \in Seq(Requests)
    BY <1>0, RoomFields DEF ServerRooms
  <2> QED BY <2>1
<1>3. m \in Rooms /\ Owned(m) /\ m.closed = room[r].closed
  BY <1>0, <1>2, LostSound
<1>4. Sound(Shut(m)) /\ (~m.closed => Sound(n))
  BY <1>0, <1>2, <1>3, ShutSound, LostAndRestoring
<1>5. UNCHANGED <<operation, pc, quits>> /\ faults' \in 0 .. MaxFaults
  BY <1>0, PeerGroupAssumption DEF SocketCloses, TypeOK
<1> HIDE DEF m, n
<1>6. CASE m.closed
  <2>1. room' = [room EXCEPT ![r] = Shut(m)] /\ UNCHANGED <<current, shown>>
    BY <1>1, <1>6 DEF m
  <2>2. Else
    BY <1>0, <1>5, <2>1 DEF Else, TypeOK, Shows
  <2> QED BY <1>4, <2>1, <2>2, RoomFollows
<1>7. CASE EndRoom(r, m)
  BY <1>3, <1>5, <1>7, RoomEndFollows
<1>8. CASE /\ ~m.closed /\ room' = [room EXCEPT ![r] = n]
           /\ shown' = ShowState("live") /\ UNCHANGED current
  <2>1. Else
    BY <1>0, <1>5, <1>8, ShowTyped DEF Else, TypeOK
  <2> QED BY <1>4, <1>8, <2>1, RoomFollows
<1> QED BY <1>1, <1>6, <1>7, <1>8 DEF m, n

LEMMA RejoinFollows ==
  ASSUME TopologyInv, NEW r \in Calls, Rejoin(r)
  PROVE  TopologyInv'
<1> DEFINE x == IF room[r].server.master = Me THEN "master" ELSE "member"
           n == [room[r] EXCEPT !.restore = "connecting", !.socket = "opening", !.snap = FALSE, !.role = x]
<1>1. Sound(room[r]) /\ (~room[r].closed => room[r].socket # "open")
  BY DEF TopologyInv, Rejoin, Sound, Follows, Offline
<1>2. x \in {"master", "member"}
  OBVIOUS
<1> HIDE DEF x
<1>3. Sound(n)
  BY <1>1, <1>2, RejoinSound
<1>4. room' = [room EXCEPT ![r] = n]
  BY DEF Rejoin, x
<1>5. Else
  BY ElseSame DEF Rejoin, TopologyInv
<1> HIDE DEF n
<1> QED BY <1>3, <1>4, <1>5, RoomFollows

LEMMA RejoinFailsFollows ==
  ASSUME TopologyInv, NEW r \in Calls, RejoinFails(r)
  PROVE  TopologyInv'
<1> DEFINE k == room[r].tries + 1
           m == [room[r] EXCEPT !.socket = "none", !.tries = k, !.restore = "asking"]
<1>0. TypeOK /\ Sound(room[r]) /\ room[r] \in Rooms /\ room[r].tries \in 0 .. Attempts - 1
  BY DEF TopologyInv, Sound, Rooms
<1>1. ~room[r].closed => room[r].socket # "open"
  BY <1>0 DEF RejoinFails, OpeningFails, Sound, Follows, Offline
<1>2. UNCHANGED <<operation, pc, quits>> /\ faults' \in 0 .. MaxFaults
  BY <1>0, PeerGroupAssumption DEF RejoinFails, OpeningFails, Refused, TypeOK
<1>3. m.tries = k /\ (k = Attempts \/ k \in 0 .. Attempts - 1)
  BY <1>0, PeerGroupAssumption DEF Rooms
<1>4. CASE k = Attempts
  <2>1. EndRoom(r, m)
    BY <1>3, <1>4 DEF RejoinFails
  <2> DEFINE o == [room[r] EXCEPT !.socket = "none", !.restore = "asking"]
  <2>2. o \in Rooms
    BY <1>0 DEF Rooms
  <2>3. Shut(Closed(m)) = Shut(Closed(o))
    BY <1>0 DEF Shut, Closed, CloseRoomPeers, ClosePeers, Rooms
  <2>4. EndRoom(r, o)
    BY <2>1, <2>3 DEF EndRoom
  <2> QED BY <1>2, <2>2, <2>4, RoomEndFollows
<1>5. CASE k # Attempts
  <2>1. room' = [room EXCEPT ![r] = m] /\ UNCHANGED <<current, shown>>
    BY <1>3, <1>5 DEF RejoinFails
  <2>2. Sound(m)
    BY <1>0, <1>1, <1>3, <1>5, RestoringSound
  <2>3. Else
    BY <1>0, <1>2, <2>1 DEF Else, TypeOK, Shows
  <2> HIDE DEF m
  <2> QED BY <2>1, <2>2, <2>3, RoomFollows
<1> QED BY <1>4, <1>5

LEMMA TakeStateFollows ==
  ASSUME TopologyInv, NEW r \in Calls, TakeState(r)
  PROVE  TopologyInv'
<1> DEFINE s == Head(room[r].inbox)
           m == Take(r)
<1>0. /\ TypeOK /\ Sound(room[r]) /\ room[r] \in Rooms
      /\ room[r].socket = "open" /\ room[r].inbox # << >> /\ s.type = "state"
      /\ UNCHANGED <<operation, pc, quits, faults>>
  BY DEF TopologyInv, Sound, TakeState, Arrives
<1>1. m \in Rooms /\ m.closed = room[r].closed /\ m.server = room[r].server
  <2>1. Tail(room[r].inbox) \in Seq(Messages)
    BY <1>0, HeadTyped
  <2> QED BY <1>0, <2>1, InboxTyped DEF Take, Rooms
<1>2. faults' \in 0 .. MaxFaults
  BY <1>0 DEF TypeOK
<1>3. CASE m.closed
  <2>1. \/ room' = [room EXCEPT ![r] = m] /\ UNCHANGED <<current, shown>>
        \/ room' = [room EXCEPT ![r] = Applied(m, s)] /\ shown' = ShowState("live") /\ UNCHANGED current
    BY <1>3 DEF TakeState
  <2>2. s \in Snapshots
    BY <1>0, HeadTyped, StateTyped
  <2>3. Sound(m) /\ Sound(Applied(m, s))
    <3>1. Owned(m) /\ Sound(m)
      BY <1>0, <1>1, <1>3 DEF Sound, Owned
    <3>2. /\ Applied(m, s) \in Rooms /\ Applied(m, s).closed = m.closed
          /\ Applied(m, s).server = m.server
      BY <1>1, <2>2, AppliedFields
    <3> QED BY <1>3, <3>1, <3>2 DEF Sound, Owned
  <2>4. Else
    BY <1>0, <1>2, <2>1, ShowTyped DEF Else, TypeOK, Shows
  <2> HIDE DEF m, s
  <2> QED BY <2>1, <2>3, <2>4, RoomFollows
<1>4. CASE ~m.closed
  <2>1. ~Outdated(m, s)
    <3>1. 1 \in 1 .. Len(room[r].inbox) /\ s = room[r].inbox[1]
      BY <1>0, HeadTyped
    <3>2. ~Outdated(room[r], s)
      BY <1>0, <1>1, <1>4, <3>1 DEF Sound, Follows, Ordered
    <3>3. m.rev = room[r].rev /\ m.snap = room[r].snap
      BY <1>0 DEF Take, Rooms
    <3> QED BY <3>2, <3>3 DEF Outdated
  <2>2. CASE s.status = "closed"
    <3>1. EndRoom(r, m)
      BY <1>4, <2>1, <2>2 DEF TakeState
    <3> QED BY <1>0, <1>1, <1>2, <3>1, RoomEndFollows
  <2>3. CASE s.status # "closed"
    <3>1. room' = [room EXCEPT ![r] = Applied(m, s)] /\ shown' = ShowState("live") /\ UNCHANGED current
      BY <1>4, <2>1, <2>3 DEF TakeState
    <3>2. Sound(Applied(m, s))
      BY <1>0, <1>1, <1>4, <2>3, AppliedSound DEF Take
    <3>3. Else
      BY <1>0, <1>2, <3>1, ShowTyped DEF Else, TypeOK
    <3> HIDE DEF m, s
    <3> QED BY <3>1, <3>2, <3>3, RoomFollows
  <2> QED BY <2>2, <2>3
<1> QED BY <1>3, <1>4

LEMMA TakeSignalFollows ==
  ASSUME TopologyInv, NEW r \in Calls, TakeSignal(r)
  PROVE  TopologyInv'
<1> DEFINE p == Head(room[r].inbox).from
           m == Take(r)
<1>0. /\ TypeOK /\ Sound(room[r]) /\ room[r] \in Rooms
      /\ room[r].socket = "open" /\ room[r].inbox # << >> /\ Head(room[r].inbox).type = "signal"
      /\ UNCHANGED <<operation, pc, quits, current, shown, faults>>
  BY DEF TopologyInv, Sound, TakeSignal, Arrives
<1>1. m.snap = room[r].snap /\ m.members = room[r].members
  BY <1>0 DEF Take, Rooms
<1>2. p \in Peers
  BY <1>0, HeadTyped DEF Messages, Snapshots
<1>3. Sound(m)
  BY <1>0, TakenSound DEF Take
<1>4. Else
  BY <1>0, ElseSame
<1>5. CASE Ignored(m, p)
  BY <1>3, <1>4, <1>5, RoomFollows DEF TakeSignal
<1>6. CASE ~Ignored(m, p)
  <2>1. room' = [room EXCEPT ![r] = [m EXCEPT !.asked = @ \cup {p}, !.links = @ \cup {p}]]
        /\ m.snap /\ p \in m.members
    BY <1>6 DEF TakeSignal
  <2>2. Sound([m EXCEPT !.asked = @ \cup {p}, !.links = @ \cup {p}])
    BY <1>0, <1>1, <1>2, <1>6, <2>1, SignalSound DEF Take
  <2> QED BY <1>4, <2>1, <2>2, RoomFollows
<1> QED BY <1>5, <1>6

LEMMA ProtocolFailsFollows ==
  ASSUME TopologyInv, NEW r \in Calls, ProtocolFails(r)
  PROVE  TopologyInv'
<1>0. TypeOK /\ Sound(room[r]) /\ UNCHANGED <<operation, pc, quits, faults>>
  BY DEF TopologyInv, ProtocolFails
<1>1. Sound(Take(r))
  BY <1>0, TakenSound DEF ProtocolFails, Arrives, Take
<1>2. CASE room[r].closed
  <2>1. Else
    BY <1>0, <1>2, ElseSame DEF ProtocolFails
  <2> QED BY <1>1, <1>2, <2>1, RoomFollows DEF ProtocolFails
<1>3. CASE ~room[r].closed
  <2>1. faults' \in 0 .. MaxFaults
    BY <1>0 DEF TypeOK
  <2> QED BY <1>0, <1>1, <1>3, <2>1, RoomEndFollows DEF ProtocolFails, Sound
<1> QED BY <1>2, <1>3

LEMMA PendingSound ==
  ASSUME NEW m, Sound(m), NEW x \in Transfers
  PROVE  Sound([m EXCEPT !.pending = x])
<1> DEFINE n == [m EXCEPT !.pending = x]
<1>1. n \in Rooms
  BY PendingTyped DEF Sound
<1>2. Fields(m, n) /\ n.asked = m.asked /\ n.links = m.links
  BY DEF Sound, Rooms, Fields
<1> HIDE DEF n
<1>3. CASE m.closed
  BY <1>1, <1>2, <1>3 DEF Sound, Owned, Fields, n
<1>4. CASE ~m.closed
  <2>1. n.links \subseteq n.asked
    BY <1>2, <1>4 DEF Sound, Follows, Linked
  <2> QED BY <1>1, <1>2, <2>1, SameSound DEF n
<1> QED BY <1>3, <1>4

LEMMA TakeErrorFollows ==
  ASSUME TopologyInv, NEW r \in Calls, TakeError(r)
  PROVE  TopologyInv'
<1>0. Sound(room[r]) /\ UNCHANGED <<operation, pc, quits, current, shown, faults>>
  BY DEF TopologyInv, TakeError
<1>1. Sound(Take(r))
  BY <1>0, TakenSound DEF TakeError, Arrives, Take
<1>2. Sound([Take(r) EXCEPT !.pending = NoTransfer])
  BY <1>1, NoTransferTyped, PendingSound
<1>3. Else
  BY <1>0, ElseSame DEF TopologyInv
<1> QED BY <1>2, <1>3, RoomFollows DEF TakeError

\* Requests are put on the socket, or handled by the server.
LEMMA RequestsSound ==
  ASSUME NEW m, Sound(m), NEW q \in Seq(Requests)
  PROVE  /\ [m.server EXCEPT !.requests = q] \in ServerRooms
         /\ Sound([m EXCEPT !.server = [m.server EXCEPT !.requests = q]])
<1> DEFINE sv == [m.server EXCEPT !.requests = q]
           n == [m EXCEPT !.server = sv]
<1>1. /\ sv \in ServerRooms /\ sv.status = m.server.status /\ sv.master = m.server.master
      /\ sv.rev = m.server.rev
  BY RoomFields DEF Sound, ServerRooms
<1> HIDE DEF sv
<1>2. n \in Rooms
  BY <1>1, ServerTyped DEF Sound
<1>3. Fields(m, n) /\ n.asked = m.asked /\ n.links = m.links
  BY <1>1 DEF Sound, Rooms, Fields
<1> HIDE DEF n
<1>4. CASE m.closed
  BY <1>1, <1>2, <1>3, <1>4 DEF Sound, Owned, Fields, n, sv
<1>5. CASE ~m.closed
  <2>1. n.links \subseteq n.asked
    BY <1>3, <1>5 DEF Sound, Follows, Linked
  <2> QED BY <1>1, <1>2, <1>3, <2>1, SameSound DEF n, sv
<1> QED BY <1>4, <1>5

LEMMA PostSound ==
  ASSUME NEW m, Sound(m), NEW type \in {"transfer", "remove"}, NEW p \in Peers
  PROVE  Sound(Post(m, type, p))
<1> DEFINE q == Append(m.server.requests, [type |-> type, peer |-> p])
<1>1. q \in Seq(Requests)
  <2>1. [type |-> type, peer |-> p] \in Requests
    BY DEF Requests
  <2>2. m.server.requests \in Seq(Requests)
    BY RoomFields DEF Sound, ServerRooms
  <2> QED BY <2>1, <2>2
<1>2. Post(m, type, p) = [m EXCEPT !.server = [m.server EXCEPT !.requests = q]]
  BY DEF Post
<1> HIDE DEF q
<1>3. Sound([m EXCEPT !.server = [m.server EXCEPT !.requests = q]])
  BY <1>1, RequestsSound
<1> QED BY <1>2, <1>3

LEMMA FewerLinks ==
  ASSUME NEW m, Sound(m), NEW x \in SUBSET m.asked, NEW y \in SUBSET m.links,
         ~m.closed => y \subseteq x
  PROVE  Sound([m EXCEPT !.asked = x, !.links = y])
<1> DEFINE n == [m EXCEPT !.asked = x, !.links = y]
<1>0. m.asked \in SUBSET Peers /\ m.links \in SUBSET Peers
  BY RoomFields DEF Sound
<1>1. n \in Rooms
  BY <1>0, PeersTyped DEF Sound
<1>2. Fields(m, n) /\ n.asked = x /\ n.links = y
  BY DEF Sound, Rooms, Fields
<1> HIDE DEF n
<1>3. CASE m.closed
  BY <1>1, <1>2, <1>3 DEF Sound, Owned, Fields, n
<1>4. CASE ~m.closed
  BY <1>1, <1>2, <1>4, SameSound DEF n
<1> QED BY <1>3, <1>4

LEMMA TransferMasterFollows ==
  ASSUME TopologyInv, NEW p \in Peers, TransferMaster(p)
  PROVE  TopologyInv'
<1> DEFINE m == room[current]
           x == [to |-> p, since |-> m.rev, master |-> m.master]
<1>0. current \in Calls /\ Sound(m) /\ UNCHANGED <<operation, pc, quits, current, shown, faults>>
  BY DEF TopologyInv, TypeOK, TransferMaster
<1>1. x \in Transfers
  BY <1>0, RoomFields DEF Sound, Transfers
<1>2. Sound([Post(m, "transfer", p) EXCEPT !.pending = x])
  BY <1>0, <1>1, PostSound, PendingSound
<1>3. Else
  BY <1>0, ElseSame DEF TopologyInv
<1> QED BY <1>0, <1>2, <1>3, RoomFollows DEF TransferMaster

LEMMA TransferTimesOutFollows ==
  ASSUME TopologyInv, NEW r \in Calls, TransferTimesOut(r)
  PROVE  TopologyInv'
<1>1. Sound([room[r] EXCEPT !.pending = NoTransfer])
  BY NoTransferTyped, PendingSound DEF TopologyInv
<1>2. Else
  BY ElseSame DEF TopologyInv, TransferTimesOut
<1>3. room' = [room EXCEPT ![r] = [room[r] EXCEPT !.pending = NoTransfer]]
  BY DEF TransferTimesOut
<1> QED BY <1>1, <1>2, <1>3, RoomFollows

LEMMA LinkEndsFollows ==
  ASSUME TopologyInv, NEW r \in Calls, NEW p \in Peers, LinkEnds(r, p)
  PROVE  TopologyInv'
<1>0. Sound(room[r]) /\ UNCHANGED <<operation, pc, quits, current, shown, faults>>
  BY DEF TopologyInv, LinkEnds
<1>1. Else
  BY <1>0, ElseSame DEF TopologyInv
<1>2. CASE room' = [room EXCEPT ![r].links = @ \ {p}]
  <2> DEFINE n == [room[r] EXCEPT !.asked = room[r].asked, !.links = room[r].links \ {p}]
  <2>1. ~room[r].closed => room[r].links \subseteq room[r].asked
    BY <1>0 DEF Sound, Follows, Linked
  <2>2. Sound(n)
    BY <1>0, <2>1, FewerLinks
  <2>3. n = [room[r] EXCEPT !.links = @ \ {p}]
    BY <1>0 DEF Sound, Rooms
  <2>4. room' = [room EXCEPT ![r] = n]
    BY <1>2, <2>3
  <2> HIDE DEF n
  <2> QED BY <1>1, <2>2, <2>4, RoomFollows
<1>3. CASE /\ room' = [room EXCEPT ![r] = ClosePeers(Post(room[r], "remove", p), {p})]
           /\ ~room[r].closed
  <2> DEFINE m == Post(room[r], "remove", p)
             n == [m EXCEPT !.asked = m.asked \ {p}, !.links = m.links \ {p}]
  <2>1. Sound(m)
    BY <1>0, PostSound
  <2>2. ~m.closed => m.links \subseteq m.asked
    BY <2>1 DEF Sound, Follows, Linked
  <2> HIDE DEF m
  <2>3. Sound(n)
    BY <2>1, <2>2, FewerLinks
  <2>4. ClosePeers(m, {p}) = n
    BY <2>1 DEF ClosePeers, Sound, Rooms
  <2> QED BY <1>1, <1>3, <2>3, <2>4, RoomFollows DEF m
<1> QED BY <1>2, <1>3 DEF LinkEnds

-----------------------------------------------------------------------------
LEMMA ChangeFollows ==
  ASSUME TopologyInv, NEW r \in Calls, NEW s \in ServerRooms,
         s.rev = room[r].server.rev,
         room[r].server.status # "closed" => s.master # Nobody, Change(r, s)
  PROVE  TopologyInv'
<1> DEFINE t == [s EXCEPT !.rev = @ + 1]
           n == Sent([room[r] EXCEPT !.server = t], Snapshot(t))
<1>0. Sound(room[r]) /\ UNCHANGED <<operation, pc, quits, current, shown, faults>>
      /\ room[r].server.rev < MaxRevision /\ room[r].server.status # "closed"
  BY DEF TopologyInv, Change
<1>1. t \in ServerRooms /\ t.master # Nobody /\ t.rev = room[r].server.rev + 1
  BY <1>0, PeerGroupAssumption DEF ServerRooms
<1>2. room' = [room EXCEPT ![r] = n]
  BY DEF Change
<1> HIDE DEF t
<1>3. Sound(n)
  BY <1>0, <1>1, ChangeSent
<1>4. Else
  BY <1>0, ElseSame DEF TopologyInv
<1> HIDE DEF n
<1> QED BY <1>2, <1>3, <1>4, RoomFollows

LEMMA HandleFollows ==
  ASSUME TopologyInv, NEW r \in Calls, Handle(r)
  PROVE  TopologyInv'
<1> DEFINE sv == room[r].server
           q == Head(sv.requests)
           s == [sv EXCEPT !.requests = Tail(@)]
           m == [room[r] EXCEPT !.server = s]
<1>0. /\ Sound(room[r]) /\ sv \in ServerRooms /\ sv.requests # << >>
      /\ sv.requests \in Seq(Requests)
  BY RoomFields DEF TopologyInv, Handle, Sound, ServerRooms
<1>1. Tail(sv.requests) \in Seq(Requests) /\ q \in Requests
  BY <1>0
<1>2. q.peer \in Peers
  BY <1>1 DEF Requests
<1>3. s \in ServerRooms /\ Sound(m)
  BY <1>0, <1>1, RequestsSound
<1>4. s.rev = sv.rev /\ s.status = sv.status /\ s.master = sv.master /\ s.members = sv.members
  BY <1>0 DEF ServerRooms
<1>5. \/ /\ room' = [room EXCEPT ![r] = Sent(m, [type |-> "error"])]
         /\ UNCHANGED <<operation, pc, quits, current, shown, faults>>
      \/ Change(r, [s EXCEPT !.master = q.peer])
      \/ Change(r, [s EXCEPT !.members = @ \ {q.peer}]) /\ s.master = Me
  BY DEF Handle
<1> HIDE DEF s, m, q
<1>6. CASE /\ room' = [room EXCEPT ![r] = Sent(m, [type |-> "error"])]
           /\ UNCHANGED <<operation, pc, quits, current, shown, faults>>
  <2>1. [type |-> "error"] \in Messages /\ [type |-> "error"].type = "error"
    BY DEF Messages
  <2>2. Sound(Sent(m, [type |-> "error"]))
    BY <1>3, <2>1, OtherSent
  <2>3. Else
    BY <1>6, ElseSame DEF TopologyInv
  <2> QED BY <1>6, <2>2, <2>3, RoomFollows
<1>7. CASE Change(r, [s EXCEPT !.master = q.peer])
  <2> DEFINE z == [s EXCEPT !.master = q.peer]
  <2>1. z \in ServerRooms /\ z.rev = sv.rev /\ z.master # Nobody
    BY <1>2, <1>3, <1>4, PeerGroupAssumption DEF ServerRooms
  <2> HIDE DEF z
  <2> QED BY <1>7, <2>1, ChangeFollows DEF z
<1>8. CASE Change(r, [s EXCEPT !.members = @ \ {q.peer}]) /\ s.master = Me
  <2> DEFINE z == [s EXCEPT !.members = s.members \ {q.peer}]
  <2>1. z \in ServerRooms /\ z.rev = sv.rev /\ z.master = Me
    BY <1>2, <1>3, <1>4, <1>8 DEF ServerRooms
  <2>2. Me # Nobody
    BY DEF Me, Nobody
  <2> HIDE DEF z
  <2> QED BY <1>8, <2>1, <2>2, ChangeFollows DEF z
<1> QED BY <1>5, <1>6, <1>7, <1>8

\* Joins, departures, transfers and the end of a room.
LEMMA TopologyFollows ==
  ASSUME TopologyInv, NEW r \in Calls,
         \/ PeerJoins(r) \/ PeerLeaves(r) \/ MasterTransfers(r) \/ MasterVanishes(r)
         \/ MasterFound(r) \/ MasterCloses(r)
  PROVE  TopologyInv'
<1> DEFINE sv == room[r].server
<1>0. /\ sv \in ServerRooms /\ (sv.status # "closed" => sv.master # Nobody)
  BY RoomFields DEF TopologyInv, Sound, Owned
<1>1. \A x \in SUBSET Peers : LET z == [sv EXCEPT !.members = x]
        IN z \in ServerRooms /\ z.rev = sv.rev /\ z.master = sv.master
  BY <1>0 DEF ServerRooms
<1>2. \A p \in Peers \cup {Me} : LET z == [sv EXCEPT !.master = p]
        IN z \in ServerRooms /\ z.rev = sv.rev /\ z.master # Nobody
  BY <1>0, PeerGroupAssumption DEF ServerRooms, Me, Nobody
<1>3. \A x \in Statuses : LET z == [sv EXCEPT !.status = x]
        IN z \in ServerRooms /\ z.rev = sv.rev /\ z.master = sv.master
  BY <1>0 DEF ServerRooms
<1>4. \A p \in Peers \cup {Me} : LET z == [sv EXCEPT !.status = "open", !.master = p]
        IN z \in ServerRooms /\ z.rev = sv.rev /\ z.master # Nobody
  BY <1>0, PeerGroupAssumption DEF ServerRooms, Statuses, Me, Nobody
<1>5. sv.members \in SUBSET Peers
  BY <1>0 DEF ServerRooms
<1>6. CASE PeerJoins(r)
  <2>1. PICK p \in Peers : Change(r, [sv EXCEPT !.members = sv.members \cup {p}])
    BY <1>6 DEF PeerJoins
  <2>2. sv.members \cup {p} \in SUBSET Peers
    BY <1>5
  <2> QED BY <1>0, <1>1, <2>1, <2>2, ChangeFollows
<1>7. CASE PeerLeaves(r)
  <2>1. PICK p : Change(r, [sv EXCEPT !.members = sv.members \ {p}])
    BY <1>7 DEF PeerLeaves
  <2>2. sv.members \ {p} \in SUBSET Peers
    BY <1>5
  <2> QED BY <1>0, <1>1, <2>1, <2>2, ChangeFollows
<1>8. CASE MasterTransfers(r)
  <2>1. PICK p \in Peers \cup {Me} : Change(r, [sv EXCEPT !.master = p])
    BY <1>5, <1>8 DEF MasterTransfers
  <2> QED BY <1>2, <2>1, ChangeFollows
<1>9. CASE MasterFound(r)
  <2>1. PICK p \in Peers \cup {Me} : Change(r, [sv EXCEPT !.status = "open", !.master = p])
    BY <1>5, <1>9 DEF MasterFound
  <2> QED BY <1>4, <2>1, ChangeFollows
<1>10. CASE MasterVanishes(r) \/ MasterCloses(r)
  <2>1. PICK x \in Statuses : Change(r, [sv EXCEPT !.status = x])
    BY <1>10 DEF MasterVanishes, MasterCloses, Statuses
  <2> QED BY <1>0, <1>3, <2>1, ChangeFollows
<1> QED BY <1>6, <1>7, <1>8, <1>9, <1>10

LEMMA SignalFollows ==
  ASSUME TopologyInv, NEW r \in Calls, Signal(r) \/ Malformed(r)
  PROVE  TopologyInv'
<1>0. Sound(room[r]) /\ room[r].server.members \in SUBSET Peers /\ TypeOK
  BY RoomFields DEF TopologyInv, Sound, ServerRooms
<1>1. CASE Signal(r)
  <2>1. PICK p \in room[r].server.members :
           room' = [room EXCEPT ![r] = Sent(room[r], [type |-> "signal", from |-> p])]
    BY <1>1 DEF Signal
  <2> DEFINE msg == [type |-> "signal", from |-> p]
  <2>2. msg \in Messages /\ msg.type = "signal"
    BY <1>0 DEF Messages
  <2>3. room[r].server.status # "waiting"
    BY <1>1 DEF Signal
  <2>4. Sound(Sent(room[r], msg))
    BY <1>0, <2>2, <2>3, OtherSent
  <2>5. Else
    BY <1>0, <1>1, ElseSame DEF Signal
  <2> QED BY <2>1, <2>4, <2>5, RoomFollows
<1>2. CASE Malformed(r)
  <2> DEFINE msg == [type |-> "malformed"]
  <2>1. msg \in Messages /\ msg.type = "malformed"
    BY DEF Messages
  <2>2. Sound(Sent(room[r], msg))
    BY <1>0, <2>1, OtherSent
  <2>3. Else
    BY <1>0, <1>2, PeerGroupAssumption DEF Malformed, Else, TypeOK, Shows
  <2> QED BY <1>2, <2>2, <2>3, RoomFollows DEF Malformed
<1> QED BY <1>1, <1>2

-----------------------------------------------------------------------------
LEMMA TopologyInit == Init => TopologyInv
<1> SUFFICES ASSUME Init PROVE TopologyInv
  OBVIOUS
<1> DEFINE m == [MadeRoom(NoServer) EXCEPT !.made = FALSE]
<1>1. NoServer \in ServerRooms /\ NoServer.status = "closed" /\ NoServer.rev = 0
  <2>1. << >> \in Seq(Requests) /\ 0 \in 0 .. MaxRevision
    BY PeerGroupAssumption
  <2> QED BY <2>1 DEF NoServer, ServerRooms, Statuses
<1>2. m \in Rooms
  <2> DEFINE n == MadeRoom(NoServer)
  <2>1. n \in Rooms
    BY <1>1, MadeRoomTyped
  <2> HIDE DEF n
  <2>2. [n EXCEPT !.made = FALSE] \in Rooms
    BY <2>1 DEF Rooms
  <2> QED BY <2>2 DEF n
<1>3. /\ m.server = NoServer /\ m.inbox = << >> /\ m.rev = 0 /\ m.snap = FALSE
      /\ m.socket = "none" /\ m.restore = "no" /\ m.asked = {} /\ m.links = {}
  BY DEF MadeRoom
<1> HIDE DEF m
<1>4. Sound(m)
  <2>1. Follows(m)
    BY <1>1, <1>3 DEF Follows, Ordered, Timely, Offline, Linked
  <2> QED BY <1>1, <1>2, <1>3, <2>1 DEF Sound, Owned
<1>5. room = [c \in Calls |-> m]
  BY DEF Init, m
<1>6. TypeOK
  <2>1. room \in [Calls -> Rooms]
    BY <1>2, <1>5
  <2>2. shown \in Shows
    BY DEF Init, Nothing, Shows
  <2>3. operation \in 0 .. NCalls /\ faults \in 0 .. MaxFaults
    BY PeerGroupAssumption DEF Init
  <2> QED BY <2>1, <2>2, <2>3, TypeParts DEF Init
<1> QED BY <1>4, <1>5, <1>6 DEF TopologyInv

LEMMA TopologyNext == TopologyInv /\ [Next]_vars => TopologyInv'
<1> SUFFICES ASSUME TopologyInv, [Next]_vars PROVE TopologyInv'
  OBVIOUS
<1>1. CASE UserStep
  BY <1>1, TransferMasterFollows, TransferTimesOutFollows, LinkEndsFollows DEF UserStep
<1>2. ASSUME NEW c \in Calls, CallStep(c) PROVE TopologyInv'
  BY <1>2, NewCallFollows, AdmittedFollows, AdmissionFailsFollows, QuitReturnsFollows DEF CallStep
<1>3. ASSUME NEW r \in Calls, SocketStep(r) PROVE TopologyInv'
  BY <1>3, SocketOpensFollows, ConnectFailsFollows, SocketClosesFollows, RejoinFollows,
     RejoinFailsFollows DEF SocketStep
<1>4. ASSUME NEW r \in Calls, MessageStep(r) PROVE TopologyInv'
  BY <1>4, TakeStateFollows, TakeSignalFollows, ProtocolFailsFollows, TakeErrorFollows DEF MessageStep
<1>5. ASSUME NEW r \in Calls, ServerStep(r) PROVE TopologyInv'
  BY <1>5, TopologyFollows, HandleFollows, SignalFollows DEF ServerStep
<1>6. CASE UNCHANGED vars
  BY <1>6 DEF vars, TopologyInv, TypeOK
<1> QED BY <1>1, <1>2, <1>3, <1>4, <1>5, <1>6 DEF Next

\* The fields of MultiplayerRoom stay within their types: restore() makes no more
\* attempts than it has delays, a snapshot that is sent has a master, and the
\* group the user is shown is a room or none.
THEOREM Typing == Spec => []TypeOK
<1>1. TopologyInv => TypeOK
  BY DEF TopologyInv
<1> QED BY <1>1, TopologyInit, TopologyNext, PTL DEF Spec

\* createPeerGroup connects a master to members only and a member to its master
\* only, in whatever order snapshots, signals, losses of the socket, admissions
\* and the user's calls come.
THEOREM LinksInTopology == Spec => []LinksFollowTopology
<1>1. TopologyInv => LinksFollowTopology
  <2>1. ASSUME TopologyInv, NEW r \in Calls, ~room[r].closed
        PROVE  Linked(room[r])
    BY <2>1 DEF TopologyInv, Sound, Follows
  <2> QED BY <2>1 DEF LinksFollowTopology, Linked
<1> QED BY <1>1, TopologyInit, TopologyNext, PTL DEF Spec
===============================================================================
