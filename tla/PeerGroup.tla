------------------------------ MODULE PeerGroup ------------------------------
(***************************************************************************)
(* A launcher in multiplayer rooms: createPeerGroup and MultiplayerRoom of *)
(* packages/wrtc-multiplayer/lib/peerGorup.ts, with the peer connections   *)
(* that multiplayerImpl.ts opens and closes for them and the group the     *)
(* user is shown.  The room server and the other launchers are external:   *)
(* the server owns the topology, numbers its revisions and sends them on   *)
(* the socket of the room in order.                                        *)
(*                                                                         *)
(* Calls of createGroup, joinGroup and leaveGroup are numbered in the      *)
(* order they are made, so `operation' is the number of the last one.  A   *)
(* call that is admitted to a room makes one MultiplayerRoom, which has    *)
(* the number of the call.                                                 *)
(***************************************************************************)
EXTENDS Naturals, Sequences

CONSTANTS
  Peers,         \* the other launchers, by peer id
  NCalls,        \* bound on the calls
  Attempts,      \* what restore() tries: 9 delays in the code
  MaxRevision,   \* bound on the revisions of a room
  MaxFaults      \* bound on lost or refused sockets and malformed messages

Calls == 1 .. NCalls
Me == "me"
NoCall == 0
Nobody == "nobody"
NoTransfer == [to |-> Nobody, since |-> 0, master |-> Nobody]

ASSUME PeerGroupAssumption ==
  /\ NCalls \in Nat /\ Attempts \in Nat \ {0}
  /\ MaxRevision \in Nat \ {0} /\ MaxFaults \in Nat
  /\ {Me, Nobody} \cap Peers = {}

VARIABLES
  operation,   \* the last call
  pc,          \* where each call is
  quits,       \* the room whose quit() a call awaits
  current,     \* the room of getGroup()
  room,        \* the MultiplayerRoom objects
  shown,       \* what PeerState shows: the group, and the state of it
  faults       \* faults so far

vars == <<operation, pc, quits, current, room, shown, faults>>

Statuses == {"open", "waiting", "closed"}
Requests == [type : {"transfer", "remove"}, peer : Peers]
Snapshots == [type : {"state"}, status : Statuses, master : Peers \cup {Me},
              members : SUBSET Peers, rev : 0 .. MaxRevision]
Messages == Snapshots \cup [type : {"signal"}, from : Peers] \cup [type : {"error", "malformed"}]
ServerRooms == [status : Statuses, master : Peers \cup {Me, Nobody}, members : SUBSET Peers,
                rev : 0 .. MaxRevision, requests : Seq(Requests)]
Rooms == [made : BOOLEAN, closed : BOOLEAN, role : {"master", "member"},
          socket : {"none", "opening", "open", "aborted"}, inbox : Seq(Messages),
          restore : {"no", "asking", "connecting"}, tries : 0 .. Attempts - 1,
          snap : BOOLEAN, rev : 0 .. MaxRevision, status : Statuses,
          master : Peers \cup {Me, Nobody}, members : SUBSET Peers,
          asked : SUBSET Peers, links : SUBSET Peers,
          pending : [to : Peers \cup {Nobody}, since : 0 .. MaxRevision,
                     master : Peers \cup {Me, Nobody}],
          server : ServerRooms]

TypeOK ==
  /\ operation \in 0 .. NCalls
  /\ pc \in [Calls -> {"idle", "quitting", "admitting", "connecting", "failing",
                       "dropping", "leaving", "done"}]
  /\ quits \in [Calls -> Calls \cup {NoCall}]
  /\ current \in Calls \cup {NoCall}
  /\ room \in [Calls -> Rooms]
  /\ shown \in [group : Calls \cup {NoCall}, state : {"live", "closing", "closed"}]
  /\ faults \in 0 .. MaxFaults

\* A room as its constructor leaves it, and its server; revision 0 stands for
\* the code's -1.
MadeRoom(s) ==
  [made |-> TRUE, closed |-> FALSE, role |-> IF s.master = Me THEN "master" ELSE "member",
   socket |-> "none", inbox |-> <<>>, restore |-> "no", tries |-> 0,
   snap |-> FALSE, rev |-> 0, status |-> "open", master |-> Nobody, members |-> {},
   asked |-> {}, links |-> {}, pending |-> NoTransfer, server |-> s]

NoServer == [status |-> "closed", master |-> Nobody, members |-> {}, rev |-> 0, requests |-> <<>>]

\* groupReset
Nothing == [group |-> NoCall, state |-> "closed"]

Init ==
  /\ operation = 0
  /\ pc = [c \in Calls |-> "idle"]
  /\ quits = [c \in Calls |-> NoCall]
  /\ current = NoCall
  /\ room = [c \in Calls |-> [MadeRoom(NoServer) EXCEPT !.made = FALSE]]
  /\ shown = Nothing
  /\ faults = 0

-----------------------------------------------------------------------------
(* Parts of the methods of a room m. *)

\* role: the snapshot decides, before the first one the admission.
IsMaster(m) == IF m.snap THEN m.master = Me ELSE m.role = "master"

\* closeRoomPeer for each of ps: their connections are closed and forgotten.
ClosePeers(m, ps) == [m EXCEPT !.links = @ \ ps, !.asked = @ \ ps]

\* closeRoomPeers
CloseRoomPeers(m) == ClosePeers(m, m.asked \cup (IF m.snap THEN m.members ELSE {}))

\* socket?.close() of a closed room: a socket that is opening reports an error.
\* All the room still has is the connections it did not close.
Shut(m) ==
  [MadeRoom(NoServer) EXCEPT
     !.closed = TRUE, !.links = m.links, !.asked = m.asked,
     !.socket = IF m.socket \in {"opening", "aborted"} THEN "aborted" ELSE "none"]

\* A room is closed: its connections, its transfer, and restore(), which
\* returns when it sees it.
Closed(m) ==
  [CloseRoomPeers(m) EXCEPT !.closed = TRUE, !.pending = NoTransfer, !.restore = "no"]

\* fail and finishClosedSnapshot: onstate('closed'), onreset.
EndRoom(r, m) ==
  /\ room' = [room EXCEPT ![r] = Shut(Closed(m))]
  /\ current' = IF current = r THEN NoCall ELSE current
  /\ shown' = Nothing

\* quit() up to its await: a master asks the server to delete the room first.
Quit(m) ==
  IF m.closed THEN m ELSE IF IsMaster(m) THEN Closed(m) ELSE Shut(Closed(m))
Deletes(m) == ~m.closed /\ IsMaster(m)

RoomsAfterQuit(r) == [c \in Calls |-> IF c = r THEN Quit(room[c]) ELSE room[c]]
QuitAwaits(r) == \E c \in Calls : c = r /\ Deletes(room[c])

ShowState(s) == [shown EXCEPT !.state = s]

-----------------------------------------------------------------------------
(* createPeerGroup *)

NextCall(c) == c = operation + 1 /\ operation' = c

\* mutant: nobody asks whether a later call was made
StaleNever(c) == FALSE
Stale(c) == c # operation

\* enterGroup calls quit() of the room it leaves, and awaits it.
EnterFromRoom(c) ==
  /\ NextCall(c) /\ QuitAwaits(current)
  /\ room' = RoomsAfterQuit(current)
  /\ shown' = ShowState("closing")
  /\ pc' = [pc EXCEPT ![c] = "quitting"]
  /\ quits' = [quits EXCEPT ![c] = current]
  /\ UNCHANGED <<current, faults>>

\* onleave, onstate('connecting'), and the request to admit it.
Admit(c) ==
  /\ current' = NoCall
  /\ shown' = [group |-> NoCall, state |-> "live"]
  /\ pc' = [pc EXCEPT ![c] = "admitting"]

\* Without a room, or as a member of one, quit() awaits nothing.
EnterGroup(c) ==
  /\ NextCall(c) /\ ~QuitAwaits(current)
  /\ room' = RoomsAfterQuit(current)
  /\ Admit(c)
  /\ UNCHANGED <<quits, faults>>

LeaveGroup(c) ==
  /\ NextCall(c)
  /\ room' = RoomsAfterQuit(current)
  /\ current' = NoCall
  /\ IF QuitAwaits(current)
     THEN /\ pc' = [pc EXCEPT ![c] = "leaving"]
          /\ quits' = [quits EXCEPT ![c] = current]
          /\ shown' = ShowState("closing")
     ELSE /\ pc' = [pc EXCEPT ![c] = "done"]
          /\ shown' = Nothing
          /\ UNCHANGED quits
  /\ UNCHANGED faults

\* External: POST rooms or rooms/<id>/join makes a room, or finds one.
AdmittingRooms ==
  {[status |-> "open", master |-> p, members |-> {p} \ {Me}, rev |-> 1, requests |-> <<>>] :
     p \in Peers \cup {Me}}

\* A call that is still the last one takes the room and connects it; another
\* one quits it, and as its master deletes it.
Admitted(c) ==
  /\ pc[c] = "admitting"
  /\ \E s \in AdmittingRooms :
       LET m == MadeRoom(s)
       IN  IF Stale(c)
           THEN /\ room' = [room EXCEPT ![c] = Shut(Closed(m))]
                /\ pc' = [pc EXCEPT ![c] = IF Deletes(m) THEN "dropping" ELSE "done"]
                /\ quits' = [quits EXCEPT ![c] = IF Deletes(m) THEN c ELSE NoCall]
                /\ UNCHANGED <<current, shown>>
           ELSE /\ room' = [room EXCEPT ![c] = [m EXCEPT !.socket = "opening"]]
                /\ current' = c
                /\ shown' = [group |-> c, state |-> "live"]
                /\ pc' = [pc EXCEPT ![c] = "connecting"]
                /\ UNCHANGED quits
  /\ UNCHANGED <<operation, faults>>

AdmissionFails(c) ==
  /\ pc[c] = "admitting"
  /\ pc' = [pc EXCEPT ![c] = "done"]
  /\ shown' = IF Stale(c) THEN shown ELSE Nothing
  /\ UNCHANGED <<operation, quits, current, room, faults>>

\* closeRoom answers, or fails and is reported: quit() closes the socket, and
\* the call that awaited it goes on.  A dropped room has no callbacks yet.
QuitReturns(c) ==
  LET r == quits[c]
  IN  /\ r # NoCall
      /\ quits' = [quits EXCEPT ![c] = NoCall]
      /\ room' = [room EXCEPT ![r] = Shut(@)]
      /\ IF pc[c] = "quitting" /\ ~Stale(c)
         THEN Admit(c)
         ELSE /\ pc' = [pc EXCEPT ![c] = "done"]
              /\ shown' = CASE pc[c] = "quitting" -> ShowState("closed")
                            [] pc[c] = "dropping" -> shown
                            [] OTHER -> Nothing
              /\ UNCHANGED current
  /\ UNCHANGED <<operation, faults>>

-----------------------------------------------------------------------------
(* connect and restore *)

\* What the server sends a socket that opened.
Snapshot(s) ==
  [type |-> "state", status |-> s.status, master |-> s.master,
   members |-> s.members, rev |-> s.rev]

\* connect() returns, to enterGroup or to restore(); a call that is no longer
\* the last one quits the room.
SocketOpens(r) ==
  /\ room[r].socket = "opening" /\ room[r].server.status # "closed"
  /\ room' = [room EXCEPT ![r] =
       LET m == [@ EXCEPT !.socket = "open", !.inbox = <<Snapshot(room[r].server)>>, !.restore = "no"]
       IN  IF pc[r] = "connecting" /\ Stale(r) THEN Quit(m) ELSE m]
  /\ pc' = [pc EXCEPT ![r] = IF @ = "connecting" THEN "done" ELSE @]
  /\ UNCHANGED <<operation, quits, current, shown, faults>>

\* External: the room is closed, or the network fails.
Refused(r) ==
  \/ room[r].server.status = "closed" /\ UNCHANGED faults
  \/ faults < MaxFaults /\ faults' = faults + 1

\* mutant: a socket that is no longer this.socket reports to nobody
OpeningFailsIfKept(r) == room[r].socket = "opening" /\ Refused(r)

\* The socket reports an error before it opened: refused, or closed by us.
OpeningFails(r) ==
  \/ room[r].socket = "aborted" /\ UNCHANGED faults
  \/ room[r].socket = "opening" /\ Refused(r)

\* enterGroup catches it.  A call that was overtaken returns.
ConnectFails(r) ==
  /\ pc[r] = "connecting" /\ OpeningFails(r)
  /\ LET m == [room[r] EXCEPT !.socket = "none"]
     IN  IF Stale(r)
         THEN /\ room' = [room EXCEPT ![r] = m]
              /\ pc' = [pc EXCEPT ![r] = "done"]
              /\ UNCHANGED <<quits, current, shown>>
         ELSE /\ room' = [room EXCEPT ![r] = Quit(m)]
              /\ current' = NoCall
              /\ pc' = [pc EXCEPT ![r] = IF Deletes(m) THEN "failing" ELSE "done"]
              /\ quits' = [quits EXCEPT ![r] = IF Deletes(m) THEN r ELSE NoCall]
              /\ shown' = IF Deletes(m) THEN ShowState("closing") ELSE Nothing
  /\ UNCHANGED operation

\* The socket of an open room closes: 4000, 4001 and 4003 are final, every
\* other code starts restore().
SocketCloses(r) ==
  /\ room[r].socket = "open"
  /\ faults < MaxFaults /\ faults' = faults + 1
  /\ \E left \in {room[r].server.requests, <<>>} :
       LET m == [room[r] EXCEPT !.socket = "none", !.inbox = <<>>, !.server.requests = left]
       IN  IF m.closed
           THEN room' = [room EXCEPT ![r] = Shut(m)] /\ UNCHANGED <<current, shown>>
           ELSE \/ EndRoom(r, m)
                \/ /\ room' = [room EXCEPT ![r] =
                        [CloseRoomPeers(m) EXCEPT !.pending = NoTransfer,
                                                  !.restore = "asking", !.tries = 0]]
                   /\ shown' = ShowState("live")
                   /\ UNCHANGED current
  /\ UNCHANGED <<operation, pc, quits>>

\* restore() is admitted again: applyAdmission and connect().  The revision
\* is kept, the snapshot is not.
Rejoin(r) ==
  /\ room[r].restore = "asking" /\ room[r].server.status # "closed"
  /\ room' = [room EXCEPT ![r] =
       [@ EXCEPT !.restore = "connecting", !.socket = "opening", !.snap = FALSE,
                 !.role = IF room[r].server.master = Me THEN "master" ELSE "member"]]
  /\ UNCHANGED <<operation, pc, quits, current, shown, faults>>

\* An attempt of restore() fails, by the join or by the socket.
RejoinFails(r) ==
  /\ \/ room[r].restore = "asking" /\ Refused(r)
     \/ room[r].restore = "connecting" /\ OpeningFails(r)
  /\ LET m == [room[r] EXCEPT !.socket = "none", !.tries = @ + 1, !.restore = "asking"]
     IN  IF m.tries = Attempts
         THEN EndRoom(r, m)
         ELSE /\ room' = [room EXCEPT ![r] = m]
              /\ UNCHANGED <<current, shown>>
  /\ UNCHANGED <<operation, pc, quits>>

-----------------------------------------------------------------------------
(* Messages of the server *)

Take(r) == [room[r] EXCEPT !.inbox = Tail(@)]
Arrives(r, type) ==
  room[r].socket = "open" /\ room[r].inbox # <<>> /\ Head(room[r].inbox).type = type

Outdated(m, s) == s.rev < m.rev \/ (m.snap /\ s.rev = m.rev)

\* mutant: connections outlive the master they were made under
RebuildsOnWait(m, s) == s.status = "waiting"
Rebuilds(m, s) == (m.master # Nobody /\ m.master # s.master) \/ s.status = "waiting"

\* ensureInitiated for every member: a master connects to whom it has not yet.
Initiated(m) ==
  IF m.master = Me /\ m.status = "open"
  THEN LET new == m.members \ (m.asked \cup m.links)
       IN  [m EXCEPT !.asked = @ \cup new, !.links = @ \cup new]
  ELSE m

\* The transfer is over when a later snapshot names another master.
Settled(m) ==
  IF m.pending # NoTransfer /\ m.rev > m.pending.since /\ m.master # m.pending.master
  THEN [m EXCEPT !.pending = NoTransfer]
  ELSE m

\* applyRoomState, of a snapshot that is news and not the end.
Applied(m, s) ==
  LET kept == ClosePeers(m, m.asked \ s.members)
      cut == IF Rebuilds(m, s) THEN CloseRoomPeers(kept) ELSE kept
  IN  Settled(Initiated([cut EXCEPT !.master = s.master, !.members = s.members,
                                    !.status = s.status, !.rev = s.rev, !.snap = TRUE]))

TakeState(r) ==
  /\ Arrives(r, "state")
  /\ LET s == Head(room[r].inbox)
         m == Take(r)
     IN  IF Outdated(m, s) \/ (s.status = "closed" /\ m.closed)
         THEN room' = [room EXCEPT ![r] = m] /\ UNCHANGED <<current, shown>>
         ELSE IF s.status = "closed"
         THEN EndRoom(r, m)
         ELSE /\ room' = [room EXCEPT ![r] = Applied(m, s)]
              /\ shown' = ShowState("live")
              /\ UNCHANGED current
  /\ UNCHANGED <<operation, pc, quits, faults>>

\* A member listens to its master only; the offer or answer of anyone else in
\* the room is applied to the connection there is, or to a new one.
Ignored(m, p) == m.snap /\ ~IsMaster(m) /\ p # m.master
TakeSignal(r) ==
  /\ Arrives(r, "signal")
  /\ LET p == Head(room[r].inbox).from
         m == Take(r)
     IN  /\ m.snap /\ p \in m.members
         /\ room' = [room EXCEPT ![r] =
              IF Ignored(m, p) THEN m
              ELSE [m EXCEPT !.asked = @ \cup {p}, !.links = @ \cup {p}]]
  /\ UNCHANGED <<operation, pc, quits, current, shown, faults>>

\* A message that is none, or of somebody outside the room: fail(1002).
ProtocolFails(r) ==
  /\ Arrives(r, "malformed")
  /\ IF room[r].closed
     THEN room' = [room EXCEPT ![r] = Take(r)] /\ UNCHANGED <<current, shown>>
     ELSE EndRoom(r, Take(r))
  /\ UNCHANGED <<operation, pc, quits, faults>>

\* An error of the server rejects the transfer that is pending.
TakeError(r) ==
  /\ Arrives(r, "error")
  /\ room' = [room EXCEPT ![r] = [Take(r) EXCEPT !.pending = NoTransfer]]
  /\ UNCHANGED <<operation, pc, quits, current, shown, faults>>

-----------------------------------------------------------------------------
(* The user and the peer connections *)

Post(m, type, p) == [m EXCEPT !.server.requests = Append(@, [type |-> type, peer |-> p])]

\* transferGroupMaster: without a socket it fails at once.
TransferMaster(p) ==
  /\ current # NoCall
  /\ LET m == room[current]
     IN  /\ m.pending = NoTransfer /\ IsMaster(m) /\ p \in m.members /\ m.socket = "open"
         /\ Len(m.server.requests) < 2
         /\ room' = [room EXCEPT ![current] =
              [Post(m, "transfer", p) EXCEPT !.pending =
                 [to |-> p, since |-> m.rev, master |-> m.master]]]
  /\ UNCHANGED <<operation, pc, quits, current, shown, faults>>

TransferTimesOut(r) ==
  /\ room[r].pending # NoTransfer
  /\ room' = [room EXCEPT ![r].pending = NoTransfer]
  /\ UNCHANGED <<operation, pc, quits, current, shown, faults>>

\* The user drops a connection, or it broke for good: a master has the member
\* removed, anyone else forgets the connection.
LinkEnds(r, p) ==
  /\ p \in room[r].links
  /\ IF r = current /\ ~room[r].closed /\ IsMaster(room[r]) /\ room[r].snap /\ p \in room[r].members
     THEN /\ room[r].socket = "open" /\ Len(room[r].server.requests) < 2
          /\ room' = [room EXCEPT ![r] = ClosePeers(Post(@, "remove", p), {p})]
     ELSE room' = [room EXCEPT ![r].links = @ \ {p}]
  /\ UNCHANGED <<operation, pc, quits, current, shown, faults>>

-----------------------------------------------------------------------------
(* External: the room server and the other launchers *)

\* A room with a message for the launcher, or without one when it has no socket.
Sent(m, msg) == IF m.socket = "open" THEN [m EXCEPT !.inbox = Append(@, msg)] ELSE m
MaySend(r) == Len(room[r].inbox) < 2

\* The topology of a room changes to s, which has the next revision.
Change(r, s) ==
  /\ room[r].server.status # "closed" /\ room[r].server.rev < MaxRevision /\ MaySend(r)
  /\ LET t == [s EXCEPT !.rev = @ + 1]
     IN  room' = [room EXCEPT ![r] = Sent([@ EXCEPT !.server = t], Snapshot(t))]
  /\ UNCHANGED <<operation, pc, quits, current, shown, faults>>

PeerJoins(r) ==
  \E p \in Peers \ room[r].server.members :
    Change(r, [room[r].server EXCEPT !.members = @ \cup {p}])
PeerLeaves(r) ==
  \E p \in room[r].server.members \ {room[r].server.master} :
    Change(r, [room[r].server EXCEPT !.members = @ \ {p}])

\* Another launcher that is the master makes a member the master.
MasterTransfers(r) ==
  /\ room[r].server.status = "open" /\ room[r].server.master # Me
  /\ \E p \in (room[r].server.members \cup {Me}) \ {room[r].server.master} :
       Change(r, [room[r].server EXCEPT !.master = p])

\* The master is gone for a while: the room waits for it, or for another.
MasterVanishes(r) ==
  /\ room[r].server.status = "open"
  /\ room[r].server.master = Me => room[r].socket # "open"
  /\ Change(r, [room[r].server EXCEPT !.status = "waiting"])
MasterFound(r) ==
  /\ room[r].server.status = "waiting"
  /\ \E p \in room[r].server.members \cup {Me} :
       Change(r, [room[r].server EXCEPT !.status = "open", !.master = p])
MasterCloses(r) ==
  /\ room[r].server.master # Me \/ room[r].server.status = "waiting"
  /\ Change(r, [room[r].server EXCEPT !.status = "closed"])

\* A request of the launcher: only the master's are granted.
Handle(r) ==
  /\ room[r].server.requests # <<>>
  /\ LET q == Head(room[r].server.requests)
         s == [room[r].server EXCEPT !.requests = Tail(@)]
     IN  IF s.master # Me \/ s.status # "open" \/ q.peer \notin s.members
         THEN /\ MaySend(r)
              /\ room' = [room EXCEPT ![r] = Sent([@ EXCEPT !.server = s], [type |-> "error"])]
              /\ UNCHANGED <<operation, pc, quits, current, shown, faults>>
         ELSE Change(r, IF q.type = "transfer" THEN [s EXCEPT !.master = q.peer]
                                               ELSE [s EXCEPT !.members = @ \ {q.peer}])

\* Members signal their master, and the master its members.
Signal(r) ==
  /\ room[r].server.status = "open" /\ room[r].socket = "open" /\ MaySend(r)
  /\ \E p \in room[r].server.members :
       /\ room[r].server.master \in {p, Me}
       /\ room' = [room EXCEPT ![r] = Sent(@, [type |-> "signal", from |-> p])]
  /\ UNCHANGED <<operation, pc, quits, current, shown, faults>>

Malformed(r) ==
  /\ room[r].socket = "open" /\ MaySend(r)
  /\ faults < MaxFaults /\ faults' = faults + 1
  /\ room' = [room EXCEPT ![r] = Sent(@, [type |-> "malformed"])]
  /\ UNCHANGED <<operation, pc, quits, current, shown>>

-----------------------------------------------------------------------------
CallStep(c) ==
  \/ EnterFromRoom(c) \/ EnterGroup(c) \/ LeaveGroup(c)
  \/ Admitted(c) \/ AdmissionFails(c) \/ QuitReturns(c)

SocketStep(r) ==
  \/ SocketOpens(r) \/ ConnectFails(r) \/ SocketCloses(r) \/ Rejoin(r) \/ RejoinFails(r)

MessageStep(r) == TakeState(r) \/ TakeSignal(r) \/ ProtocolFails(r) \/ TakeError(r)

ServerStep(r) ==
  \/ PeerJoins(r) \/ PeerLeaves(r) \/ MasterTransfers(r) \/ MasterVanishes(r)
  \/ MasterFound(r) \/ MasterCloses(r) \/ Handle(r) \/ Signal(r) \/ Malformed(r)

UserStep ==
  \/ \E p \in Peers : TransferMaster(p)
  \/ \E r \in Calls : TransferTimesOut(r) \/ \E p \in Peers : LinkEnds(r, p)

Next ==
  \/ UserStep
  \/ \E r \in Calls : CallStep(r) \/ SocketStep(r) \/ MessageStep(r) \/ ServerStep(r)

Spec == Init /\ [][Next]_vars

\* Requests are answered, sockets open or fail, and messages are delivered.
Fairness ==
  \A r \in Calls :
    /\ WF_vars(Admitted(r) \/ AdmissionFails(r) \/ QuitReturns(r))
    /\ WF_vars(SocketOpens(r) \/ ConnectFails(r) \/ Rejoin(r) \/ RejoinFails(r))
    /\ WF_vars(MessageStep(r))

FairSpec == Spec /\ Fairness

-----------------------------------------------------------------------------
\* At any time at most one room is not closed, and it is the one that
\* getGroup() returns: whichever calls overtake each other, a room the user
\* left or never saw is quit.
OneLiveRoom == \A r \in Calls : room[r].made /\ ~room[r].closed => current = r

\* Snapshots are "the only topology authority" (peerGorup.test.ts:163): a
\* master is connected to members only, a member to its master only, and
\* nobody while there is no snapshot, no socket or no master.
LinksFollowTopology ==
  \A r \in Calls :
    LET m == room[r]
    IN  ~m.closed =>
          m.links \subseteq IF ~m.snap \/ m.socket # "open" \/ m.status = "waiting" THEN {}
                            ELSE IF m.master = Me THEN m.members ELSE {m.master}

\* createGroup, joinGroup and leaveGroup return, also when the room they
\* connect is closed by a later call.  (A call is made once, "done" is final.)
Returned == \A c \in Calls : pc[c] \in {"idle", "done"}
CallsReturn == <>[]Returned

\* In the end the launcher holds the topology the server has, also after it
\* lost its socket and was admitted again.
Synced(r) ==
  /\ room[r].socket = "open" /\ room[r].snap
  /\ room[r].master = room[r].server.master /\ room[r].members = room[r].server.members
  /\ room[r].status = room[r].server.status
Converges == <>[](current # NoCall => Synced(current))

-----------------------------------------------------------------------------
(* What the interface states and the code does not do. *)

\* "Leave the group" (runtime-api/src/multiplayer.ts:203): when the calls have
\* returned, a room that was left holds no connection to its members.
NoLinkAfterLeave == Returned => \A r \in Calls : room[r].closed => room[r].links = {}

\* When the calls have returned and every snapshot is taken, the group shown is
\* the room of getGroup().
ShownIsCurrent ==
  Returned /\ (\A r \in Calls : room[r].inbox = <<>>) =>
    shown.group = current /\ (current # NoCall => shown.state = "live")

=============================================================================
