--------------------------- MODULE PartyRoomProofs ---------------------------
(***************************************************************************)
(* Proofs about PartyRoom: the handlers keep the lobby well typed, every   *)
(* repository transaction they make is a step of PartySlots, the parties   *)
(* are sound, a START is marked, and the held coins of a lobby have an     *)
(* owner, for any number of sockets per player and any failing calls.      *)
(***************************************************************************)
EXTENDS PartyRoom, FiniteSetTheorems, TLAPS

(* A socket belongs to a player.                                           *)
LEMMA HandlerPlayer ==
  ASSUME NEW h \in Handler PROVE h[1] \in Player
BY HandlerAssumption

(* The edits of the applications leave a room a room with the same party.  *)
LEMMA EditedRooms ==
  ASSUME NEW room \in RoomState, NEW p \in Player, NEW h \in Handler
  PROVE  \A new \in {Withdrawn(room, p), Visited(h, p, room), Looped(h, room)} :
           /\ new \in RoomState
           /\ new.phase = room.phase /\ new.leader = room.leader /\ new.members = room.members
<1> DEFINE keeps(new) == /\ new \in RoomState /\ new.phase = room.phase
                         /\ new.leader = room.leader /\ new.members = room.members
<1>1. keeps(Withdrawn(room, p))
  <2>1. room.apps \ {p} \in SUBSET Player /\ room.seen \ (Handler \X {p}) \in SUBSET (Handler \X Player)
    BY DEF RoomState
  <2> QED BY <2>1 DEF Withdrawn, RoomState
<1>2. keeps(Visited(h, p, room))
  <2>1. room.seen \cup {<<h, p>>} \in SUBSET (Handler \X Player)
    BY DEF RoomState
  <2> QED BY <2>1 DEF Visited, RoomState
<1>3. keeps(Looped(h, room))
  <2>1. room.seen \ ({h} \X Player) \in SUBSET (Handler \X Player)
    BY DEF RoomState
  <2> QED BY <2>1 DEF Looped, RoomState
<1> QED BY <1>1, <1>2, <1>3

(* A room without one of its members is a room again.                      *)
LEMMA WithoutIsRoom ==
  ASSUME NEW room \in RoomState, NEW p \in Player
  PROVE  /\ Without(room, p) \in RoomState
         /\ Without(room, p).leader = room.leader
         /\ Without(room, p).phase = room.phase
         /\ Without(room, p).members = room.members \ {p}
         /\ Without(room, p).apps = room.apps
BY DEF Without, RoomState

(* Whoever leads next is a member or the leader of before.                 *)
LEMMA SuccessorsAreLeaders ==
  ASSUME NEW room \in RoomState, NEW p \in Player, NEW l \in Successors(room, p)
  PROVE  l \in Player \/ l = room.leader
BY DEF Successors, RoomState

(* A room record with another phase or leader is a room record.            *)
LEMMA PhasedIsRoom ==
  ASSUME NEW room \in RoomState, NEW phase \in RoomPhase
  PROVE  LET new == [room EXCEPT !.phase = phase]
         IN  /\ new \in RoomState /\ new.phase = phase
             /\ new.leader = room.leader /\ new.members = room.members
BY DEF RoomState

(* A room record with another leader is a room record.                     *)
LEMMA LedIsRoom ==
  ASSUME NEW room \in RoomState, NEW l \in Player \cup {NoLeader}
  PROVE  LET new == [room EXCEPT !.leader = l]
         IN  /\ new \in RoomState /\ new.phase = room.phase
             /\ new.leader = l /\ new.members = room.members
BY DEF RoomState

(* A room not yet created is a room record.                                *)
LEMMA NoRoomIsRoom ==
  NoRoom \in RoomState /\ NoRoom.phase = "UNUSED" /\ NoRoom.members = {}
BY DEF NoRoom, RoomState, RoomPhase

(* A deleted room is a room record.                                       *)
LEMMA ClosedIsRoom ==
  LET closed == [NoRoom EXCEPT !.phase = "CLOSED"]
  IN  closed \in RoomState /\ closed.phase = "CLOSED" /\ closed.members = {}
BY NoRoomIsRoom, PhasedIsRoom DEF RoomPhase

-----------------------------------------------------------------------------
(* The calls.                                                              *)

(* A handler's next step, well formed, keeps the calls well formed.        *)
LEMMA GoKeepsCalls ==
  ASSUME NEW h \in Handler, NEW call \in CallState, calls \in [Handler -> CallState],
         Go(h, call)
  PROVE  calls' \in [Handler -> CallState]
BY DEF Go

(* A handler that returns leaves the calls well typed.                     *)
LEMMA DoneKeepsCalls ==
  ASSUME NEW h \in Handler, calls \in [Handler -> CallState], Done(h)
  PROVE  calls' \in [Handler -> CallState]
<1>1. Idle \in CallState
  BY DEF CallState
<1> QED BY <1>1, GoKeepsCalls DEF Done

(* What a waiting handler knows of its arguments.                          *)
LEMMA WaitingCall ==
  ASSUME NEW c \in CallState
  PROVE  /\ c # Idle => c.room \in Room /\ c.who \in Player
         /\ c.at = "apply.reserve" => c.todo \in Offer \cup {0}
         /\ c.at = "accept.elsewhere" => c.todo \in Room
         /\ c.at \in Steps => c.todo \subseteq Player
         /\ c.at \in Steps \cup {"apply.reserve", "accept.elsewhere"} => c # Idle
BY DEF CallState, Idle, Steps

(* The call of a step with a set to do is a call state.                    *)
LEMMA StepsCall ==
  ASSUME NEW at \in Steps, NEW r \in Room, NEW p \in Player, NEW todo \in SUBSET Player
  PROVE  Call(at, r, p, todo) \in CallState
BY DEF Call, CallState

(* A handler that goes on to a step with nothing to do for a player, or    *)
(* returns, keeps the calls well typed.                                    *)
LEMMA StepOrDone ==
  ASSUME calls \in [Handler -> CallState], NEW h \in Handler, NEW at \in Steps,
         NEW r \in Room, NEW p \in Player, Go(h, Call(at, r, p, {})) \/ Done(h)
  PROVE  calls' \in [Handler -> CallState]
<1>1. Call(at, r, p, {}) \in CallState
  BY StepsCall
<1> QED BY <1>1, GoKeepsCalls, DoneKeepsCalls

-----------------------------------------------------------------------------
(* The parts of TypeOK about the rooms and about the rest.                 *)
RoomsTyped ==
  /\ rooms \in [Room -> RoomState]
  /\ \A r \in Room : Open(r) => rooms[r].leader \in Player

OthersTyped ==
  /\ online \subseteq Player
  /\ refunds \subseteq Room \X Player
  /\ timers \subseteq Room \X Player
  /\ expiring \subseteq Room \X Player \X {"timer", "connect"}
  /\ failed \subseteq SeatOp
  /\ overlap \in [Room -> Nat]

(* TypeOK by its parts.                                                    *)
LEMMA TypedParts ==
  TypeOK <=> RoomsTyped /\ OthersTyped /\ calls \in [Handler -> CallState]
BY DEF TypeOK, RoomsTyped, OthersTyped

(* The same after a step.                                                  *)
LEMMA TypedNext ==
  ASSUME RoomsTyped', OthersTyped', calls' \in [Handler -> CallState]
  PROVE  TypeOK'
BY DEF TypeOK, RoomsTyped, OthersTyped

(* Steps that leave the rest alone, or only make a repository call.        *)
LEMMA OthersUnchanged ==
  ASSUME OthersTyped, UNCHANGED <<peerVars, history>> PROVE OthersTyped'
BY DEF OthersTyped, peerVars, history

(* The calls that failed are calls about a seat.                           *)
LEMMA FailedTyped ==
  ASSUME OthersTyped, NEW r \in Room, NEW p \in Player, NEW reason \in ReasonKinds,
         Refund(r, p, reason) \/ Failing(r, p, reason) \/ Fail(r, p, reason)
  PROVE  failed' \subseteq SeatOp
<1>1. Op(reason, r, p) \in SeatOp
  BY DEF Op, SeatOp
<1>2. failed' = failed \/ failed' = failed \cup {Op(reason, r, p)}
  BY DEF Refund, Failing, Fail
<1> QED BY <1>1, <1>2 DEF OthersTyped

(* A repository call changes nothing else of the rest.                     *)
LEMMA OthersAfterCall ==
  ASSUME OthersTyped, UNCHANGED <<peerVars, overlap>>, failed' \subseteq SeatOp
  PROVE  OthersTyped'
BY DEF OthersTyped, peerVars

(* Changing one room to a well typed one keeps all the rooms so.           *)
LEMMA RoomChange ==
  ASSUME RoomsTyped, NEW r \in Room, NEW room \in RoomState,
         room.phase \in {"UNUSED", "CLOSED"} \/ room.leader \in Player,
         rooms' = [rooms EXCEPT ![r] = room]
  PROVE  RoomsTyped'
BY DEF RoomsTyped, Open

(* Changes that touch neither the phase nor the leader of a room.          *)
LEMMA RoomKept ==
  ASSUME RoomsTyped, NEW r \in Room, NEW room \in RoomState,
         room.phase = rooms[r].phase, room.leader = rooms[r].leader,
         rooms' = [rooms EXCEPT ![r] = room]
  PROVE  RoomsTyped'
BY DEF RoomsTyped, Open

(* Rooms that do not change stay well typed.                               *)
LEMMA RoomsUnchanged ==
  ASSUME RoomsTyped, UNCHANGED rooms PROVE RoomsTyped'
BY DEF RoomsTyped, Open

(* An edit of the applications of one room keeps the rooms well typed.     *)
LEMMA EditedTyped ==
  ASSUME RoomsTyped, NEW r \in Room, NEW p \in Player, NEW h \in Handler,
         NEW room \in {Withdrawn(rooms[r], p), Visited(h, p, rooms[r]), Looped(h, rooms[r])},
         rooms' = [rooms EXCEPT ![r] = room]
  PROVE  RoomsTyped'
<1>1. rooms[r] \in RoomState
  BY DEF RoomsTyped
<1>2. room \in RoomState /\ room.phase = rooms[r].phase /\ room.leader = rooms[r].leader
  BY <1>1, EditedRooms
<1> QED BY <1>2, RoomKept

(* Changing who is ready in a room keeps the rooms well typed.             *)
LEMMA ReadyChange ==
  ASSUME RoomsTyped, NEW r \in Room, NEW ready \in SUBSET Player,
         rooms' = [rooms EXCEPT ![r].ready = ready]
  PROVE  RoomsTyped'
<1>1. [rooms[r] EXCEPT !.ready = ready] \in RoomState
  BY DEF RoomsTyped, RoomState
<1>2. rooms' = [rooms EXCEPT ![r] = [rooms[r] EXCEPT !.ready = ready]]
  BY DEF RoomsTyped
<1> QED BY <1>1, <1>2, RoomKept DEF RoomsTyped, RoomState

-----------------------------------------------------------------------------
(* Each handler keeps the lobby well typed.                                *)

(* The server starts well typed.                                           *)
LEMMA InitTyped == Init => TypeOK
<1>1. Idle \in CallState
  BY DEF CallState
<1> QED BY <1>1, NoRoomIsRoom DEF Init, TypeOK, Open, NoRoom, SeatOp

(* Visiting the next applicant of an emptied room, or deleting it, keeps   *)
(* rooms and calls well typed.                                             *)
LEMMA DisbandingTyped ==
  ASSUME RoomsTyped, calls \in [Handler -> CallState], NEW h \in Handler, NEW r \in Room,
         NEW room \in RoomState, room.phase = rooms[r].phase, room.leader = rooms[r].leader,
         NextDisband(h, r, room)
  PROVE  RoomsTyped' /\ calls' \in [Handler -> CallState]
<1>1. ASSUME NEW q \in Unvisited(h, room), rooms' = [rooms EXCEPT ![r] = Visited(h, q, room)],
             Go(h, Call("disband", r, q, {}))
      PROVE  RoomsTyped' /\ calls' \in [Handler -> CallState]
  <2>1. q \in Player
    BY DEF Unvisited, RoomState
  <2>2. /\ Visited(h, q, room) \in RoomState
        /\ Visited(h, q, room).phase = rooms[r].phase
        /\ Visited(h, q, room).leader = rooms[r].leader
    BY <2>1, EditedRooms
  <2>3. RoomsTyped'
    BY <1>1, <2>2, RoomKept
  <2>4. "disband" \in Steps
    BY DEF Steps
  <2> QED BY <1>1, <2>1, <2>3, <2>4, StepOrDone
<1>2. CASE /\ rooms' = [rooms EXCEPT ![r] = [Looped(h, room) EXCEPT !.phase = "CLOSED"]]
           /\ Done(h)
  <2>1. Looped(h, room) \in RoomState
    BY HandlerPlayer, EditedRooms
  <2>2. "CLOSED" \in RoomPhase
    BY DEF RoomPhase
  <2>3. /\ [Looped(h, room) EXCEPT !.phase = "CLOSED"] \in RoomState
        /\ [Looped(h, room) EXCEPT !.phase = "CLOSED"].phase = "CLOSED"
    BY <2>1, <2>2, PhasedIsRoom
  <2>4. RoomsTyped'
    BY <1>2, <2>3, RoomChange
  <2> QED BY <1>2, <2>4, DoneKeepsCalls
<1> QED BY <1>1, <1>2 DEF NextDisband

(* The end of leaveParty keeps rooms and calls well typed.                 *)
LEMMA DropMemberTyped ==
  ASSUME RoomsTyped, calls \in [Handler -> CallState], NEW h \in Handler, NEW r \in Room,
         DropMember(h, r, rooms[r])
  PROVE  RoomsTyped' /\ calls' \in [Handler -> CallState]
<1> DEFINE room == rooms[r]
           left == Without(room, h[1])
<1>1. room \in RoomState /\ h[1] \in Player
  BY HandlerPlayer DEF RoomsTyped
<1>2. left \in RoomState /\ left.leader = room.leader /\ left.phase = room.phase
  BY <1>1, WithoutIsRoom
<1>3. ASSUME NEW l \in Successors(room, h[1]), Done(h),
             rooms' = [rooms EXCEPT ![r] = [left EXCEPT !.leader = l]]
      PROVE  RoomsTyped' /\ calls' \in [Handler -> CallState]
  <2>1. l \in Player \/ l = room.leader
    BY <1>1, SuccessorsAreLeaders
  <2>2. l \in Player \cup {NoLeader}
    BY <1>1, <2>1 DEF RoomState
  <2>3. LET new == [left EXCEPT !.leader = l]
        IN  new \in RoomState /\ new.phase = left.phase /\ new.leader = l
    BY <1>2, <2>2, LedIsRoom
  <2>4. room.phase \in {"UNUSED", "CLOSED"} \/ room.leader \in Player
    BY DEF RoomsTyped, Open
  <2> HIDE DEF left
  <2>5. RoomsTyped'
    BY <1>2, <1>3, <2>1, <2>3, <2>4, RoomChange
  <2> QED BY <1>3, <2>5, DoneKeepsCalls
<1>4. CASE NextDisband(h, r, left)
  BY <1>2, <1>4, DisbandingTyped
<1> QED BY <1>3, <1>4 DEF DropMember

(* CreateParty keeps the lobby well typed.                                 *)
LEMMA CreatePartyTyped ==
  ASSUME TypeOK, NEW h \in Handler, CreateParty(h)
  PROVE  TypeOK'
<1> DEFINE p == h[1]
           room == [NoRoom EXCEPT !.phase = "LOBBY", !.leader = p, !.members = {p}, !.conn = {p}]
<1>1. p \in Player
  BY HandlerPlayer
<1>2. room \in RoomState /\ room.leader \in Player
  BY <1>1, NoRoomIsRoom DEF RoomState, RoomPhase
<1>3. PICK r \in Room : rooms' = [rooms EXCEPT ![r] = room]
  BY DEF CreateParty
<1>4. RoomsTyped /\ OthersTyped
  BY TypedParts
<1>5. RoomsTyped'
  BY <1>2, <1>3, <1>4, RoomChange
<1>6. OthersTyped' /\ calls' \in [Handler -> CallState]
  BY <1>4, OthersUnchanged DEF CreateParty, TypeOK
<1> QED BY <1>5, <1>6, TypedNext

(* ApplyToParty keeps the lobby well typed.                                *)
LEMMA ApplyToPartyTyped ==
  ASSUME TypeOK, NEW h \in Handler, NEW r \in Room, NEW offer \in SlotOffers,
         ApplyToParty(h, r, offer)
  PROVE  TypeOK'
<1>1. rooms[r].leader \in Player
  BY DEF ApplyToParty, TypeOK, Open
<1>2. offer \in Offer \cup {0}
  BY SlotOffersAssumption
<1>3. Call("apply.reserve", r, rooms[r].leader, offer) \in CallState
  BY <1>1, <1>2 DEF Call, CallState
<1>4. calls' \in [Handler -> CallState]
  BY <1>3, GoKeepsCalls DEF ApplyToParty, TypeOK
<1>5. RoomsTyped' /\ OthersTyped'
  BY RoomsUnchanged, OthersUnchanged, TypedParts DEF ApplyToParty
<1> QED BY <1>4, <1>5, TypedNext

(* ApplyReserve keeps the lobby well typed.                                *)
LEMMA ApplyReserveTyped ==
  ASSUME TypeOK, NEW h \in Handler, ApplyReserve(h)
  PROVE  TypeOK'
<1> DEFINE r == calls[h].room
           room == [rooms[r] EXCEPT !.apps = @ \cup {h[1]}]
<1>1. calls[h] \in CallState /\ calls[h].at = "apply.reserve"
  BY DEF TypeOK, ApplyReserve
<1>2. r \in Room
  BY <1>1, WaitingCall
<1>3. rooms[r] \in RoomState /\ h[1] \in Player
  BY <1>2, HandlerPlayer DEF TypeOK
<1>4. room \in RoomState /\ room.phase = rooms[r].phase /\ room.leader = rooms[r].leader
  BY <1>3 DEF RoomState
<1>5. rooms' = [rooms EXCEPT ![r] = room] \/ UNCHANGED rooms
  BY DEF ApplyReserve
<1>6. RoomsTyped /\ OthersTyped
  BY TypedParts
<1> HIDE DEF r, room
<1>7. RoomsTyped'
  BY <1>2, <1>4, <1>5, <1>6, RoomKept, RoomsUnchanged
<1>8. OthersTyped' /\ calls' \in [Handler -> CallState]
  BY <1>6, OthersUnchanged, DoneKeepsCalls DEF ApplyReserve, TypeOK
<1> QED BY <1>7, <1>8, TypedNext

(* CancelApplication keeps the lobby well typed.                           *)
LEMMA CancelApplicationTyped ==
  ASSUME TypeOK, NEW h \in Handler, NEW r \in Room, CancelApplication(h, r)
  PROVE  TypeOK'
<1>1. RoomsTyped' /\ OthersTyped'
  BY HandlerPlayer, TypedParts, EditedTyped, OthersUnchanged DEF CancelApplication
<1>2. "cancel.refund" \in Steps /\ h[1] \in Player /\ calls \in [Handler -> CallState]
  BY HandlerPlayer DEF Steps, TypeOK
<1>3. calls' \in [Handler -> CallState]
  BY <1>2, StepOrDone DEF CancelApplication
<1> QED BY <1>1, <1>3, TypedNext

(* CancelRefund keeps the lobby well typed.                                *)
LEMMA CancelRefundTyped ==
  ASSUME TypeOK, NEW h \in Handler, CancelRefund(h)
  PROVE  TypeOK'
<1>1. calls[h].room \in Room /\ calls[h].who \in Player
  BY WaitingCall DEF CancelRefund, TypeOK, Steps
<1>2. failed' \subseteq SeatOp
  BY <1>1, TypedParts, FailedTyped DEF CancelRefund, ReasonKinds
<1>3. RoomsTyped' /\ OthersTyped'
  BY <1>2, TypedParts, RoomsUnchanged, OthersAfterCall DEF CancelRefund
<1>4. calls' \in [Handler -> CallState]
  BY DoneKeepsCalls DEF CancelRefund, TypeOK
<1> QED BY <1>3, <1>4, TypedNext

(* The overlap that an acceptance may meet is a number.                    *)
LEMMA OverlapTyped ==
  ASSUME NEW r \in Room, overlap \in [Room -> Nat], CountOverlap(r)
  PROVE  overlap' \in [Room -> Nat]
<1>1. Accepting(r) \subseteq Handler
  BY DEF Accepting
<1>2. Cardinality(Accepting(r)) \in Nat
  BY <1>1, HandlerAssumption, FS_Subset, FS_CardinalityType
<1> QED BY <1>2 DEF CountOverlap

(* ReviewApplication keeps the lobby well typed.                           *)
LEMMA ReviewApplicationTyped ==
  ASSUME TypeOK, NEW h \in Handler, NEW p \in Player, NEW accept \in BOOLEAN,
         ReviewApplication(h, p, accept)
  PROVE  TypeOK'
<1>1. PICK r \in Room :
        /\ rooms' = [rooms EXCEPT ![r] = Withdrawn(rooms[r], p)]
        /\ \/ Go(h, Call("accept.commit", r, p, {})) /\ CountOverlap(r)
           \/ Go(h, Call("reject.refund", r, p, {})) /\ UNCHANGED overlap
        /\ UNCHANGED <<peerVars, failed>>
  BY DEF ReviewApplication
<1>2. RoomsTyped'
  BY <1>1, TypedParts, EditedTyped
<1>3. "accept.commit" \in Steps /\ "reject.refund" \in Steps /\ calls \in [Handler -> CallState]
  BY DEF Steps, TypeOK
<1>4. calls' \in [Handler -> CallState]
  BY <1>1, <1>3, StepOrDone
<1>5. overlap' \in [Room -> Nat]
  BY <1>1, OverlapTyped DEF TypeOK
<1>6. OthersTyped'
  BY <1>1, <1>5 DEF TypeOK, OthersTyped, peerVars
<1> QED BY <1>2, <1>4, <1>6, TypedNext

(* RejectRefund keeps the lobby well typed.                                *)
LEMMA RejectRefundTyped ==
  ASSUME TypeOK, NEW h \in Handler, RejectRefund(h)
  PROVE  TypeOK'
<1>1. calls[h].room \in Room /\ calls[h].who \in Player
  BY WaitingCall DEF RejectRefund, TypeOK, Steps
<1>2. failed' \subseteq SeatOp
  BY <1>1, TypedParts, FailedTyped DEF RejectRefund, ReasonKinds
<1>3. RoomsTyped' /\ OthersTyped'
  BY <1>2, TypedParts, RoomsUnchanged, OthersAfterCall DEF RejectRefund
<1>4. calls' \in [Handler -> CallState]
  BY DoneKeepsCalls DEF RejectRefund, TypeOK
<1> QED BY <1>3, <1>4, TypedNext

(* NextElsewhere goes on from rooms that are not those of the state yet.   *)
WellTyped(all) ==
  /\ all \in [Room -> RoomState]
  /\ \A r \in Room : all[r].phase \notin {"UNUSED", "CLOSED"} => all[r].leader \in Player

(* Deleting the next application elsewhere keeps the types.                *)
LEMMA ElsewhereTyped ==
  ASSUME NEW h \in Handler, NEW r \in Room, NEW p \in Player, NEW last,
         NEW joined, WellTyped(joined), calls \in [Handler -> CallState],
         NextElsewhere(h, r, p, last, joined)
  PROVE  RoomsTyped' /\ calls' \in [Handler -> CallState]
<1>1. CASE rooms' = joined /\ Done(h)
  BY <1>1, DoneKeepsCalls DEF WellTyped, RoomsTyped, Open
<1>2. ASSUME NEW o \in Room, rooms' = [joined EXCEPT ![o] = Withdrawn(joined[o], p)],
             Go(h, Call("accept.elsewhere", r, p, o))
      PROVE  RoomsTyped' /\ calls' \in [Handler -> CallState]
  <2>1. joined[o] \in RoomState
    BY DEF WellTyped
  <2>2. /\ Withdrawn(joined[o], p) \in RoomState
        /\ Withdrawn(joined[o], p).phase = joined[o].phase
        /\ Withdrawn(joined[o], p).leader = joined[o].leader
    BY <2>1, EditedRooms
  <2>3. RoomsTyped'
    BY <1>2, <2>2 DEF WellTyped, RoomsTyped, Open
  <2>4. Call("accept.elsewhere", r, p, o) \in CallState
    BY DEF Call, CallState
  <2> QED BY <1>2, <2>3, <2>4, GoKeepsCalls
<1> QED BY <1>1, <1>2 DEF NextElsewhere, Elsewhere

(* The room of an acceptance with its new member.                          *)
Joined(room, p) ==
  [room EXCEPT !.members = @ \cup {p}, !.ready = @ \ {p},
     !.conn = IF p \in online THEN @ \cup {p} ELSE @ \ {p}, !.away = @ \ {p}]

(* It is a room, led as before and with one more member.                   *)
LEMMA JoinedIsRoom ==
  ASSUME NEW old \in RoomState, NEW p \in Player
  PROVE  LET room == Joined(old, p)
         IN  /\ room \in RoomState /\ room.phase = old.phase /\ room.leader = old.leader
             /\ room.members = old.members \cup {p} /\ room.apps = old.apps
<1> DEFINE members == old.members \cup {p}
           ready == old.ready \ {p}
           conn == IF p \in online THEN old.conn \cup {p} ELSE old.conn \ {p}
           away == old.away \ {p}
           room == Joined(old, p)
<1>1. /\ members \in SUBSET Player /\ ready \in SUBSET Player
      /\ conn \in SUBSET Player /\ away \in SUBSET Player
  BY DEF RoomState
<1>2. room = [old EXCEPT !.members = members, !.ready = ready, !.conn = conn, !.away = away]
  BY DEF Joined
<1>3. members = old.members \cup {p}
  OBVIOUS
<1> HIDE DEF room, members, ready, conn, away
<1>4. room \in RoomState
  BY <1>1, <1>2 DEF RoomState
<1>5. /\ room.phase = old.phase /\ room.leader = old.leader
      /\ room.members = members /\ room.apps = old.apps
  BY <1>2 DEF RoomState
<1> QED BY <1>3, <1>4, <1>5 DEF room

(* How AcceptCommit ends: the member joins, or the handler is over.        *)
LEMMA AcceptCommitRooms ==
  ASSUME TypeOK, NEW h \in Handler, AcceptCommit(h)
  PROVE  LET c == calls[h]
             joined == [rooms EXCEPT ![c.room] = Joined(rooms[c.room], c.who)]
         IN  /\ c.room \in Room /\ c.who \in Player
             /\ \/ NextElsewhere(h, c.room, c.who, 0, joined) /\ UNCHANGED failed
                \/ /\ Done(h) /\ UNCHANGED rooms
                   /\ \/ Failing(c.room, c.who, "accept")
                      \/ Fail(c.room, c.who, "accept")
<1> DEFINE c == calls[h]
           p == c.who
           joined == [rooms EXCEPT ![c.room] = Joined(rooms[c.room], p)]
           listed == [rooms EXCEPT ![c.room].members = @ \cup {p}, ![c.room].ready = @ \ {p},
                        ![c.room].conn = IF p \in online THEN @ \cup {p} ELSE @ \ {p},
                        ![c.room].away = @ \ {p}]
<1>1. c.room \in Room /\ p \in Player
  BY WaitingCall DEF AcceptCommit, TypeOK, Steps
<1>2. listed = joined
  BY <1>1 DEF TypeOK, RoomState, Joined
<1>3. \/ NextElsewhere(h, c.room, p, 0, listed) /\ UNCHANGED failed
      \/ /\ Done(h) /\ UNCHANGED rooms
         /\ Failing(c.room, p, "accept") \/ Fail(c.room, p, "accept")
  BY DEF AcceptCommit
<1> QED BY <1>1, <1>2, <1>3

(* AcceptCommit keeps the lobby well typed.                                *)
LEMMA AcceptCommitTyped ==
  ASSUME TypeOK, NEW h \in Handler, AcceptCommit(h)
  PROVE  TypeOK'
<1> DEFINE c == calls[h]
           joined == [rooms EXCEPT ![c.room] = Joined(rooms[c.room], c.who)]
<1>1. /\ c.room \in Room /\ c.who \in Player
      /\ \/ NextElsewhere(h, c.room, c.who, 0, joined) /\ UNCHANGED failed
         \/ /\ Done(h) /\ UNCHANGED rooms
            /\ Failing(c.room, c.who, "accept") \/ Fail(c.room, c.who, "accept")
  BY AcceptCommitRooms
<1>2. rooms[c.room] \in RoomState
  BY <1>1 DEF TypeOK
<1>3. WellTyped(joined)
  <2> DEFINE room == Joined(rooms[c.room], c.who)
  <2>1. /\ room \in RoomState /\ room.phase = rooms[c.room].phase
        /\ room.leader = rooms[c.room].leader
    BY <1>1, <1>2, JoinedIsRoom
  <2> HIDE DEF room
  <2> QED BY <1>1, <2>1 DEF TypeOK, WellTyped, Open, room
<1>4. RoomsTyped /\ OthersTyped /\ calls \in [Handler -> CallState]
  BY TypedParts
<1>5. failed' \subseteq SeatOp
  BY <1>1, <1>4, FailedTyped DEF ReasonKinds, OthersTyped
<1>6. UNCHANGED <<peerVars, overlap>>
  BY DEF AcceptCommit
<1> HIDE DEF c, joined
<1>7. RoomsTyped' /\ calls' \in [Handler -> CallState]
  BY <1>1, <1>3, <1>4, ElsewhereTyped, DoneKeepsCalls, RoomsUnchanged
<1> QED BY <1>4, <1>5, <1>6, <1>7, OthersAfterCall, TypedNext

(* AcceptElsewhere keeps the lobby well typed.                             *)
LEMMA AcceptElsewhereTyped ==
  ASSUME TypeOK, NEW h \in Handler, AcceptElsewhere(h)
  PROVE  TypeOK'
<1> DEFINE c == calls[h]
<1>1. c.room \in Room /\ c.who \in Player /\ c.todo \in Room
  BY WaitingCall DEF AcceptElsewhere, TypeOK
<1>2. WellTyped(rooms) /\ RoomsTyped /\ OthersTyped /\ calls \in [Handler -> CallState]
  BY TypedParts DEF WellTyped, TypeOK, Open
<1>3. \/ NextElsewhere(h, c.room, c.who, c.todo, rooms)
      \/ Done(h) /\ UNCHANGED rooms
  BY DEF AcceptElsewhere
<1>4. failed' \subseteq SeatOp
  BY <1>1, <1>2, FailedTyped DEF AcceptElsewhere, ReasonKinds
<1>5. UNCHANGED <<peerVars, overlap>>
  BY DEF AcceptElsewhere
<1> HIDE DEF c
<1>6. RoomsTyped' /\ calls' \in [Handler -> CallState]
  BY <1>1, <1>2, <1>3, ElsewhereTyped, DoneKeepsCalls, RoomsUnchanged
<1> QED BY <1>2, <1>4, <1>5, <1>6, OthersAfterCall, TypedNext

(* LeaveParty keeps the lobby well typed.                                  *)
LEMMA LeavePartyTyped ==
  ASSUME TypeOK, NEW h \in Handler, LeaveParty(h)
  PROVE  TypeOK'
<1>1. PICK r \in Room :
        /\ \/ Go(h, Call("leave.refund", r, h[1], {})) /\ UNCHANGED rooms
           \/ DropMember(h, r, rooms[r])
        /\ UNCHANGED <<peerVars, history>>
  BY DEF LeaveParty
<1>2. "leave.refund" \in Steps /\ h[1] \in Player
  BY HandlerPlayer DEF Steps
<1>3. RoomsTyped /\ OthersTyped /\ calls \in [Handler -> CallState]
  BY TypedParts
<1>4. RoomsTyped' /\ calls' \in [Handler -> CallState]
  BY <1>1, <1>2, <1>3, StepOrDone, RoomsUnchanged, DropMemberTyped
<1> QED BY <1>1, <1>3, <1>4, OthersUnchanged, TypedNext

(* LeaveRefund keeps the lobby well typed.                                 *)
LEMMA LeaveRefundTyped ==
  ASSUME TypeOK, NEW h \in Handler, LeaveRefund(h)
  PROVE  TypeOK'
<1>1. calls[h].room \in Room /\ h[1] \in Player /\ "leave.resume" \in Steps
  BY WaitingCall, HandlerPlayer DEF LeaveRefund, TypeOK, Steps
<1>2. RoomsTyped /\ OthersTyped /\ calls \in [Handler -> CallState]
  BY TypedParts
<1>3. failed' \subseteq SeatOp
  BY <1>1, <1>2, FailedTyped DEF LeaveRefund, ReasonKinds
<1>4. RoomsTyped' /\ OthersTyped'
  BY <1>2, <1>3, RoomsUnchanged, OthersAfterCall DEF LeaveRefund
<1>5. calls' \in [Handler -> CallState]
  BY <1>1, <1>2, StepOrDone DEF LeaveRefund
<1> QED BY <1>4, <1>5, TypedNext

(* LeaveResume keeps the lobby well typed.                                 *)
LEMMA LeaveResumeTyped ==
  ASSUME TypeOK, NEW h \in Handler, LeaveResume(h)
  PROVE  TypeOK'
<1> DEFINE c == calls[h]
           room == rooms[c.room]
           others == (room.members \cup room.apps) \ {h[1]}
<1>1. c.room \in Room /\ h[1] \in Player
  BY WaitingCall, HandlerPlayer DEF LeaveResume, TypeOK, Steps
<1>2. others \in SUBSET Player
  BY <1>1 DEF TypeOK, RoomState
<1>3. RoomsTyped /\ OthersTyped /\ calls \in [Handler -> CallState]
  BY TypedParts
<1>4. OthersTyped'
  BY <1>3, OthersUnchanged DEF LeaveResume
<1>5. CASE Go(h, Call("leave.others", c.room, h[1], others)) /\ UNCHANGED rooms
  <2>1. Call("leave.others", c.room, h[1], others) \in CallState
    BY <1>1, <1>2, StepsCall DEF Steps
  <2> QED BY <1>3, <1>4, <1>5, <2>1, GoKeepsCalls, RoomsUnchanged, TypedNext
<1>6. CASE DropMember(h, c.room, room)
  BY <1>1, <1>3, <1>4, <1>6, DropMemberTyped, TypedNext
<1>7. CASE Done(h) /\ UNCHANGED rooms
  BY <1>3, <1>4, <1>7, DoneKeepsCalls, RoomsUnchanged, TypedNext
<1> QED BY <1>5, <1>6, <1>7 DEF LeaveResume

(* LeaveOthers keeps the lobby well typed.                                 *)
LEMMA LeaveOthersTyped ==
  ASSUME TypeOK, NEW h \in Handler, LeaveOthers(h)
  PROVE  TypeOK'
<1> DEFINE c == calls[h]
<1>1. c \in CallState /\ c.room \in Room /\ c.todo \in SUBSET Player /\ c.at = "leave.others"
  BY WaitingCall DEF LeaveOthers, TypeOK, Steps
<1>2. PICK q \in c.todo :
        /\ Refund(c.room, q, "leader-left") \/ Failing(c.room, q, "leader-left")
        /\ \/ DropMember(h, c.room, rooms[c.room])
           \/ Go(h, [c EXCEPT !.todo = @ \ {q}]) /\ UNCHANGED rooms
           \/ Done(h) /\ UNCHANGED rooms
  BY DEF LeaveOthers
<1>3. RoomsTyped /\ OthersTyped /\ calls \in [Handler -> CallState]
  BY TypedParts
<1>4. q \in Player /\ "leader-left" \in ReasonKinds
  BY <1>1 DEF ReasonKinds
<1>5. OthersTyped'
  BY <1>1, <1>2, <1>3, <1>4, FailedTyped, OthersAfterCall DEF LeaveOthers
<1>6. [c EXCEPT !.todo = @ \ {q}] \in CallState
  BY <1>1 DEF CallState, Steps, Idle
<1> HIDE DEF c
<1>7. RoomsTyped' /\ calls' \in [Handler -> CallState]
  BY <1>1, <1>2, <1>3, <1>6, GoKeepsCalls, DoneKeepsCalls, RoomsUnchanged, DropMemberTyped
<1> QED BY <1>5, <1>7, TypedNext

(* Disband keeps the lobby well typed.                                     *)
LEMMA DisbandTyped ==
  ASSUME TypeOK, NEW h \in Handler, Disband(h)
  PROVE  TypeOK'
<1> DEFINE c == calls[h]
<1>1. c.room \in Room /\ c.who \in Player
  BY WaitingCall DEF Disband, TypeOK, Steps
<1>2. RoomsTyped /\ OthersTyped /\ calls \in [Handler -> CallState]
  BY TypedParts
<1>3. OthersTyped'
  BY <1>1, <1>2, FailedTyped, OthersAfterCall DEF Disband, ReasonKinds
<1>4. CASE NextDisband(h, c.room, rooms[c.room])
  <2>1. rooms[c.room] \in RoomState
    BY <1>1 DEF TypeOK
  <2> HIDE DEF c
  <2> QED BY <1>1, <1>2, <1>3, <1>4, <2>1, DisbandingTyped, TypedNext
<1>5. CASE Done(h) /\ rooms' = [rooms EXCEPT ![c.room] = Looped(h, rooms[c.room])]
  <2> HIDE DEF c
  <2>1. RoomsTyped'
    BY <1>1, <1>2, <1>5, EditedTyped
  <2> QED BY <1>2, <1>3, <1>5, <2>1, DoneKeepsCalls, TypedNext
<1> QED BY <1>4, <1>5 DEF Disband

(* SetReady keeps the lobby well typed.                                    *)
LEMMA SetReadyTyped ==
  ASSUME TypeOK, NEW h \in Handler, NEW ready \in BOOLEAN, SetReady(h, ready)
  PROVE  TypeOK'
<1>1. PICK r \in Room :
        /\ rooms' = [rooms EXCEPT ![r].ready = IF ready THEN @ \cup {h[1]} ELSE @ \ {h[1]}]
        /\ UNCHANGED <<peerVars, history, calls>>
  BY DEF SetReady
<1> DEFINE now == IF ready THEN rooms[r].ready \cup {h[1]} ELSE rooms[r].ready \ {h[1]}
<1>2. now \in SUBSET Player /\ rooms' = [rooms EXCEPT ![r].ready = now]
  BY <1>1, HandlerPlayer DEF TypeOK, RoomState
<1>3. RoomsTyped' /\ OthersTyped'
  BY <1>1, <1>2, TypedParts, ReadyChange, OthersUnchanged
<1> QED BY <1>1, <1>3, TypedNext DEF TypeOK

(* SelectRiftFloor keeps the lobby well typed.                             *)
LEMMA SelectRiftFloorTyped ==
  ASSUME TypeOK, NEW h \in Handler, SelectRiftFloor(h)
  PROVE  TypeOK'
<1>1. PICK r \in Room : Go(h, Call("floor.read", r, h[1], {}))
  BY DEF SelectRiftFloor
<1>2. "floor.read" \in Steps /\ h[1] \in Player
  BY HandlerPlayer DEF Steps
<1>3. RoomsTyped' /\ OthersTyped'
  BY TypedParts, RoomsUnchanged, OthersUnchanged DEF SelectRiftFloor
<1>4. calls' \in [Handler -> CallState]
  BY <1>1, <1>2, StepOrDone DEF TypeOK
<1> QED BY <1>3, <1>4, TypedNext

(* FloorRead keeps the lobby well typed.                                   *)
LEMMA FloorReadTyped ==
  ASSUME TypeOK, NEW h \in Handler, FloorRead(h)
  PROVE  TypeOK'
<1> DEFINE r == calls[h].room
           now == rooms[r].ready \ rooms[r].members
<1>1. r \in Room
  BY WaitingCall DEF FloorRead, TypeOK, Steps
<1>2. now \in SUBSET Player
  BY <1>1 DEF TypeOK, RoomState
<1>3. UNCHANGED rooms \/ rooms' = [rooms EXCEPT ![r].ready = now]
  BY <1>1 DEF FloorRead, TypeOK
<1>4. RoomsTyped'
  BY <1>1, <1>2, <1>3, TypedParts, ReadyChange, RoomsUnchanged
<1>5. OthersTyped' /\ calls' \in [Handler -> CallState]
  BY TypedParts, OthersUnchanged, DoneKeepsCalls DEF FloorRead
<1> QED BY <1>4, <1>5, TypedNext

(* StartExpedition keeps the lobby well typed.                             *)
LEMMA StartExpeditionTyped ==
  ASSUME TypeOK, NEW h \in Handler, StartExpedition(h)
  PROVE  TypeOK'
<1>1. PICK r \in Room : Go(h, Call("start.read", r, h[1], {}))
  BY DEF StartExpedition
<1>2. "start.read" \in Steps /\ h[1] \in Player
  BY HandlerPlayer DEF Steps
<1>3. RoomsTyped' /\ OthersTyped'
  BY TypedParts, RoomsUnchanged, OthersUnchanged DEF StartExpedition
<1>4. calls' \in [Handler -> CallState]
  BY <1>1, <1>2, StepOrDone DEF TypeOK
<1> QED BY <1>3, <1>4, TypedNext

(* The next step of START's loop keeps rooms and calls well typed.         *)
LEMMA RejectingTyped ==
  ASSUME RoomsTyped, calls \in [Handler -> CallState], NEW h \in Handler, NEW r \in Room,
         NextReject(h, r)
  PROVE  RoomsTyped' /\ calls' \in [Handler -> CallState]
<1>1. h[1] \in Player /\ "start.reject" \in Steps /\ "start.prepare" \in Steps
  BY HandlerPlayer DEF Steps
<1>2. ASSUME NEW q \in Unvisited(h, rooms[r]),
             rooms' = [rooms EXCEPT ![r] = Visited(h, q, rooms[r])],
             Go(h, Call("start.reject", r, q, {}))
      PROVE  RoomsTyped' /\ calls' \in [Handler -> CallState]
  <2>1. q \in Player
    BY DEF Unvisited, RoomsTyped, RoomState
  <2>2. RoomsTyped'
    BY <1>2, <2>1, EditedTyped
  <2> QED BY <1>1, <1>2, <2>1, <2>2, StepOrDone
<1>3. CASE /\ rooms' = [rooms EXCEPT ![r] = Looped(h, rooms[r])]
           /\ Go(h, Call("start.prepare", r, h[1], {})) \/ Done(h)
  BY <1>1, <1>3, EditedTyped, StepOrDone
<1> QED BY <1>2, <1>3 DEF NextReject

(* StartRead keeps the lobby well typed.                                   *)
LEMMA StartReadTyped ==
  ASSUME TypeOK, NEW h \in Handler, StartRead(h)
  PROVE  TypeOK'
<1>1. calls[h].room \in Room
  BY WaitingCall DEF StartRead, TypeOK, Steps
<1>2. RoomsTyped' /\ calls' \in [Handler -> CallState]
  BY <1>1, TypedParts, RejectingTyped, DoneKeepsCalls, RoomsUnchanged DEF StartRead
<1> QED BY <1>2, TypedParts, OthersUnchanged, TypedNext DEF StartRead

(* StartReject keeps the lobby well typed.                                 *)
LEMMA StartRejectTyped ==
  ASSUME TypeOK, NEW h \in Handler, StartReject(h)
  PROVE  TypeOK'
<1> DEFINE c == calls[h]
<1>1. c.room \in Room /\ c.who \in Player
  BY WaitingCall DEF StartReject, TypeOK, Steps
<1>2. RoomsTyped /\ OthersTyped /\ calls \in [Handler -> CallState]
  BY TypedParts
<1>3. OthersTyped'
  BY <1>1, <1>2, FailedTyped, OthersAfterCall DEF StartReject, ReasonKinds
<1>4. \/ NextReject(h, c.room)
      \/ Done(h) /\ rooms' = [rooms EXCEPT ![c.room] = Looped(h, rooms[c.room])]
  BY DEF StartReject
<1> HIDE DEF c
<1>5. RoomsTyped' /\ calls' \in [Handler -> CallState]
  BY <1>1, <1>2, <1>4, RejectingTyped, EditedTyped, DoneKeepsCalls
<1> QED BY <1>3, <1>5, TypedNext

(* StartPrepare keeps the lobby well typed.                                *)
LEMMA StartPrepareTyped ==
  ASSUME TypeOK, NEW h \in Handler, StartPrepare(h)
  PROVE  TypeOK'
<1> DEFINE r == calls[h].room
<1>1. r \in Room /\ h[1] \in Player
  BY WaitingCall, HandlerPlayer DEF StartPrepare, TypeOK, Steps
<1>2. rooms[r].members \in SUBSET Player
  BY <1>1 DEF TypeOK, RoomState
<1>3. Call("start.commit", r, h[1], rooms[r].members) \in CallState
  BY <1>1, <1>2, StepsCall DEF Steps
<1>4. Go(h, Call("start.commit", r, h[1], rooms[r].members)) \/ Done(h)
  BY DEF StartPrepare
<1>5. calls' \in [Handler -> CallState]
  BY <1>3, <1>4, GoKeepsCalls, DoneKeepsCalls DEF TypeOK
<1> QED BY <1>5, TypedParts, RoomsUnchanged, OthersUnchanged, TypedNext DEF StartPrepare

(* What StartCommit makes of its room.                                     *)
Started(room) ==
  [room EXCEPT !.phase = IF @ \notin {"UNUSED", "CLOSED"} THEN "RUNNING" ELSE @,
               !.apps = {}, !.seen = {}]

(* It is a room with the same party, in a run unless it was deleted.       *)
LEMMA StartedIsRoom ==
  ASSUME NEW old \in RoomState
  PROVE  LET room == Started(old)
         IN  /\ room \in RoomState /\ room.leader = old.leader /\ room.members = old.members
             /\ room.phase = IF old.phase \in {"UNUSED", "CLOSED"} THEN old.phase ELSE "RUNNING"
             /\ room.apps = {}
<1> DEFINE phase == IF old.phase \notin {"UNUSED", "CLOSED"} THEN "RUNNING" ELSE old.phase
           room == Started(old)
<1>1. phase \in RoomPhase
  BY DEF RoomState, RoomPhase
<1>2. room = [old EXCEPT !.phase = phase, !.apps = {}, !.seen = {}]
  BY DEF Started
<1>3. phase = IF old.phase \in {"UNUSED", "CLOSED"} THEN old.phase ELSE "RUNNING"
  OBVIOUS
<1> HIDE DEF room, phase
<1>4. /\ room.phase = phase /\ room.leader = old.leader
      /\ room.members = old.members /\ room.apps = {}
  BY <1>2 DEF RoomState
<1>5. room \in RoomState
  BY <1>1, <1>2 DEF RoomState
<1> QED BY <1>3, <1>4, <1>5 DEF room

(* What StartCommit does: the room is activated with the transaction or    *)
(* with its recorded result, else nothing changes.                         *)
LEMMA StartCommitRooms ==
  ASSUME TypeOK, NEW h \in Handler, StartCommit(h)
  PROVE  LET r == calls[h].room
             todo == calls[h].todo
         IN  /\ r \in Room /\ todo \in SUBSET Player
             /\ \/ /\ rooms' = [rooms EXCEPT ![r] = Started(rooms[r])]
                   /\ \/ Slots!StartExpedition(r, h[1], todo)
                      \/ Slots!StartKey(r) \in operations /\ UNCHANGED slotVars
                \/ UNCHANGED rooms /\ UNCHANGED slotVars
<1> DEFINE r == calls[h].room
           todo == calls[h].todo
           paid == \/ Slots!StartExpedition(r, h[1], todo)
                   \/ Slots!StartKey(r) \in operations /\ UNCHANGED slotVars
<1>1. r \in Room /\ todo \in SUBSET Player
  BY WaitingCall DEF StartCommit, TypeOK, Steps
<1>2. \/ /\ rooms' = [rooms EXCEPT ![r].phase = IF Open(r) THEN "RUNNING" ELSE @,
                                   ![r].apps = {}, ![r].seen = {}]
         /\ paid
      \/ UNCHANGED rooms /\ UNCHANGED slotVars
  BY DEF StartCommit
<1> HIDE DEF paid
<1>3. \/ rooms' = [rooms EXCEPT ![r] = Started(rooms[r])] /\ paid
      \/ UNCHANGED rooms /\ UNCHANGED slotVars
  BY <1>1, <1>2 DEF TypeOK, RoomState, Started, Open
<1> QED BY <1>1, <1>3 DEF paid

(* StartCommit keeps the lobby well typed.                                 *)
LEMMA StartCommitTyped ==
  ASSUME TypeOK, NEW h \in Handler, StartCommit(h)
  PROVE  TypeOK'
<1> DEFINE r == calls[h].room
           room == Started(rooms[r])
<1>1. /\ r \in Room
      /\ rooms' = [rooms EXCEPT ![r] = room] \/ UNCHANGED rooms
  BY StartCommitRooms
<1>2. rooms[r] \in RoomState /\ (Open(r) => rooms[r].leader \in Player)
  BY <1>1 DEF TypeOK
<1>3. /\ room \in RoomState /\ room.leader = rooms[r].leader
      /\ room.phase \notin {"UNUSED", "CLOSED"} => Open(r)
  BY <1>2, StartedIsRoom DEF Open
<1>4. RoomsTyped /\ OthersTyped
  BY TypedParts
<1> HIDE DEF r, room
<1>5. RoomsTyped'
  BY <1>1, <1>2, <1>3, <1>4, RoomChange, RoomsUnchanged
<1>6. OthersTyped' /\ calls' \in [Handler -> CallState]
  BY <1>4, OthersUnchanged, DoneKeepsCalls DEF StartCommit, TypeOK
<1> QED BY <1>5, <1>6, TypedNext

(* FinishExpedition keeps the lobby well typed.                            *)
LEMMA FinishExpeditionTyped ==
  ASSUME TypeOK, NEW r \in Room, FinishExpedition(r)
  PROVE  TypeOK'
<1> DEFINE room == [rooms[r] EXCEPT !.phase = "FINISHED"]
<1>1. /\ rooms[r] \in RoomState
      /\ rooms[r].leader \in Player
  BY DEF FinishExpedition, TypeOK, Open
<1>2. room \in RoomState /\ room.leader = rooms[r].leader
  BY <1>1, PhasedIsRoom DEF RoomPhase
<1>3. rooms' = [rooms EXCEPT ![r] = room]
  BY DEF FinishExpedition, TypeOK
<1>4. RoomsTyped'
  BY <1>1, <1>2, <1>3, TypedParts, RoomChange
<1>5. OthersTyped' /\ calls' \in [Handler -> CallState]
  BY TypedParts, OthersUnchanged DEF FinishExpedition, TypeOK
<1> QED BY <1>4, <1>5, TypedNext

(* FinalizeRoom keeps the lobby well typed.                                *)
LEMMA FinalizeRoomTyped ==
  ASSUME TypeOK, NEW r \in Room, FinalizeRoom(r)
  PROVE  TypeOK'
<1>1. RoomsTyped'
  BY ClosedIsRoom, TypedParts, RoomChange DEF FinalizeRoom
<1>2. OthersTyped' /\ calls' \in [Handler -> CallState]
  BY TypedParts, OthersUnchanged DEF FinalizeRoom, TypeOK
<1> QED BY <1>1, <1>2, TypedNext

(* A room one of whose members loses its peer.                             *)
Absent(room, p) == [room EXCEPT !.conn = @ \ {p}, !.away = @ \cup {p}]

(* Marking a member connected or away keeps the party of a room.           *)
LEMMA PresenceIsRoom ==
  ASSUME NEW room \in RoomState, NEW p \in Player
  PROVE  \A new \in {Absent(room, p), [room EXCEPT !.conn = @ \cup {p}, !.away = @ \ {p}]} :
           /\ new \in RoomState /\ new.phase = room.phase /\ new.leader = room.leader
           /\ new.members = room.members /\ new.apps = room.apps
<1> DEFINE keeps(new) == /\ new \in RoomState /\ new.phase = room.phase
                         /\ new.leader = room.leader
                         /\ new.members = room.members /\ new.apps = room.apps
<1>1. ASSUME NEW conn \in SUBSET Player, NEW away \in SUBSET Player
      PROVE  keeps([room EXCEPT !.conn = conn, !.away = away])
  BY DEF RoomState
<1> DEFINE more == room.conn \cup {p}
           fewer == room.conn \ {p}
           back == room.away \ {p}
           gone == room.away \cup {p}
<1>2. /\ more \in SUBSET Player /\ fewer \in SUBSET Player
      /\ back \in SUBSET Player /\ gone \in SUBSET Player
  BY DEF RoomState
<1> HIDE DEF keeps
<1>3. keeps([room EXCEPT !.conn = fewer, !.away = gone])
  <2> HIDE DEF fewer, gone
  <2> QED BY <1>1, <1>2
<1>4. keeps([room EXCEPT !.conn = more, !.away = back])
  <2> HIDE DEF more, back
  <2> QED BY <1>1, <1>2
<1> QED BY <1>3, <1>4 DEF Absent, keeps

(* What Disconnect does to the rooms.                                      *)
LEMMA DisconnectRooms ==
  ASSUME TypeOK, NEW p \in Player, Disconnect(p)
  PROVE  /\ rooms' \in [Room -> RoomState]
         /\ \A r \in Room :
              /\ rooms'[r].phase = rooms[r].phase
              /\ rooms'[r].leader = rooms[r].leader
              /\ rooms'[r].members = rooms[r].members
              /\ rooms[r].apps \ {p} \subseteq rooms'[r].apps
<1> DEFINE applied == {r \in Room : Open(r) /\ p \in rooms[r].apps}
           mine == {r \in Room : IsRoomOf(r, p)}
           left(r) == IF r \in applied THEN Withdrawn(rooms[r], p) ELSE rooms[r]
           after(r) == IF r \in mine THEN Absent(left(r), p) ELSE left(r)
           keeps(new, r) == /\ new \in RoomState /\ new.phase = rooms[r].phase
                            /\ new.leader = rooms[r].leader
                            /\ new.members = rooms[r].members
                            /\ rooms[r].apps \ {p} \subseteq new.apps
<1>1. rooms' = [r \in Room |-> after(r)]
  BY DEF Disconnect, Absent
<1>2. ASSUME NEW r \in Room PROVE keeps(after(r), r)
  <2>1. rooms[r] \in RoomState
    BY DEF TypeOK
  <2>2. keeps(left(r), r)
    <3>1. Withdrawn(rooms[r], p) \in RoomState
      <4>1. /\ rooms[r].apps \ {p} \in SUBSET Player
            /\ rooms[r].seen \ (Handler \X {p}) \in SUBSET (Handler \X Player)
        BY <2>1 DEF RoomState
      <4> QED BY <2>1, <4>1 DEF Withdrawn, RoomState
    <3>2. keeps(Withdrawn(rooms[r], p), r)
      BY <2>1, <3>1 DEF Withdrawn, RoomState
    <3> QED BY <2>1, <3>2
  <2> DEFINE was == left(r)
  <2>3. was \in RoomState /\ keeps(was, r)
    BY <2>2
  <2> HIDE DEF was
  <2>4. keeps(Absent(was, p), r)
    BY <2>3, PresenceIsRoom
  <2> QED BY <2>3, <2>4 DEF was
<1> HIDE DEF after
<1>3. \A r \in Room : keeps(rooms'[r], r)
  BY <1>1, <1>2
<1> QED BY <1>1, <1>2, <1>3

(* Disconnect keeps the lobby well typed.                                  *)
LEMMA DisconnectTyped ==
  ASSUME TypeOK, NEW p \in Player, Disconnect(p)
  PROVE  TypeOK'
<1> DEFINE applied == {r \in Room : Open(r) /\ p \in rooms[r].apps}
           mine == {r \in Room : IsRoomOf(r, p)}
<1>1. /\ refunds' = refunds \cup (applied \X {p})
      /\ timers' = timers \cup (mine \X {p})
      /\ online' = online \ {p}
      /\ UNCHANGED <<history, calls, expiring>>
  BY DEF Disconnect
<1>2. applied \X {p} \subseteq Room \X Player /\ mine \X {p} \subseteq Room \X Player
  OBVIOUS
<1> HIDE DEF applied, mine
<1>3. OthersTyped' /\ calls' \in [Handler -> CallState]
  BY <1>1, <1>2 DEF TypeOK, OthersTyped, history
<1>4. RoomsTyped'
  BY DisconnectRooms DEF TypeOK, RoomsTyped, Open
<1> QED BY <1>3, <1>4, TypedNext

(* What Connect does to the rooms.                                         *)
LEMMA ConnectRooms ==
  ASSUME TypeOK, NEW p \in Player, Connect(p)
  PROVE  /\ rooms' \in [Room -> RoomState]
         /\ \A r \in Room :
              /\ rooms'[r].phase = rooms[r].phase
              /\ rooms'[r].leader = rooms[r].leader
              /\ rooms'[r].members = rooms[r].members
              /\ rooms'[r].apps = rooms[r].apps
<1> DEFINE mine == {r \in Room : IsRoomOf(r, p)}
           back(r) == [rooms[r] EXCEPT !.conn = @ \cup {p}, !.away = @ \ {p}]
           after(r) == IF r \in mine THEN back(r) ELSE rooms[r]
           keeps(new, r) == /\ new \in RoomState /\ new.phase = rooms[r].phase
                            /\ new.leader = rooms[r].leader
                            /\ new.members = rooms[r].members
                            /\ new.apps = rooms[r].apps
<1>1. rooms' = [r \in Room |-> after(r)]
  BY DEF Connect
<1>2. ASSUME NEW r \in Room PROVE keeps(after(r), r)
  <2>1. rooms[r] \in RoomState
    BY DEF TypeOK
  <2>2. keeps(back(r), r)
    BY <2>1, PresenceIsRoom
  <2> QED BY <2>1, <2>2
<1> HIDE DEF after
<1>3. \A r \in Room : keeps(rooms'[r], r)
  BY <1>1, <1>2
<1> QED BY <1>1, <1>2, <1>3

(* Connect keeps the lobby well typed.                                     *)
LEMMA ConnectTyped ==
  ASSUME TypeOK, NEW p \in Player, Connect(p)
  PROVE  TypeOK'
<1>1. RoomsTyped'
  BY ConnectRooms DEF TypeOK, RoomsTyped, Open
<1>2. OthersTyped' /\ calls' \in [Handler -> CallState]
  BY DEF Connect, TypeOK, OthersTyped, history
<1> QED BY <1>1, <1>2, TypedNext

(* LateConnect keeps the lobby well typed.                                 *)
LEMMA LateConnectTyped ==
  ASSUME TypeOK, NEW p \in Player, LateConnect(p)
  PROVE  TypeOK'
<1>1. RoomsTyped'
  BY TypedParts, RoomsUnchanged DEF LateConnect
<1>2. OthersTyped' /\ calls' \in [Handler -> CallState]
  BY DEF LateConnect, TypeOK, OthersTyped, history
<1> QED BY <1>1, <1>2, TypedNext

(* DisconnectRefund keeps the lobby well typed.                            *)
LEMMA DisconnectRefundTyped ==
  ASSUME TypeOK, NEW r \in Room, NEW p \in Player, DisconnectRefund(r, p)
  PROVE  TypeOK'
<1>1. RoomsTyped'
  BY TypedParts, RoomsUnchanged DEF DisconnectRefund
<1>2. failed' \subseteq SeatOp
  BY TypedParts, FailedTyped DEF DisconnectRefund, ReasonKinds
<1>3. OthersTyped' /\ calls' \in [Handler -> CallState]
  BY <1>2 DEF DisconnectRefund, TypeOK, OthersTyped
<1> QED BY <1>1, <1>3, TypedNext

(* ReconnectExpiry keeps the lobby well typed.                             *)
LEMMA ReconnectExpiryTyped ==
  ASSUME TypeOK, NEW r \in Room, NEW p \in Player, ReconnectExpiry(r, p)
  PROVE  TypeOK'
<1>1. RoomsTyped'
  BY TypedParts, RoomsUnchanged DEF ReconnectExpiry
<1>2. OthersTyped' /\ calls' \in [Handler -> CallState]
  BY DEF ReconnectExpiry, TypeOK, OthersTyped, history
<1> QED BY <1>1, <1>2, TypedNext

(* What ExpiredRemoval makes of the room when its refund succeeds.         *)
LEMMA ExpiredRemovalRooms ==
  ASSUME TypeOK, NEW r \in Room, NEW p \in Player, NEW by, ExpiredRemoval(r, p, by)
  PROVE  \/ UNCHANGED rooms /\ Failing(r, p, "expired")
         \/ /\ Refund(r, p, "expired")
            /\ LET left == Without(rooms[r], p)
               IN  \/ /\ left.members = {}
                      /\ rooms' = [rooms EXCEPT ![r] = [left EXCEPT !.phase = "CLOSED"]]
                   \/ /\ left.members # {}
                      /\ \E l \in Successors(rooms[r], p) :
                           rooms' = [rooms EXCEPT ![r] = [left EXCEPT !.leader = l]]
BY DEF ExpiredRemoval

(* ExpiredRemoval keeps the lobby well typed.                              *)
LEMMA ExpiredRemovalTyped ==
  ASSUME TypeOK, NEW r \in Room, NEW p \in Player, NEW by \in {"timer", "connect"},
         ExpiredRemoval(r, p, by)
  PROVE  TypeOK'
<1> DEFINE left == Without(rooms[r], p)
<1>1. rooms[r] \in RoomState
  BY DEF TypeOK
<1>2. left \in RoomState /\ left.phase = rooms[r].phase /\ left.leader = rooms[r].leader
  BY <1>1, WithoutIsRoom
<1>3. RoomsTyped /\ OthersTyped
  BY TypedParts
<1>4. failed' \subseteq SeatOp
  BY <1>3, FailedTyped DEF ExpiredRemoval, ReasonKinds
<1>5. OthersTyped' /\ calls' \in [Handler -> CallState]
  BY <1>4 DEF ExpiredRemoval, TypeOK, OthersTyped
<1>6. CASE UNCHANGED rooms
  BY <1>3, <1>5, <1>6, RoomsUnchanged, TypedNext
<1>7. CASE rooms' = [rooms EXCEPT ![r] = [left EXCEPT !.phase = "CLOSED"]]
  <2>1. /\ [left EXCEPT !.phase = "CLOSED"] \in RoomState
        /\ [left EXCEPT !.phase = "CLOSED"].phase = "CLOSED"
    BY <1>2, PhasedIsRoom DEF RoomPhase
  <2>2. RoomsTyped'
    BY <1>3, <1>7, <2>1, RoomChange
  <2> QED BY <1>5, <2>2, TypedNext
<1>8. ASSUME NEW l \in Successors(rooms[r], p),
             rooms' = [rooms EXCEPT ![r] = [left EXCEPT !.leader = l]]
      PROVE  TypeOK'
  <2>1. l \in Player \/ l = rooms[r].leader
    BY <1>1, SuccessorsAreLeaders
  <2>2. l \in Player \cup {NoLeader}
    BY <1>1, <2>1 DEF RoomState
  <2>3. LET new == [left EXCEPT !.leader = l]
        IN  new \in RoomState /\ new.phase = rooms[r].phase /\ new.leader = l
    BY <1>2, <2>2, LedIsRoom
  <2>4. rooms[r].phase \in {"UNUSED", "CLOSED"} \/ l \in Player
    BY <1>3, <2>1 DEF RoomsTyped, Open
  <2> HIDE DEF left
  <2>5. RoomsTyped'
    BY <1>3, <1>8, <2>3, <2>4, RoomChange
  <2> QED BY <1>5, <2>5, TypedNext
<1> QED BY <1>6, <1>7, <1>8, ExpiredRemovalRooms

(* Restart keeps the lobby well typed.                                     *)
LEMMA RestartTyped ==
  ASSUME TypeOK, Restart
  PROVE  TypeOK'
<1>1. Idle \in CallState
  BY DEF CallState
<1>2. RoomsTyped'
  BY NoRoomIsRoom, ClosedIsRoom DEF Restart, RoomsTyped, Open
<1>3. OthersTyped' /\ calls' \in [Handler -> CallState]
  BY <1>1 DEF Restart, OthersTyped
<1> QED BY <1>2, <1>3, TypedNext

(* Every step keeps the lobby well typed.                                  *)
LEMMA NextTyped == TypeOK /\ [Next]_vars => TypeOK'
<1> SUFFICES ASSUME TypeOK, [Next]_vars PROVE TypeOK'
  OBVIOUS
<1>1. ASSUME NEW h \in Handler, Handlers(h) PROVE TypeOK'
  BY <1>1, CreatePartyTyped, CancelApplicationTyped, ApplyToPartyTyped,
     ReviewApplicationTyped, LeavePartyTyped, SetReadyTyped, SelectRiftFloorTyped,
     StartExpeditionTyped DEF Handlers
<1>2. ASSUME NEW h \in Handler, Continuations(h) PROVE TypeOK'
  BY <1>2, ApplyReserveTyped, CancelRefundTyped, RejectRefundTyped, AcceptCommitTyped,
     AcceptElsewhereTyped, LeaveRefundTyped, LeaveResumeTyped, LeaveOthersTyped,
     DisbandTyped, FloorReadTyped, StartReadTyped, StartRejectTyped, StartPrepareTyped,
     StartCommitTyped DEF Continuations
<1>3. CASE UNCHANGED vars
  BY <1>3 DEF vars, peerVars, history, TypeOK, Open
<1> QED
  BY <1>1, <1>2, <1>3, DisconnectTyped, ConnectTyped, LateConnectTyped,
     DisconnectRefundTyped, ReconnectExpiryTyped, ExpiredRemovalTyped,
     FinishExpeditionTyped, FinalizeRoomTyped, RestartTyped DEF Next

(* The lobby is always well typed: an open room has a leader, and every    *)
(* waiting handler resumes with a room, players and an offer.              *)
THEOREM LobbyTypeCorrect == Spec => []TypeOK
BY InitTyped, NextTyped, PTL DEF Spec

-----------------------------------------------------------------------------
(* The lobby implements PartySlots.                                        *)
SlotStep == [Slots!Next]_(Slots!vars)

(* A step that leaves the ledger alone is a stutter of PartySlots.         *)
LEMMA NoStep == UNCHANGED slotVars => SlotStep
BY DEF SlotStep, slotVars, Slots!vars

(* The operation ids of the lobby are operation ids of PartySlots.         *)
LEMMA ReasonIsOpId ==
  ASSUME NEW reason \in ReasonKinds, NEW r \in Room, NEW p \in Player
  PROVE  Op(reason, r, p) \in OpId
BY DEF Op, OpId, SeatOp

(* A refund of the lobby is a refund of PartySlots or a stutter, and one   *)
(* that fails is a stutter.                                                *)
LEMMA RefundIsStep ==
  ASSUME NEW r \in Room, NEW p \in Player, NEW reason \in ReasonKinds,
         Refund(r, p, reason) \/ Failing(r, p, reason) \/ Fail(r, p, reason)
  PROVE  SlotStep
<1>1. CASE Slots!RefundPartySlot(r, p, Op(reason, r, p))
  BY <1>1, ReasonIsOpId DEF SlotStep, Slots!Next
<1> QED BY <1>1, NoStep DEF Refund, Failing, Fail

(* ApplyReserve is a step or a stutter of PartySlots.                      *)
LEMMA ApplyReserveStep ==
  ASSUME TypeOK, NEW h \in Handler, ApplyReserve(h)
  PROVE  SlotStep
<1> DEFINE c == calls[h]
           p == h[1]
<1>1. c \in CallState /\ c.at = "apply.reserve" /\ p \in Player
  BY HandlerPlayer DEF TypeOK, ApplyReserve
<1>2. c.room \in Room /\ c.who \in Player /\ c.todo \in Offer \cup {0}
  BY <1>1, WaitingCall
<1>3. ASSUME NEW id \in ApplyId, c.todo # 0,
             Slots!ReservePartySlot(c.room, p, c.who, c.todo, Op("apply", id, p))
      PROVE  SlotStep
  <2>1. Op("apply", id, p) \in OpId
    BY <1>1 DEF Op, OpId
  <2> HIDE DEF c, p
  <2>2. c.todo \in Offer
    BY <1>2, <1>3, Zenon
  <2>3. \E r \in Room, x \in Player, op \in OpId :
          \E l \in Player, amount \in Offer : Slots!ReservePartySlot(r, x, l, amount, op)
    BY <1>1, <1>2, <1>3, <2>1, <2>2, Zenon
  <2> QED BY <2>3, Zenon DEF SlotStep, Slots!Next
<1> QED BY <1>3, NoStep DEF ApplyReserve

(* AcceptCommit is a step or a stutter of PartySlots.                      *)
LEMMA AcceptCommitStep ==
  ASSUME TypeOK, NEW h \in Handler, AcceptCommit(h)
  PROVE  SlotStep
<1> DEFINE c == calls[h]
           op == Op("accept", c.room, c.who)
<1>1. c.room \in Room /\ c.who \in Player /\ h[1] \in Player
  BY WaitingCall, HandlerPlayer DEF AcceptCommit, TypeOK, Steps
<1>2. op \in OpId
  BY <1>1, ReasonIsOpId DEF ReasonKinds
<1>3. CASE Slots!AcceptPartySlot(c.room, c.who, h[1], op)
  BY <1>1, <1>2, <1>3 DEF SlotStep, Slots!Next
<1>4. Slots!AcceptPartySlot(c.room, c.who, h[1], op) \/ UNCHANGED slotVars
  BY DEF AcceptCommit, Failing, Fail
<1> QED BY <1>3, <1>4, NoStep

(* AcceptElsewhere is a step or a stutter of PartySlots.                   *)
LEMMA AcceptElsewhereStep ==
  ASSUME TypeOK, NEW h \in Handler, AcceptElsewhere(h)
  PROVE  SlotStep
<1>1. calls[h].who \in Player /\ calls[h].todo \in Room
  BY WaitingCall DEF AcceptElsewhere, TypeOK
<1> QED BY <1>1, RefundIsStep DEF AcceptElsewhere, ReasonKinds

(* StartCommit is a step or a stutter of PartySlots.                       *)
LEMMA StartCommitStep ==
  ASSUME TypeOK, NEW h \in Handler, StartCommit(h)
  PROVE  SlotStep
<1> DEFINE c == calls[h]
<1>1. c.room \in Room /\ c.todo \in SUBSET Player /\ h[1] \in Player
  BY StartCommitRooms, HandlerPlayer
<1>2. CASE Slots!StartExpedition(c.room, h[1], c.todo)
  BY <1>1, <1>2 DEF SlotStep, Slots!Next
<1> QED BY <1>2, NoStep DEF StartCommit

(* The steps that make one refund, and whose seat it is about.             *)
LEMMA RefundingSteps ==
  ASSUME TypeOK, NEW h \in Handler,
         \/ CancelRefund(h) \/ RejectRefund(h) \/ LeaveRefund(h)
         \/ LeaveOthers(h) \/ Disband(h) \/ StartReject(h)
  PROVE  \E q \in Player, reason \in ReasonKinds :
           /\ calls[h].room \in Room
           /\ Refund(calls[h].room, q, reason) \/ Failing(calls[h].room, q, reason)
<1> DEFINE c == calls[h]
           asks(q, reason) == Refund(c.room, q, reason) \/ Failing(c.room, q, reason)
<1>1. c \in CallState /\ c.at \in Steps /\ h[1] \in Player
  BY HandlerPlayer
  DEF TypeOK, CancelRefund, RejectRefund, LeaveRefund, LeaveOthers, Disband, StartReject, Steps
<1>2. /\ c.room \in Room /\ c.who \in Player /\ c.todo \subseteq Player
  BY <1>1, WaitingCall
<1>3. CASE CancelRefund(h)
  <2>1. asks(c.who, "cancel-application")
    BY <1>3 DEF CancelRefund
  <2> QED BY <1>2, <2>1 DEF ReasonKinds
<1>4. CASE RejectRefund(h)
  <2>1. asks(c.who, "reject")
    BY <1>4 DEF RejectRefund
  <2> QED BY <1>2, <2>1 DEF ReasonKinds
<1>5. CASE LeaveRefund(h)
  <2>1. asks(h[1], "leave")
    BY <1>5 DEF LeaveRefund
  <2> QED BY <1>1, <1>2, <2>1 DEF ReasonKinds
<1>6. CASE LeaveOthers(h)
  <2>1. PICK q \in c.todo : asks(q, "leader-left")
    BY <1>6 DEF LeaveOthers
  <2> QED BY <1>2, <2>1 DEF ReasonKinds
<1>7. CASE Disband(h)
  <2>1. asks(c.who, "disband")
    BY <1>7 DEF Disband
  <2> QED BY <1>2, <2>1 DEF ReasonKinds
<1>8. CASE StartReject(h)
  <2>1. asks(c.who, "start-reject")
    BY <1>8 DEF StartReject
  <2> QED BY <1>2, <2>1 DEF ReasonKinds
<1> QED BY <1>3, <1>4, <1>5, <1>6, <1>7, <1>8

(* Every step of the lobby is a step or stutter of PartySlots.             *)
LEMMA NextIsSlotStep == TypeOK /\ [Next]_vars => SlotStep
<1> SUFFICES ASSUME TypeOK, [Next]_vars PROVE SlotStep
  OBVIOUS
<1>1. ASSUME NEW h \in Handler, Handlers(h) PROVE UNCHANGED slotVars
  BY <1>1 DEF Handlers, CreateParty, CancelApplication, ApplyToParty, ReviewApplication,
     LeaveParty, SetReady, SelectRiftFloor, StartExpedition
<1>2. ASSUME NEW h \in Handler, Continuations(h) PROVE SlotStep
  <2>1. CASE LeaveResume(h) \/ FloorRead(h) \/ StartRead(h) \/ StartPrepare(h)
    BY <2>1, NoStep DEF LeaveResume, FloorRead, StartRead, StartPrepare
  <2>2. CASE \/ CancelRefund(h) \/ RejectRefund(h) \/ LeaveRefund(h)
             \/ LeaveOthers(h) \/ Disband(h) \/ StartReject(h)
    BY <2>2, RefundingSteps, RefundIsStep
  <2> QED BY <1>2, <2>1, <2>2, ApplyReserveStep, AcceptCommitStep, AcceptElsewhereStep,
           StartCommitStep DEF Continuations
<1>3. ASSUME NEW p \in Player, Disconnect(p) \/ Connect(p) \/ LateConnect(p)
      PROVE  UNCHANGED slotVars
  BY <1>3 DEF Disconnect, Connect, LateConnect
<1>4. ASSUME NEW r \in Room, NEW p \in Player, DisconnectRefund(r, p) PROVE SlotStep
  BY <1>4, RefundIsStep DEF DisconnectRefund, ReasonKinds
<1>5. ASSUME NEW r \in Room, NEW p \in Player, NEW by, ExpiredRemoval(r, p, by) PROVE SlotStep
  BY <1>5, RefundIsStep DEF ExpiredRemoval, ReasonKinds
<1>6. ASSUME NEW r \in Room, NEW p \in Player, ReconnectExpiry(r, p) PROVE UNCHANGED slotVars
  BY <1>6 DEF ReconnectExpiry
<1>7. ASSUME NEW r \in Room, FinishExpedition(r) \/ FinalizeRoom(r) PROVE UNCHANGED slotVars
  BY <1>7 DEF FinishExpedition, FinalizeRoom
<1>8. CASE Restart
  BY <1>8 DEF Restart, SlotStep, Slots!Next
<1>9. CASE UNCHANGED vars
  BY <1>9, NoStep DEF vars
<1> QED BY <1>1, <1>2, <1>3, <1>4, <1>5, <1>6, <1>7, <1>8, <1>9, NoStep DEF Next

(* Whatever the handlers interleave, the repository sees only the          *)
(* transactions of PartySlots, each whole: the lobby implements it.        *)
THEOREM LobbyRefinesSlots == Spec => RefinesPartySlots
<1>1. Init => Slots!Init
  BY DEF Init
<1>2. TypeOK /\ [Next]_vars => [Slots!Next]_(Slots!vars)
  BY NextIsSlotStep DEF SlotStep
<1> QED BY <1>1, <1>2, LobbyTypeCorrect, PTL DEF Spec, RefinesPartySlots, Slots!Spec

-----------------------------------------------------------------------------
(* Steps that keep the phase, the leader and the members of every room.    *)
SameParties ==
  \A r \in Room : /\ rooms'[r].phase = rooms[r].phase
                  /\ rooms'[r].leader = rooms[r].leader
                  /\ rooms'[r].members = rooms[r].members

(* Editing one room, its party aside, keeps the parties.                   *)
LEMMA RoomEditKeepsParties ==
  ASSUME TypeOK, NEW r \in Room, NEW room,
         room.phase = rooms[r].phase, room.leader = rooms[r].leader,
         room.members = rooms[r].members, rooms' = [rooms EXCEPT ![r] = room]
  PROVE  SameParties
BY DEF SameParties, TypeOK

(* Editing the applications of a room does.                                *)
LEMMA ApplicationsKeepParties ==
  ASSUME TypeOK, NEW r \in Room, NEW p \in Player, NEW h \in Handler,
         NEW room \in {Withdrawn(rooms[r], p), Visited(h, p, rooms[r]), Looped(h, rooms[r])},
         rooms' = [rooms EXCEPT ![r] = room]
  PROVE  SameParties
<1>1. rooms[r] \in RoomState
  BY DEF TypeOK
<1>2. /\ room.phase = rooms[r].phase /\ room.leader = rooms[r].leader
      /\ room.members = rooms[r].members
  BY <1>1, EditedRooms
<1> QED BY <1>2, RoomEditKeepsParties

(* Rooms left alone keep their parties.                                    *)
LEMMA IdleRoomsKeepParties == UNCHANGED rooms => SameParties
BY DEF SameParties

(* The messages that do not create a party or leave one keep the parties.  *)
LEMMA HandlersKeepParties ==
  ASSUME TypeOK, NEW h \in Handler,
         \/ \E r \in Room : CancelApplication(h, r)
         \/ \E r \in Room, offer \in SlotOffers : ApplyToParty(h, r, offer)
         \/ \E q \in Player, accept \in BOOLEAN : ReviewApplication(h, q, accept)
         \/ \E ready \in BOOLEAN : SetReady(h, ready)
         \/ SelectRiftFloor(h) \/ StartExpedition(h)
  PROVE  SameParties
<1>1. ASSUME NEW r \in Room, CancelApplication(h, r) PROVE SameParties
  BY <1>1, HandlerPlayer, ApplicationsKeepParties DEF CancelApplication
<1>2. ASSUME NEW q \in Player, NEW accept \in BOOLEAN, ReviewApplication(h, q, accept)
      PROVE  SameParties
  BY <1>2, ApplicationsKeepParties DEF ReviewApplication
<1>3. ASSUME NEW ready \in BOOLEAN, SetReady(h, ready) PROVE SameParties
  <2>1. PICK r \in Room :
          rooms' = [rooms EXCEPT ![r].ready = IF ready THEN @ \cup {h[1]} ELSE @ \ {h[1]}]
    BY <1>3 DEF SetReady
  <2> QED BY <2>1 DEF SameParties, TypeOK, RoomState
<1>4. CASE \/ \E r \in Room, offer \in SlotOffers : ApplyToParty(h, r, offer)
           \/ SelectRiftFloor(h) \/ StartExpedition(h)
  BY <1>4, IdleRoomsKeepParties DEF ApplyToParty, SelectRiftFloor, StartExpedition
<1> QED BY <1>1, <1>2, <1>3, <1>4

(* The next step of START's loop keeps the parties.                        *)
LEMMA RejectingKeepsParties ==
  ASSUME TypeOK, NEW h \in Handler, NEW r \in Room, NextReject(h, r)
  PROVE  SameParties
<1>1. ASSUME NEW q \in Unvisited(h, rooms[r]), rooms' = [rooms EXCEPT ![r] = Visited(h, q, rooms[r])]
      PROVE  SameParties
  <2>1. q \in Player
    BY DEF Unvisited, TypeOK, RoomState
  <2> QED BY <1>1, <2>1, ApplicationsKeepParties
<1>2. CASE rooms' = [rooms EXCEPT ![r] = Looped(h, rooms[r])]
  BY <1>2, HandlerPlayer, ApplicationsKeepParties
<1> QED BY <1>1, <1>2 DEF NextReject

(* After an acceptance, deleting the next application keeps the parties    *)
(* the acceptance made, and the handler goes on or returns.                *)
LEMMA ElsewhereKeepsParties ==
  ASSUME NEW h \in Handler, NEW r \in Room, NEW p \in Player, NEW last,
         NEW joined \in [Room -> RoomState], NextElsewhere(h, r, p, last, joined)
  PROVE  /\ \A o \in Room : /\ rooms'[o].phase = joined[o].phase
                            /\ rooms'[o].leader = joined[o].leader
                            /\ rooms'[o].members = joined[o].members
         /\ \/ Done(h) /\ rooms' = joined
            \/ \E o \in Room :
                 /\ o # r /\ Open(o)
                 /\ Go(h, Call("accept.elsewhere", r, p, o))
                 /\ rooms' = [joined EXCEPT ![o] = Withdrawn(joined[o], p)]
<1>1. CASE rooms' = joined /\ Done(h)
  BY <1>1
<1>2. ASSUME NEW o \in Room, o # r, Open(o),
             rooms' = [joined EXCEPT ![o] = Withdrawn(joined[o], p)],
             Go(h, Call("accept.elsewhere", r, p, o))
      PROVE  \A x \in Room : /\ rooms'[x].phase = joined[x].phase
                             /\ rooms'[x].leader = joined[x].leader
                             /\ rooms'[x].members = joined[x].members
  <2>1. joined[o] \in RoomState
    OBVIOUS
  <2>2. /\ Withdrawn(joined[o], p).phase = joined[o].phase
        /\ Withdrawn(joined[o], p).leader = joined[o].leader
        /\ Withdrawn(joined[o], p).members = joined[o].members
    BY <2>1, EditedRooms
  <2> QED BY <1>2, <2>2
<1> QED BY <1>1, <1>2 DEF NextElsewhere, Elsewhere

(* The steps that deal with applications, floors and START keep them.      *)
LEMMA ContinuationsKeepParties ==
  ASSUME TypeOK, NEW h \in Handler,
         \/ ApplyReserve(h) \/ CancelRefund(h) \/ RejectRefund(h) \/ AcceptElsewhere(h)
         \/ LeaveRefund(h) \/ FloorRead(h)
         \/ StartRead(h) \/ StartReject(h) \/ StartPrepare(h)
  PROVE  SameParties
<1> DEFINE c == calls[h]
<1>1. c.room \in Room
  BY WaitingCall DEF TypeOK, Steps, ApplyReserve, CancelRefund, RejectRefund, AcceptElsewhere,
     LeaveRefund, FloorRead, StartRead, StartReject, StartPrepare
<1>2. rooms[c.room] \in RoomState
  BY <1>1 DEF TypeOK
<1>3. CASE ApplyReserve(h)
  <2> DEFINE room == [rooms[c.room] EXCEPT !.apps = @ \cup {h[1]}]
  <2>1. UNCHANGED rooms \/ rooms' = [rooms EXCEPT ![c.room] = room]
    BY <1>3 DEF ApplyReserve
  <2>2. /\ room.phase = rooms[c.room].phase /\ room.leader = rooms[c.room].leader
        /\ room.members = rooms[c.room].members
    BY <1>2 DEF RoomState
  <2> HIDE DEF c, room
  <2> QED BY <1>1, <2>1, <2>2, RoomEditKeepsParties, IdleRoomsKeepParties
<1>4. CASE AcceptElsewhere(h)
  <2>1. c.who \in Player /\ c.todo \in Room
    BY <1>4, WaitingCall DEF AcceptElsewhere, TypeOK
  <2>2. NextElsewhere(h, c.room, c.who, c.todo, rooms) \/ UNCHANGED rooms
    BY <1>4 DEF AcceptElsewhere
  <2>3. rooms \in [Room -> RoomState]
    BY DEF TypeOK
  <2> HIDE DEF c
  <2> QED BY <1>1, <2>1, <2>2, <2>3, ElsewhereKeepsParties, IdleRoomsKeepParties DEF SameParties
<1>5. CASE FloorRead(h)
  <2>1. \/ rooms' = [rooms EXCEPT ![c.room].ready = @ \ rooms[c.room].members]
        \/ UNCHANGED rooms
    BY <1>5 DEF FloorRead
  <2> QED BY <1>1, <2>1, IdleRoomsKeepParties DEF SameParties, TypeOK, RoomState
<1>6. CASE StartRead(h) \/ StartReject(h)
  <2>1. \/ NextReject(h, c.room) \/ UNCHANGED rooms
        \/ rooms' = [rooms EXCEPT ![c.room] = Looped(h, rooms[c.room])]
    BY <1>6 DEF StartRead, StartReject
  <2> HIDE DEF c
  <2> QED BY <1>1, <2>1, HandlerPlayer, RejectingKeepsParties, ApplicationsKeepParties,
       IdleRoomsKeepParties
<1>7. CASE CancelRefund(h) \/ RejectRefund(h) \/ LeaveRefund(h) \/ StartPrepare(h)
  BY <1>7, IdleRoomsKeepParties DEF CancelRefund, RejectRefund, LeaveRefund, StartPrepare
<1> QED BY <1>3, <1>4, <1>5, <1>6, <1>7

(* Connections, timers and refunds after a disconnect keep them.           *)
LEMMA PeersKeepParties ==
  ASSUME TypeOK,
         \/ \E p \in Player : Disconnect(p) \/ Connect(p) \/ LateConnect(p)
         \/ \E r \in Room, p \in Player : DisconnectRefund(r, p) \/ ReconnectExpiry(r, p)
  PROVE  SameParties
<1>1. ASSUME NEW p \in Player, Disconnect(p) PROVE SameParties
  BY <1>1, DisconnectRooms DEF SameParties
<1>2. ASSUME NEW p \in Player, Connect(p) PROVE SameParties
  BY <1>2, ConnectRooms DEF SameParties
<1>3. CASE \/ \E p \in Player : LateConnect(p)
           \/ \E r \in Room, p \in Player : DisconnectRefund(r, p) \/ ReconnectExpiry(r, p)
  BY <1>3, IdleRoomsKeepParties DEF LateConnect, DisconnectRefund, ReconnectExpiry
<1> QED BY <1>1, <1>2, <1>3

-----------------------------------------------------------------------------
(* Soundness of the parties.  A handler that waits does so in a room that  *)
(* was created; the places of a party are counted with the acceptances     *)
(* under way, which is what an acceptance is checked against; and an open  *)
(* room is led by a member but while, or after, it is disbanded.           *)
CallsHaveRooms ==
  \A h \in Handler : calls[h] # Idle => rooms[calls[h].room].phase # "UNUSED"

PlacesCounted ==
  \A r \in Room :
    Cardinality(rooms[r].members) + Cardinality(Accepting(r)) <= MaxPartySize + overlap[r]

Excused(r) ==
  \/ \E h \in Handler : calls[h].at = "disband" /\ calls[h].room = r
  \/ \E q \in Player : Op("disband", r, q) \in failed

Led(r) == Open(r) => rooms[r].leader \in rooms[r].members \/ Excused(r)

Party == CallsHaveRooms /\ PlacesCounted /\ \A r \in Room : Led(r)

(* The sets that are counted are finite.                                   *)
LEMMA FiniteParties ==
  ASSUME TypeOK, NEW r \in Room
  PROVE  /\ IsFiniteSet(rooms[r].members) /\ Cardinality(rooms[r].members) \in Nat
         /\ IsFiniteSet(Accepting(r)) /\ Cardinality(Accepting(r)) \in Nat
         /\ overlap[r] \in Nat /\ MaxPartySize \in Nat
<1>1. rooms[r].members \subseteq Player /\ Accepting(r) \subseteq Handler
  BY DEF TypeOK, RoomState, Accepting
<1>2. IsFiniteSet(rooms[r].members) /\ IsFiniteSet(Accepting(r))
  BY <1>1, PlayerAssumption, HandlerAssumption, FS_Subset
<1> QED BY <1>2, FS_CardinalityType, PartySizeAssumption DEF TypeOK

(* The soundness of the parties is what is promised of them.               *)
LEMMA PartyIsEnough == TypeOK /\ Party => PartyIsSound
<1> SUFFICES ASSUME TypeOK, Party PROVE PartyIsSound
  OBVIOUS
<1>1. PartySizeIsBounded
  BY FiniteParties DEF Party, PlacesCounted, PartySizeIsBounded
<1>2. LeaderIsMember
  BY DEF Party, Led, Excused, LeaderIsMember
<1> QED BY <1>1, <1>2 DEF PartyIsSound

(* Nobody is in a party at first.                                          *)
LEMMA InitParty == Init => Party
<1> SUFFICES ASSUME Init PROVE Party
  OBVIOUS
<1>1. \A r \in Room : Accepting(r) = {} /\ rooms[r].members = {} /\ overlap[r] = 0 /\ ~ Open(r)
  BY DEF Init, Accepting, Idle, NoRoom, Open
<1>2. PlacesCounted
  BY <1>1, FS_EmptySet, PartySizeAssumption DEF PlacesCounted
<1> QED BY <1>1, <1>2 DEF Party, CallsHaveRooms, Init, Led

(* Steps that add no member and no acceptance, take no leader from a room  *)
(* and leave no handler in a room not yet created.                         *)
Shrinks ==
  /\ \A r \in Room : /\ rooms'[r].members \subseteq rooms[r].members
                     /\ rooms[r].phase # "UNUSED" => rooms'[r].phase # "UNUSED"
                     /\ Led(r) => Led(r)'
  /\ \A h \in Handler :
       \/ calls'[h] = calls[h]
       \/ /\ calls'[h].at # "accept.commit"
          /\ calls'[h] = Idle \/ rooms[calls'[h].room].phase # "UNUSED"
  /\ UNCHANGED overlap

(* They keep the parties sound.                                            *)
LEMMA ShrinkingParty ==
  ASSUME TypeOK, Party, Shrinks, calls' \in [Handler -> CallState]
  PROVE  Party'
<1>1. CallsHaveRooms'
  <2> SUFFICES ASSUME NEW h \in Handler, calls'[h] # Idle
               PROVE  rooms'[calls'[h].room].phase # "UNUSED"
    BY DEF CallsHaveRooms
  <2>1. calls'[h].room \in Room
    BY WaitingCall
  <2>2. rooms[calls'[h].room].phase # "UNUSED"
    BY DEF Shrinks, Party, CallsHaveRooms
  <2> QED BY <2>1, <2>2 DEF Shrinks
<1>2. PlacesCounted'
  <2> SUFFICES ASSUME NEW r \in Room
               PROVE  Cardinality(rooms'[r].members) + Cardinality(Accepting(r)')
                        <= MaxPartySize + overlap'[r]
    BY DEF PlacesCounted
  <2>1. rooms'[r].members \subseteq rooms[r].members /\ Accepting(r)' \subseteq Accepting(r)
    BY DEF Shrinks, Accepting
  <2>2. /\ Cardinality(rooms'[r].members) <= Cardinality(rooms[r].members)
        /\ Cardinality(Accepting(r)') <= Cardinality(Accepting(r))
        /\ Cardinality(rooms'[r].members) \in Nat /\ Cardinality(Accepting(r)') \in Nat
    BY <2>1, FiniteParties, FS_Subset, FS_CardinalityType
  <2>3. Cardinality(rooms[r].members) + Cardinality(Accepting(r)) <= MaxPartySize + overlap[r]
    BY DEF Party, PlacesCounted
  <2> QED BY <2>2, <2>3, FiniteParties DEF Shrinks
<1>3. \A r \in Room : Led(r)'
  BY DEF Party, Shrinks
<1> QED BY <1>1, <1>2, <1>3 DEF Party

(* What excuses a room from having a leader stays.                         *)
LEMMA ExcuseStays ==
  ASSUME NEW h \in Handler, NEW call, calls \in [Handler -> CallState],
         calls[h].at # "disband", Go(h, call), failed \subseteq failed',
         NEW r \in Room, Excused(r)
  PROVE  Excused(r)'
<1>1. \A g \in Handler : calls[g].at = "disband" => calls'[g] = calls[g]
  BY DEF Go
<1> QED BY <1>1 DEF Excused

(* The steps that keep the parties and whose handler, not one that         *)
(* disbands or accepts, goes on in a room that was created, or returns.    *)
MovesOn(h) ==
  /\ SameParties /\ UNCHANGED overlap /\ failed \subseteq failed'
  /\ calls[h].at # "disband"
  /\ \E call \in CallState :
       /\ Go(h, call)
       /\ call.at # "accept.commit"
       /\ call = Idle \/ rooms[call.room].phase # "UNUSED"

(* They shrink nothing.                                                    *)
LEMMA MovingShrinks ==
  ASSUME TypeOK, NEW h \in Handler, MovesOn(h)
  PROVE  Shrinks
<1>1. PICK call \in CallState : /\ Go(h, call) /\ call.at # "accept.commit"
                                /\ call = Idle \/ rooms[call.room].phase # "UNUSED"
  BY DEF MovesOn
<1>2. calls \in [Handler -> CallState]
  BY DEF TypeOK
<1>3. ASSUME NEW r \in Room, Led(r) PROVE Led(r)'
  <2>1. Excused(r) => Excused(r)'
    BY <1>1, <1>2, ExcuseStays DEF MovesOn
  <2> QED BY <1>3, <2>1 DEF Led, Open, MovesOn, SameParties
<1>4. \A g \in Handler : calls'[g] = IF g = h THEN call ELSE calls[g]
  BY <1>1, <1>2 DEF Go
<1> QED BY <1>1, <1>3, <1>4 DEF Shrinks, MovesOn, SameParties

(* Steps that leave the handlers alone too.                                *)
LEMMA StandingShrinks ==
  ASSUME TypeOK, SameParties, UNCHANGED <<calls, overlap>>, failed \subseteq failed'
  PROVE  Shrinks
<1>1. ASSUME NEW r \in Room, Led(r) PROVE Led(r)'
  <2>1. Excused(r) => Excused(r)'
    BY DEF Excused
  <2> QED BY <1>1, <2>1 DEF Led, Open, SameParties
<1> QED BY <1>1 DEF Shrinks, SameParties

(* A call that goes on, or a handler that returns, for MovesOn.            *)
LEMMA GoesOn ==
  ASSUME NEW h \in Handler, NEW at \in Steps \ {"accept.commit"}, NEW r \in Room,
         NEW p \in Player, NEW todo \in SUBSET Player,
         SameParties, UNCHANGED overlap, failed \subseteq failed', calls[h].at # "disband",
         rooms[r].phase # "UNUSED", Go(h, Call(at, r, p, todo)) \/ Done(h)
  PROVE  MovesOn(h)
<1>1. Idle \in CallState /\ Idle.at # "accept.commit"
  BY DEF CallState, Idle
<1>2. CASE Done(h)
  BY <1>1, <1>2 DEF Done, MovesOn
<1>3. CASE Go(h, Call(at, r, p, todo))
  <2> DEFINE call == Call(at, r, p, todo)
  <2>1. call \in CallState /\ call.at # "accept.commit" /\ call.room = r
    BY StepsCall DEF Call
  <2> HIDE DEF call
  <2> QED BY <1>3, <2>1 DEF MovesOn, call
<1> QED BY <1>2, <1>3

(* The repository calls that failed are remembered.                        *)
LEMMA FailuresStay ==
  ASSUME NEW r, NEW p, NEW reason,
         Refund(r, p, reason) \/ Failing(r, p, reason) \/ Fail(r, p, reason)
  PROVE  failed \subseteq failed'
BY DEF Refund, Failing, Fail

(* A socket without a handler.                                             *)
LEMMA FreeIsIdle ==
  ASSUME NEW h \in Handler, Free(h)
  PROVE  calls[h] = Idle /\ calls[h].at # "disband"
BY DEF Free, Idle

(* The messages that keep the parties but for an acceptance shrink none.   *)
LEMMA HandlersMoveOn ==
  ASSUME TypeOK, NEW h \in Handler,
         \/ \E r \in Room : CancelApplication(h, r)
         \/ \E r \in Room, offer \in SlotOffers : ApplyToParty(h, r, offer)
         \/ \E q \in Player : ReviewApplication(h, q, FALSE)
         \/ SelectRiftFloor(h) \/ StartExpedition(h)
  PROVE  MovesOn(h)
<1>1. SameParties
  BY HandlersKeepParties
<1>2. h[1] \in Player /\ {} \in SUBSET Player
  BY HandlerPlayer
<1>3. calls[h].at # "disband"
  BY FreeIsIdle DEF CancelApplication, ApplyToParty, ReviewApplication, SelectRiftFloor, StartExpedition
<1>4. UNCHANGED overlap /\ failed \subseteq failed'
  BY DEF CancelApplication, ApplyToParty, ReviewApplication, SelectRiftFloor, StartExpedition,
     history
<1>5. ASSUME NEW r \in Room, CancelApplication(h, r) PROVE MovesOn(h)
  <2>1. rooms[r].phase # "UNUSED" /\ Go(h, Call("cancel.refund", r, h[1], {}))
    BY <1>5 DEF CancelApplication, Open
  <2>2. "cancel.refund" \in Steps \ {"accept.commit"}
    BY DEF Steps
  <2> QED BY <1>1, <1>2, <1>3, <1>4, <2>1, <2>2, GoesOn
<1>6. ASSUME NEW r \in Room, NEW offer \in SlotOffers, ApplyToParty(h, r, offer) PROVE MovesOn(h)
  <2> DEFINE call == Call("apply.reserve", r, rooms[r].leader, offer)
  <2>1. rooms[r].leader \in Player /\ offer \in Offer \cup {0}
    BY <1>6, SlotOffersAssumption DEF ApplyToParty, TypeOK, Open
  <2>2. call \in CallState /\ call.at # "accept.commit" /\ call.room = r
    BY <2>1 DEF Call, CallState
  <2>3. Go(h, call) /\ rooms[r].phase # "UNUSED"
    BY <1>6 DEF ApplyToParty
  <2> HIDE DEF call
  <2> QED BY <1>1, <1>3, <1>4, <2>2, <2>3 DEF MovesOn
<1>7. ASSUME NEW q \in Player, ReviewApplication(h, q, FALSE) PROVE MovesOn(h)
  <2>1. PICK r \in Room : rooms[r].phase # "UNUSED" /\ Go(h, Call("reject.refund", r, q, {}))
    BY <1>7 DEF ReviewApplication
  <2>2. "reject.refund" \in Steps \ {"accept.commit"}
    BY DEF Steps
  <2> QED BY <1>1, <1>2, <1>3, <1>4, <2>1, <2>2, GoesOn
<1>8. CASE SelectRiftFloor(h)
  <2>1. PICK r \in Room : rooms[r].phase # "UNUSED" /\ Go(h, Call("floor.read", r, h[1], {}))
    BY <1>8 DEF SelectRiftFloor
  <2>2. "floor.read" \in Steps \ {"accept.commit"}
    BY DEF Steps
  <2> QED BY <1>1, <1>2, <1>3, <1>4, <2>1, <2>2, GoesOn
<1>9. CASE StartExpedition(h)
  <2>1. PICK r \in Room : rooms[r].phase # "UNUSED" /\ Go(h, Call("start.read", r, h[1], {}))
    BY <1>9 DEF StartExpedition
  <2>2. "start.read" \in Steps \ {"accept.commit"}
    BY DEF Steps
  <2> QED BY <1>1, <1>2, <1>3, <1>4, <2>1, <2>2, GoesOn
<1> QED BY <1>5, <1>6, <1>7, <1>8, <1>9

(* The handler that waits in a room that was created goes on there.        *)
LEMMA ContinuationsMoveOn ==
  ASSUME TypeOK, CallsHaveRooms, NEW h \in Handler,
         \/ ApplyReserve(h) \/ CancelRefund(h) \/ RejectRefund(h) \/ AcceptElsewhere(h)
         \/ LeaveRefund(h) \/ FloorRead(h)
         \/ StartRead(h) \/ StartReject(h) \/ StartPrepare(h)
  PROVE  MovesOn(h)
<1> DEFINE c == calls[h]
           at == c.at
<1>1. SameParties
  BY ContinuationsKeepParties
<1>2. at \in (Steps \ {"disband"}) \cup {"apply.reserve", "accept.elsewhere"}
  BY DEF Steps, ApplyReserve, CancelRefund, RejectRefund, AcceptElsewhere,
     LeaveRefund, FloorRead, StartRead, StartReject, StartPrepare
<1>3. c \in CallState /\ h[1] \in Player /\ {} \in SUBSET Player
  BY HandlerPlayer DEF TypeOK
<1>4. c.room \in Room /\ c # Idle /\ c.who \in Player
  BY <1>2, <1>3, WaitingCall
<1>5. rooms[c.room].phase # "UNUSED" /\ calls[h].at # "disband"
  BY <1>2, <1>4 DEF CallsHaveRooms, Steps
<1>6. UNCHANGED overlap /\ failed \subseteq failed'
  BY FailuresStay DEF history, ApplyReserve, CancelRefund, RejectRefund, AcceptElsewhere,
     LeaveRefund, FloorRead, StartRead, StartReject, StartPrepare
<1>7. rooms[c.room].members \in SUBSET Player /\ rooms[c.room].apps \in SUBSET Player
  BY <1>4 DEF TypeOK, RoomState
<1>8. /\ {"leave.resume", "start.reject", "start.prepare", "start.commit", "cancel.refund"}
           \subseteq Steps \ {"accept.commit"}
  BY DEF Steps
<1> HIDE DEF at
<1>9. CASE Done(h)
  <2> HIDE DEF c
  <2>1. "cancel.refund" \in Steps \ {"accept.commit"}
    BY <1>8
  <2> QED BY <1>1, <1>3, <1>4, <1>5, <1>6, <1>9, <2>1, GoesOn
<1>10. CASE Go(h, Call("leave.resume", c.room, h[1], {}))
  <2> HIDE DEF c
  <2> QED BY <1>1, <1>3, <1>4, <1>5, <1>6, <1>8, <1>10, GoesOn
<1>11. ASSUME NextReject(h, c.room) PROVE MovesOn(h)
  <2>1. PICK q \in Player :
          \/ Go(h, Call("start.reject", c.room, q, {}))
          \/ Go(h, Call("start.prepare", c.room, q, {}))
          \/ Done(h)
    BY <1>3, <1>7, <1>11 DEF NextReject, Unvisited
  <2> HIDE DEF c
  <2> QED BY <1>1, <1>3, <1>4, <1>5, <1>6, <1>8, <1>9, <2>1, GoesOn
<1>12. CASE Go(h, Call("start.commit", c.room, h[1], rooms[c.room].members))
  <2> HIDE DEF c
  <2> QED BY <1>1, <1>3, <1>4, <1>5, <1>6, <1>7, <1>8, <1>12, GoesOn
<1>13. ASSUME NextElsewhere(h, c.room, c.who, c.todo, rooms) PROVE MovesOn(h)
  <2>1. \/ Done(h)
        \/ \E o \in Room : Go(h, Call("accept.elsewhere", c.room, c.who, o))
    BY <1>13 DEF NextElsewhere, Elsewhere
  <2>2. ASSUME NEW o \in Room, Go(h, Call("accept.elsewhere", c.room, c.who, o))
        PROVE  MovesOn(h)
    <3> DEFINE call == Call("accept.elsewhere", c.room, c.who, o)
    <3>1. call \in CallState /\ call.at # "accept.commit" /\ call.room = c.room
      BY <1>4 DEF Call, CallState
    <3>2. Go(h, call)
      BY <2>2
    <3> HIDE DEF call
    <3> QED BY <1>1, <1>5, <1>6, <3>1, <3>2 DEF MovesOn
  <2> QED BY <1>9, <2>1, <2>2
<1>14. CASE ApplyReserve(h) \/ CancelRefund(h) \/ RejectRefund(h) \/ FloorRead(h)
  BY <1>9, <1>14 DEF ApplyReserve, CancelRefund, RejectRefund, FloorRead
<1>15. CASE AcceptElsewhere(h)
  BY <1>9, <1>13, <1>15 DEF AcceptElsewhere
<1>16. CASE LeaveRefund(h)
  BY <1>9, <1>10, <1>16 DEF LeaveRefund
<1>17. CASE StartRead(h) \/ StartReject(h)
  BY <1>9, <1>11, <1>17 DEF StartRead, StartReject
<1>18. CASE StartPrepare(h)
  BY <1>9, <1>12, <1>18 DEF StartPrepare
<1> QED BY <1>14, <1>15, <1>16, <1>17, <1>18

(* The loop over the applicants of an emptied room excuses it from having  *)
(* a leader, until it is deleted.                                          *)
LEMMA DisbandingShrinks ==
  ASSUME TypeOK, CallsHaveRooms, NEW h \in Handler, NEW r \in Room, NEW room \in RoomState,
         room.phase = rooms[r].phase, room.members \subseteq rooms[r].members,
         rooms[r].phase # "UNUSED",
         NextDisband(h, r, room), calls[h].at = "disband" => calls[h].room = r,
         UNCHANGED overlap, failed \subseteq failed'
  PROVE  Shrinks
<1>1. calls \in [Handler -> CallState] /\ rooms \in [Room -> RoomState]
  BY DEF TypeOK
<1>2. PICK new \in RoomState, call \in CallState :
        /\ rooms' = [rooms EXCEPT ![r] = new] /\ Go(h, call)
        /\ new.members = room.members /\ call.at # "accept.commit"
        /\ \/ new.phase = room.phase /\ call # Idle /\ call.at = "disband" /\ call.room = r
           \/ new.phase = "CLOSED" /\ call = Idle
  <2>1. CASE \E q \in Unvisited(h, room) : /\ rooms' = [rooms EXCEPT ![r] = Visited(h, q, room)]
                                           /\ Go(h, Call("disband", r, q, {}))
    <3>1. PICK q \in Unvisited(h, room) : /\ rooms' = [rooms EXCEPT ![r] = Visited(h, q, room)]
                                          /\ Go(h, Call("disband", r, q, {}))
      BY <2>1
    <3>2. q \in Player
      BY DEF Unvisited, RoomState
    <3> DEFINE new == Visited(h, q, room)
               call == Call("disband", r, q, {})
    <3>3. new \in RoomState /\ new.phase = room.phase /\ new.members = room.members
      BY <3>2, EditedRooms
    <3>4. call \in CallState
      BY <3>2, StepsCall DEF Steps
    <3>5. call # Idle /\ call.at = "disband" /\ call.room = r /\ call.at # "accept.commit"
      BY DEF Call, Idle
    <3> HIDE DEF new, call
    <3> QED BY <3>1, <3>3, <3>4, <3>5 DEF new, call
  <2>2. CASE /\ rooms' = [rooms EXCEPT ![r] = [Looped(h, room) EXCEPT !.phase = "CLOSED"]]
             /\ Done(h)
    <3> DEFINE looped == Looped(h, room)
               new == [looped EXCEPT !.phase = "CLOSED"]
    <3>1. looped \in RoomState /\ looped.members = room.members
      BY HandlerPlayer, EditedRooms
    <3>2. "CLOSED" \in RoomPhase
      BY DEF RoomPhase
    <3> HIDE DEF looped
    <3>3. new \in RoomState /\ new.phase = "CLOSED" /\ new.members = room.members
      BY <3>1, <3>2, PhasedIsRoom
    <3>4. Idle \in CallState /\ Idle.at # "accept.commit"
      BY DEF CallState, Idle
    <3>5. rooms' = [rooms EXCEPT ![r] = new] /\ Go(h, Idle)
      BY <2>2 DEF Done, looped
    <3> HIDE DEF new
    <3> QED BY <3>3, <3>4, <3>5
  <2> QED BY <2>1, <2>2 DEF NextDisband
<1>3. \A g \in Handler : calls'[g] = IF g = h THEN call ELSE calls[g]
  BY <1>1, <1>2 DEF Go
<1>4. \A o \in Room : rooms'[o] = IF o = r THEN new ELSE rooms[o]
  BY <1>1, <1>2
<1>5. ASSUME NEW o \in Room, Led(o) PROVE Led(o)'
  <2>1. CASE o = r
    <3>1. CASE call.at = "disband" /\ call.room = r
      BY <1>3, <2>1, <3>1 DEF Led, Excused
    <3>2. CASE new.phase = "CLOSED"
      BY <1>4, <2>1, <3>2 DEF Led, Open
    <3> QED BY <1>2, <3>1, <3>2
  <2>2. CASE o # r
    <3>1. Excused(o) => Excused(o)'
      BY <1>3, <2>2 DEF Excused
    <3> QED BY <1>4, <1>5, <2>2, <3>1 DEF Led, Open
  <2> QED BY <2>1, <2>2
<1>6. \A g \in Handler :
        \/ calls'[g] = calls[g]
        \/ /\ calls'[g].at # "accept.commit"
           /\ calls'[g] = Idle \/ rooms[calls'[g].room].phase # "UNUSED"
  BY <1>2, <1>3
<1>7. \A o \in Room : /\ rooms'[o].members \subseteq rooms[o].members
                      /\ rooms[o].phase # "UNUSED" => rooms'[o].phase # "UNUSED"
  BY <1>2, <1>4
<1> QED BY <1>5, <1>6, <1>7 DEF Shrinks

(* Whoever leaves, the next leader is one of those who stay.               *)
LEMMA SuccessionLeads ==
  ASSUME TypeOK, NEW r \in Room, NEW p \in Player, NEW l \in Successors(rooms[r], p),
         Without(rooms[r], p).members # {}, Led(r),
         rooms' = [rooms EXCEPT ![r] = [Without(rooms[r], p) EXCEPT !.leader = l]],
         Excused(r) => Excused(r)'
  PROVE  Led(r)'
<1> DEFINE room == rooms[r]
           left == Without(room, p)
           new == [left EXCEPT !.leader = l]
<1>1. room \in RoomState
  BY DEF TypeOK
<1>2. left \in RoomState /\ left.phase = room.phase /\ left.members = room.members \ {p}
  BY <1>1, WithoutIsRoom
<1>3. l \in Player \cup {NoLeader}
  BY <1>1, SuccessorsAreLeaders DEF RoomState
<1>4. rooms'[r] = new
  BY DEF TypeOK
<1>5. l \in room.members \ {p} \/ (l = room.leader /\ room.leader # p)
  BY <1>2 DEF Successors
<1> HIDE DEF left
<1>6. new.phase = room.phase /\ new.leader = l /\ new.members = room.members \ {p}
  BY <1>2, <1>3, LedIsRoom
<1> HIDE DEF room, new
<1>7. CASE l \in room.members \ {p}
  BY <1>4, <1>6, <1>7 DEF Led
<1>8. CASE l = room.leader /\ room.leader # p
  BY <1>4, <1>6, <1>8 DEF Led, Open, room
<1> QED BY <1>5, <1>7, <1>8

(* The end of leaveParty.                                                  *)
LEMMA DropMemberShrinks ==
  ASSUME TypeOK, CallsHaveRooms, NEW h \in Handler, NEW r \in Room, rooms[r].phase # "UNUSED",
         DropMember(h, r, rooms[r]), calls[h].at # "disband",
         UNCHANGED overlap, failed \subseteq failed'
  PROVE  Shrinks
<1> DEFINE left == Without(rooms[r], h[1])
<1>1. rooms[r] \in RoomState /\ h[1] \in Player
  BY HandlerPlayer DEF TypeOK
<1>2. /\ left \in RoomState /\ left.phase = rooms[r].phase
      /\ left.members = rooms[r].members \ {h[1]}
  BY <1>1, WithoutIsRoom
<1>3. CASE NextDisband(h, r, left)
  <2> HIDE DEF left
  <2> QED BY <1>2, <1>3, DisbandingShrinks
<1>4. ASSUME NEW l \in Successors(rooms[r], h[1]), left.members # {}, Done(h),
             rooms' = [rooms EXCEPT ![r] = [left EXCEPT !.leader = l]]
      PROVE  Shrinks
  <2>1. calls \in [Handler -> CallState] /\ rooms \in [Room -> RoomState]
    BY DEF TypeOK
  <2>2. l \in Player \cup {NoLeader}
    BY <1>1, SuccessorsAreLeaders DEF RoomState
  <2>3. \A o \in Room : Excused(o) => Excused(o)'
    BY <1>4, <2>1, ExcuseStays DEF Done
  <2>4. Led(r) => Led(r)'
    BY <1>1, <1>4, <2>3, SuccessionLeads
  <2> DEFINE new == [left EXCEPT !.leader = l]
  <2>5. new.phase = rooms[r].phase /\ new.members = rooms[r].members \ {h[1]}
    <3> HIDE DEF left
    <3> QED BY <1>2, <2>2, LedIsRoom
  <2>6. \A o \in Room : rooms'[o] = IF o = r THEN new ELSE rooms[o]
    BY <1>4, <2>1
  <2> HIDE DEF new
  <2>7. \A o \in Room : Led(o) => Led(o)'
    BY <2>3, <2>4, <2>6 DEF Led, Open
  <2>8. \A g \in Handler : calls'[g] = calls[g] \/ calls'[g] = Idle
    BY <1>4, <2>1 DEF Done, Go
  <2>9. Idle.at # "accept.commit"
    BY DEF Idle
  <2>10. \A o \in Room : /\ rooms'[o].members \subseteq rooms[o].members
                         /\ rooms[o].phase # "UNUSED" => rooms'[o].phase # "UNUSED"
    BY <2>5, <2>6
  <2> QED BY <2>7, <2>8, <2>9, <2>10 DEF Shrinks
<1> QED BY <1>3, <1>4 DEF DropMember

(* Leaving, in its three steps, shrinks.                                   *)
LEMMA LeavingShrinks ==
  ASSUME TypeOK, CallsHaveRooms, NEW h \in Handler,
         LeaveParty(h) \/ LeaveResume(h) \/ LeaveOthers(h)
  PROVE  Shrinks
<1>1. /\ {"leave.refund", "leave.others", "leave.resume"} \subseteq Steps \ {"accept.commit"}
      /\ {} \in SUBSET Player /\ h[1] \in Player
  BY HandlerPlayer DEF Steps
<1>2. UNCHANGED overlap /\ failed \subseteq failed' /\ calls[h].at # "disband"
  BY FreeIsIdle, FailuresStay DEF LeaveParty, LeaveResume, LeaveOthers, history
<1>3. CASE LeaveParty(h)
  <2>1. PICK r \in Room :
          /\ rooms[r].phase # "UNUSED"
          /\ \/ Go(h, Call("leave.refund", r, h[1], {})) /\ UNCHANGED rooms
             \/ DropMember(h, r, rooms[r])
    BY <1>3 DEF LeaveParty
  <2>2. CASE Go(h, Call("leave.refund", r, h[1], {})) /\ UNCHANGED rooms
    BY <1>1, <1>2, <2>1, <2>2, IdleRoomsKeepParties, GoesOn, MovingShrinks
  <2> QED BY <1>2, <2>1, <2>2, DropMemberShrinks
<1>4. CASE LeaveResume(h) \/ LeaveOthers(h)
  <2> DEFINE c == calls[h]
  <2>1. c \in CallState /\ c.at \in {"leave.resume", "leave.others"}
    BY <1>4 DEF TypeOK, LeaveResume, LeaveOthers
  <2>2. c.room \in Room /\ c # Idle /\ c.who \in Player /\ c.todo \in SUBSET Player
    BY <2>1, WaitingCall DEF Steps
  <2>3. rooms[c.room].phase # "UNUSED"
    BY <2>2 DEF CallsHaveRooms
  <2>4. /\ (rooms[c.room].members \cup rooms[c.room].apps) \ {h[1]} \in SUBSET Player
    BY <2>2 DEF TypeOK, RoomState
  <2>5. \/ DropMember(h, c.room, rooms[c.room])
        \/ /\ UNCHANGED rooms
           /\ \/ Done(h)
              \/ \E todo \in SUBSET Player, p \in Player :
                   Go(h, Call("leave.others", c.room, p, todo))
    <3>1. CASE LeaveResume(h)
      BY <1>1, <2>4, <3>1 DEF LeaveResume
    <3>2. CASE LeaveOthers(h)
      <4>1. \A q \in c.todo :
              [c EXCEPT !.todo = @ \ {q}] = Call("leave.others", c.room, c.who, c.todo \ {q})
        BY <2>1, <3>2 DEF LeaveOthers, CallState, Call, Idle, Steps
      <4>2. PICK q \in c.todo :
              \/ DropMember(h, c.room, rooms[c.room])
              \/ /\ UNCHANGED rooms
                 /\ Done(h) \/ Go(h, [c EXCEPT !.todo = @ \ {q}])
        BY <3>2 DEF LeaveOthers
      <4>3. c.todo \ {q} \in SUBSET Player
        BY <2>2
      <4> QED BY <2>2, <4>1, <4>2, <4>3
    <3> QED BY <1>4, <3>1, <3>2
  <2> HIDE DEF c
  <2>6. CASE DropMember(h, c.room, rooms[c.room])
    BY <1>2, <2>2, <2>3, <2>6, DropMemberShrinks
  <2>7. CASE Done(h) /\ UNCHANGED rooms
    BY <1>1, <1>2, <2>2, <2>3, <2>7, IdleRoomsKeepParties, GoesOn, MovingShrinks
  <2>8. ASSUME UNCHANGED rooms, NEW todo \in SUBSET Player, NEW p \in Player,
               Go(h, Call("leave.others", c.room, p, todo))
        PROVE  Shrinks
    BY <1>1, <1>2, <2>2, <2>3, <2>8, IdleRoomsKeepParties, GoesOn, MovingShrinks
  <2> QED BY <2>5, <2>6, <2>7, <2>8
<1> QED BY <1>3, <1>4

(* Disbanding goes on, ends or fails.                                      *)
LEMMA DisbandShrinks ==
  ASSUME TypeOK, CallsHaveRooms, NEW h \in Handler, Disband(h)
  PROVE  Shrinks
<1>1. PICK r \in Room, p \in Player : r = calls[h].room /\ p = calls[h].who
  BY WaitingCall DEF Disband, TypeOK, Steps
<1>2. calls[h] # Idle
  BY DEF Disband, Idle
<1>3. rooms[r].phase # "UNUSED" /\ rooms[r] \in RoomState
  BY <1>1, <1>2 DEF CallsHaveRooms, TypeOK
<1>4. UNCHANGED overlap /\ failed \subseteq failed'
  BY FailuresStay DEF Disband
<1>5. CASE NextDisband(h, r, rooms[r])
  BY <1>1, <1>3, <1>4, <1>5, DisbandingShrinks
<1>6. CASE Failing(r, p, "disband") /\ Done(h) /\ rooms' = [rooms EXCEPT ![r] = Looped(h, rooms[r])]
  <2>1. SameParties
    BY <1>6, HandlerPlayer, ApplicationsKeepParties
  <2>2. Excused(r)'
    BY <1>6 DEF Failing, Fail, Excused
  <2>3. \A g \in Handler : calls'[g] = IF g = h THEN Idle ELSE calls[g]
    BY <1>6 DEF Done, Go, TypeOK
  <2>4. ASSUME NEW o \in Room, Led(o) PROVE Led(o)'
    <3>1. Excused(o) => Excused(o)'
      BY <1>1, <1>4, <2>2, <2>3 DEF Excused
    <3> QED BY <2>1, <2>4, <3>1 DEF Led, Open, SameParties
  <2>5. Idle.at # "accept.commit"
    BY DEF Idle
  <2> QED BY <1>4, <2>1, <2>3, <2>4, <2>5 DEF Shrinks, SameParties
<1> QED BY <1>1, <1>5, <1>6 DEF Disband

(* A party has its leader for member from the first.                       *)
LEMMA CreatedParty ==
  ASSUME TypeOK, Party, NEW h \in Handler, CreateParty(h)
  PROVE  Party'
<1> DEFINE p == h[1]
           room == [NoRoom EXCEPT !.phase = "LOBBY", !.leader = p, !.members = {p}, !.conn = {p}]
<1>1. room.phase = "LOBBY" /\ room.leader = p /\ room.members = {p}
  BY DEF NoRoom
<1> HIDE DEF room
<1>2. PICK r \in Room : rooms[r].phase = "UNUSED" /\ rooms' = [rooms EXCEPT ![r] = room]
  BY DEF CreateParty, room
<1>3. UNCHANGED <<calls, overlap, failed>>
  BY DEF CreateParty, history
<1>4. \A o \in Room : rooms'[o] = IF o = r THEN room ELSE rooms[o]
  BY <1>2 DEF TypeOK
<1>5. \A g \in Handler : calls[g] # Idle => calls[g].room \in Room
  BY WaitingCall DEF TypeOK
<1>6. CallsHaveRooms'
  BY <1>1, <1>3, <1>4, <1>5 DEF Party, CallsHaveRooms
<1>7. Accepting(r) = {}
  <2>1. \A g \in Handler : calls[g].at = "accept.commit" => calls[g] # Idle
    BY DEF Idle
  <2> QED BY <1>2, <2>1 DEF Accepting, Party, CallsHaveRooms
<1>8. \A o \in Room : Accepting(o)' = Accepting(o)
  BY <1>3 DEF Accepting
<1>9. PlacesCounted'
  <2>1. Cardinality({p}) = 1 /\ Cardinality({}) = 0
    BY FS_Singleton, FS_EmptySet
  <2>2. Cardinality(rooms'[r].members) + Cardinality(Accepting(r)') <= MaxPartySize + overlap'[r]
    <3>1. rooms'[r].members = {p} /\ Accepting(r)' = {} /\ overlap'[r] = overlap[r]
      BY <1>1, <1>3, <1>4, <1>7, <1>8
    <3>2. overlap[r] \in Nat /\ MaxPartySize \in Nat \ {0}
      BY FiniteParties, PartySizeAssumption
    <3> QED BY <2>1, <3>1, <3>2
  <2>3. ASSUME NEW o \in Room, o # r
        PROVE  Cardinality(rooms'[o].members) + Cardinality(Accepting(o)') <= MaxPartySize + overlap'[o]
    BY <1>3, <1>4, <1>8, <2>3 DEF Party, PlacesCounted
  <2> QED BY <2>2, <2>3 DEF PlacesCounted
<1>10. \A o \in Room : Led(o)'
  BY <1>1, <1>3, <1>4 DEF Party, Led, Open, Excused
<1> QED BY <1>6, <1>9, <1>10 DEF Party

(* An acceptance begins with a place free, not counting those under way,   *)
(* which is what the overlap allows for.                                   *)
LEMMA ReviewedParty ==
  ASSUME TypeOK, Party, NEW h \in Handler, NEW p \in Player, ReviewApplication(h, p, TRUE),
         calls' \in [Handler -> CallState]
  PROVE  Party'
<1>1. PICK r \in Room : /\ rooms[r].phase = "LOBBY" /\ Free(h)
                        /\ Cardinality(rooms[r].members) < MaxPartySize
                        /\ Go(h, Call("accept.commit", r, p, {})) /\ CountOverlap(r)
                        /\ UNCHANGED failed
  BY DEF ReviewApplication
<1> DEFINE call == Call("accept.commit", r, p, {})
<1>2. SameParties
  BY HandlersKeepParties
<1>3. call.at = "accept.commit" /\ call.room = r
  BY DEF Call
<1> HIDE DEF call
<1>4. calls[h] = Idle /\ calls[h].at # "disband" /\ calls[h].at # "accept.commit"
  BY <1>1 DEF Free, Idle
<1>5. calls \in [Handler -> CallState]
  BY DEF TypeOK
<1>6. \A g \in Handler : calls'[g] = IF g = h THEN call ELSE calls[g]
  BY <1>1, <1>5 DEF Go, call
<1>7. CallsHaveRooms'
  <2>1. \A g \in Handler : calls[g] # Idle => calls[g].room \in Room
    BY <1>5, WaitingCall
  <2> QED BY <1>1, <1>2, <1>3, <1>6, <2>1 DEF Party, CallsHaveRooms, SameParties
<1>8. PlacesCounted'
  <2>1. Accepting(r)' = Accepting(r) \cup {h} /\ h \notin Accepting(r)
    BY <1>3, <1>4, <1>6 DEF Accepting
  <2>2. Cardinality(Accepting(r)') = Cardinality(Accepting(r)) + 1
    BY <2>1, FiniteParties, FS_AddElement
  <2>3. overlap'[r] \in Nat /\ overlap'[r] >= Cardinality(Accepting(r))
    BY <1>1, FiniteParties DEF CountOverlap, TypeOK
  <2>4. Cardinality(rooms'[r].members) + Cardinality(Accepting(r)') <= MaxPartySize + overlap'[r]
    BY <1>1, <1>2, <2>2, <2>3, FiniteParties DEF SameParties
  <2>5. ASSUME NEW o \in Room, o # r
        PROVE  Cardinality(rooms'[o].members) + Cardinality(Accepting(o)') <= MaxPartySize + overlap'[o]
    <3>1. Accepting(o)' = Accepting(o)
      BY <1>3, <1>4, <1>6, <2>5 DEF Accepting
    <3>2. overlap'[o] = overlap[o]
      BY <1>1, <2>5 DEF CountOverlap, TypeOK
    <3> QED BY <1>2, <3>1, <3>2 DEF SameParties, Party, PlacesCounted
  <2> QED BY <2>4, <2>5 DEF PlacesCounted
<1>9. ASSUME NEW o \in Room PROVE Led(o)'
  <2>1. Excused(o) => Excused(o)'
    BY <1>1, <1>4, <1>5, ExcuseStays
  <2> QED BY <1>2, <2>1 DEF Party, Led, Open, SameParties
<1> QED BY <1>7, <1>8, <1>9 DEF Party

(* An acceptance takes the place it was counted for.                       *)
LEMMA AcceptedParty ==
  ASSUME TypeOK, Party, NEW h \in Handler, AcceptCommit(h), calls' \in [Handler -> CallState]
  PROVE  Party'
<1>1. PICK r \in Room, p \in Player : r = calls[h].room /\ p = calls[h].who
  BY WaitingCall DEF AcceptCommit, TypeOK, Steps
<1> DEFINE joined == [rooms EXCEPT ![r] = Joined(rooms[r], p)]
<1>2. \/ NextElsewhere(h, r, p, 0, joined) /\ UNCHANGED failed
      \/ /\ Done(h) /\ UNCHANGED rooms
         /\ Failing(r, p, "accept") \/ Fail(r, p, "accept")
  BY <1>1, AcceptCommitRooms
<1>3. calls[h].at = "accept.commit" /\ calls[h] # Idle /\ UNCHANGED overlap
  BY DEF AcceptCommit, Idle
<1>4. rooms[r].phase # "UNUSED" /\ rooms[r] \in RoomState
  BY <1>1, <1>3 DEF Party, CallsHaveRooms, TypeOK
<1>5. calls \in [Handler -> CallState] /\ rooms \in [Room -> RoomState]
  BY DEF TypeOK
<1>6. ASSUME Done(h), UNCHANGED rooms, Failing(r, p, "accept") \/ Fail(r, p, "accept")
      PROVE  Party'
  <2>1. "cancel.refund" \in Steps \ {"accept.commit"} /\ {} \in SUBSET Player
    BY DEF Steps
  <2>2. SameParties /\ failed \subseteq failed' /\ calls[h].at # "disband"
    BY <1>3, <1>6, IdleRoomsKeepParties, FailuresStay
  <2>3. MovesOn(h)
    BY <1>3, <1>4, <1>6, <2>1, <2>2, GoesOn
  <2> QED BY <2>3, MovingShrinks, ShrinkingParty
<1>7. CASE NextElsewhere(h, r, p, 0, joined) /\ UNCHANGED failed
  <2> DEFINE room == Joined(rooms[r], p)
  <2>1. /\ room \in RoomState /\ room.phase = rooms[r].phase
        /\ room.leader = rooms[r].leader /\ room.members = rooms[r].members \cup {p}
    BY <1>4, JoinedIsRoom
  <2>2. joined \in [Room -> RoomState]
    BY <1>5, <2>1
  <2>3. \A o \in Room : joined[o] = IF o = r THEN room ELSE rooms[o]
    BY <1>5
  <2> HIDE DEF room, joined
  <2>4. /\ \A o \in Room : /\ rooms'[o].phase = joined[o].phase
                           /\ rooms'[o].leader = joined[o].leader
                           /\ rooms'[o].members = joined[o].members
        /\ Done(h) \/ \E o \in Room : Go(h, Call("accept.elsewhere", r, p, o))
    BY <1>7, <2>2, ElsewhereKeepsParties
  <2>5. \A o \in Room : /\ rooms'[o].phase = rooms[o].phase
                        /\ rooms'[o].leader = rooms[o].leader
                        /\ rooms'[o].members = IF o = r THEN rooms[r].members \cup {p}
                                               ELSE rooms[o].members
    BY <2>1, <2>3, <2>4
  <2>6. \E call : Go(h, call) /\ call.at # "accept.commit" /\ (call = Idle \/ call.room = r)
    <3>1. Idle.at # "accept.commit"
      BY DEF Idle
    <3>2. \A o \in Room : /\ Call("accept.elsewhere", r, p, o).at # "accept.commit"
                          /\ Call("accept.elsewhere", r, p, o).room = r
      BY DEF Call
    <3> QED BY <2>4, <3>1, <3>2 DEF Done
  <2>7. PICK call : Go(h, call) /\ call.at # "accept.commit" /\ (call = Idle \/ call.room = r)
    BY <2>6
  <2>8. \A g \in Handler : calls'[g] = IF g = h THEN call ELSE calls[g]
    BY <1>5, <2>7 DEF Go
  <2>9. CallsHaveRooms'
    <3>1. \A g \in Handler : calls[g] # Idle => calls[g].room \in Room
      BY <1>5, WaitingCall
    <3> QED BY <1>4, <2>5, <2>7, <2>8, <3>1 DEF Party, CallsHaveRooms
  <2>10. Accepting(r)' = Accepting(r) \ {h} /\ h \in Accepting(r)
    BY <1>1, <1>3, <2>7, <2>8 DEF Accepting
  <2>11. Cardinality(Accepting(r)') = Cardinality(Accepting(r)) - 1
    BY <2>10, FiniteParties, FS_RemoveElement
  <2> DEFINE more == rooms[r].members \cup {p}
  <2>12. /\ Cardinality(more) \in Nat
         /\ Cardinality(more) <= Cardinality(rooms[r].members) + 1
    <3>1. IsFiniteSet(rooms[r].members) /\ Cardinality(rooms[r].members) \in Nat
      BY FiniteParties
    <3>2. /\ IsFiniteSet(more)
          /\ Cardinality(more) = IF p \in rooms[r].members THEN Cardinality(rooms[r].members)
                                 ELSE Cardinality(rooms[r].members) + 1
      BY <3>1, FS_AddElement
    <3> HIDE DEF more
    <3> QED BY <3>1, <3>2, FS_CardinalityType
  <2>13. Cardinality(rooms'[r].members) + Cardinality(Accepting(r)') <= MaxPartySize + overlap'[r]
    <3>1. Cardinality(rooms[r].members) + Cardinality(Accepting(r)) <= MaxPartySize + overlap[r]
      BY DEF Party, PlacesCounted
    <3>2. rooms'[r].members = more /\ overlap'[r] = overlap[r]
      BY <1>3, <2>5
    <3> HIDE DEF more
    <3> QED BY <2>11, <2>12, <3>1, <3>2, FiniteParties
  <2>14. ASSUME NEW o \in Room, o # r
         PROVE  Cardinality(rooms'[o].members) + Cardinality(Accepting(o)') <= MaxPartySize + overlap'[o]
    <3>1. calls[h].at = "accept.commit" => calls[h].room # o
      BY <1>1, <2>14
    <3>2. Accepting(o)' = Accepting(o)
      BY <2>7, <2>8, <3>1 DEF Accepting
    <3> QED BY <1>3, <2>5, <2>14, <3>2 DEF Party, PlacesCounted
  <2>15. PlacesCounted'
    BY <2>13, <2>14 DEF PlacesCounted
  <2>16. ASSUME NEW o \in Room PROVE Led(o)'
    <3>1. Excused(o) => Excused(o)'
      BY <1>3, <1>5, <1>7, <2>7, ExcuseStays
    <3> QED BY <2>5, <3>1 DEF Party, Led, Open
  <2> QED BY <2>9, <2>15, <2>16 DEF Party
<1> QED BY <1>2, <1>6, <1>7

(* A START that commits leaves the party as it is, deleted or not.         *)
LEMMA StartCommitShrinks ==
  ASSUME TypeOK, NEW h \in Handler, StartCommit(h)
  PROVE  Shrinks
<1>1. PICK r \in Room : r = calls[h].room
  BY WaitingCall DEF StartCommit, TypeOK, Steps
<1>2. UNCHANGED rooms \/ rooms' = [rooms EXCEPT ![r] = Started(rooms[r])]
  BY <1>1, StartCommitRooms
<1>3. /\ Done(h) /\ calls[h].at # "disband" /\ UNCHANGED overlap /\ failed \subseteq failed'
      /\ calls \in [Handler -> CallState] /\ rooms \in [Room -> RoomState]
  BY DEF StartCommit, history, TypeOK
<1>4. ASSUME NEW o \in Room
      PROVE  /\ rooms'[o].leader = rooms[o].leader /\ rooms'[o].members = rooms[o].members
             /\ rooms'[o].phase \in {"UNUSED", "CLOSED"} <=> rooms[o].phase \in {"UNUSED", "CLOSED"}
             /\ rooms[o].phase # "UNUSED" => rooms'[o].phase # "UNUSED"
  <2> DEFINE room == Started(rooms[r])
  <2>1. /\ room.leader = rooms[r].leader /\ room.members = rooms[r].members
        /\ room.phase = IF rooms[r].phase \in {"UNUSED", "CLOSED"} THEN rooms[r].phase ELSE "RUNNING"
    BY <1>3, StartedIsRoom
  <2>2. rooms'[o] = rooms[o] \/ (o = r /\ rooms'[o] = room)
    BY <1>2, <1>3
  <2> HIDE DEF room
  <2> QED BY <2>1, <2>2
<1>5. ASSUME NEW o \in Room, Led(o) PROVE Led(o)'
  <2>1. Excused(o) => Excused(o)'
    BY <1>3, ExcuseStays DEF Done
  <2> QED BY <1>4, <1>5, <2>1 DEF Led, Open
<1>6. \A g \in Handler : calls'[g] = calls[g] \/ calls'[g] = Idle
  BY <1>3 DEF Done, Go
<1>7. Idle.at # "accept.commit"
  BY DEF Idle
<1> QED BY <1>3, <1>4, <1>5, <1>6, <1>7 DEF Shrinks

(* The end of a run and of its room.                                       *)
LEMMA RunEndShrinks ==
  ASSUME TypeOK, NEW r \in Room, FinishExpedition(r) \/ FinalizeRoom(r)
  PROVE  Shrinks
<1>1. UNCHANGED <<calls, overlap, failed>> /\ rooms \in [Room -> RoomState]
  BY DEF FinishExpedition, FinalizeRoom, history, TypeOK
<1>2. PICK room \in RoomState :
        /\ rooms' = [rooms EXCEPT ![r] = room] /\ room.phase # "UNUSED"
        /\ room.members \subseteq rooms[r].members
        /\ \/ room.phase = "CLOSED"
           \/ Open(r) /\ room.leader = rooms[r].leader /\ room.members = rooms[r].members
  <2>1. CASE FinishExpedition(r)
    <3> DEFINE room == [rooms[r] EXCEPT !.phase = "FINISHED"]
    <3>1. "FINISHED" \in RoomPhase /\ rooms[r] \in RoomState
      BY <1>1 DEF RoomPhase
    <3>2. /\ room \in RoomState /\ room.phase = "FINISHED"
          /\ room.leader = rooms[r].leader /\ room.members = rooms[r].members
      BY <3>1, PhasedIsRoom
    <3>3. rooms' = [rooms EXCEPT ![r] = room] /\ Open(r)
      BY <2>1 DEF FinishExpedition, Open
    <3> HIDE DEF room
    <3> QED BY <3>2, <3>3
  <2>2. CASE FinalizeRoom(r)
    BY <2>2, ClosedIsRoom DEF FinalizeRoom
  <2> QED BY <2>1, <2>2
<1>3. \A o \in Room : rooms'[o] = IF o = r THEN room ELSE rooms[o]
  BY <1>1, <1>2
<1>4. ASSUME NEW o \in Room, Led(o) PROVE Led(o)'
  <2>1. Excused(o) => Excused(o)'
    BY <1>1 DEF Excused
  <2> QED BY <1>2, <1>3, <1>4, <2>1 DEF Led, Open
<1> QED BY <1>1, <1>2, <1>3, <1>4 DEF Shrinks

(* Connections, timers and the refunds after a disconnect.                 *)
LEMMA PeersShrink ==
  ASSUME TypeOK,
         \/ \E p \in Player : Disconnect(p) \/ Connect(p) \/ LateConnect(p)
         \/ \E r \in Room, p \in Player : DisconnectRefund(r, p) \/ ReconnectExpiry(r, p)
  PROVE  Shrinks
<1>1. UNCHANGED <<calls, overlap>> /\ failed \subseteq failed'
  BY FailuresStay DEF Disconnect, Connect, LateConnect, DisconnectRefund, ReconnectExpiry, history
<1> QED BY <1>1, PeersKeepParties, StandingShrinks

(* A member whose grace period is over leaves a led room, or none.         *)
LEMMA ExpiredRemovalShrinks ==
  ASSUME TypeOK, NEW r \in Room, NEW p \in Player, NEW by, ExpiredRemoval(r, p, by)
  PROVE  Shrinks
<1> DEFINE left == Without(rooms[r], p)
<1>1. UNCHANGED <<calls, overlap>> /\ failed \subseteq failed'
  BY FailuresStay DEF ExpiredRemoval
<1>2. rooms \in [Room -> RoomState] /\ rooms[r] \in RoomState
  BY DEF TypeOK
<1>3. left \in RoomState /\ left.phase = rooms[r].phase /\ left.members = rooms[r].members \ {p}
  BY <1>2, WithoutIsRoom
<1>4. \A o \in Room : Excused(o) => Excused(o)'
  BY <1>1 DEF Excused
<1>5. CASE UNCHANGED rooms
  BY <1>1, <1>5, IdleRoomsKeepParties, StandingShrinks
<1>6. CASE rooms' = [rooms EXCEPT ![r] = [left EXCEPT !.phase = "CLOSED"]]
  <2> DEFINE new == [left EXCEPT !.phase = "CLOSED"]
  <2>1. new.phase = "CLOSED" /\ new.members = rooms[r].members \ {p}
    <3> HIDE DEF left
    <3> QED BY <1>3, PhasedIsRoom DEF RoomPhase
  <2>2. \A o \in Room : rooms'[o] = IF o = r THEN new ELSE rooms[o]
    BY <1>2, <1>6
  <2> HIDE DEF new
  <2>3. \A o \in Room : Led(o) => Led(o)'
    BY <1>4, <2>1, <2>2 DEF Led, Open
  <2> QED BY <1>1, <2>1, <2>2, <2>3 DEF Shrinks
<1>7. ASSUME NEW l \in Successors(rooms[r], p), left.members # {},
             rooms' = [rooms EXCEPT ![r] = [left EXCEPT !.leader = l]]
      PROVE  Shrinks
  <2> DEFINE new == [left EXCEPT !.leader = l]
  <2>1. l \in Player \cup {NoLeader}
    BY <1>2, SuccessorsAreLeaders DEF RoomState
  <2>2. Led(r) => Led(r)'
    BY <1>4, <1>7, SuccessionLeads
  <2>3. new.phase = rooms[r].phase /\ new.members = rooms[r].members \ {p}
    <3> HIDE DEF left
    <3> QED BY <1>3, <2>1, LedIsRoom
  <2>4. \A o \in Room : rooms'[o] = IF o = r THEN new ELSE rooms[o]
    BY <1>2, <1>7
  <2> HIDE DEF new
  <2>5. \A o \in Room : Led(o) => Led(o)'
    BY <1>4, <2>2, <2>4 DEF Led, Open
  <2> QED BY <1>1, <2>3, <2>4, <2>5 DEF Shrinks
<1> QED BY <1>5, <1>6, <1>7, ExpiredRemovalRooms

(* A restart leaves no party, no handler and no overlap.                   *)
LEMMA RestartedParty ==
  ASSUME TypeOK, Restart
  PROVE  Party'
<1>1. /\ \A h \in Handler : calls'[h] = Idle
      /\ \A r \in Room : /\ rooms'[r] \in {NoRoom, [NoRoom EXCEPT !.phase = "CLOSED"]}
                         /\ overlap'[r] = 0
  BY DEF Restart
<1>2. \A r \in Room : rooms'[r].members = {} /\ rooms'[r].phase \in {"UNUSED", "CLOSED"}
  BY <1>1, NoRoomIsRoom, ClosedIsRoom
<1>3. \A r \in Room : Accepting(r)' = {}
  BY <1>1 DEF Accepting, Idle
<1>4. PlacesCounted'
  BY <1>1, <1>2, <1>3, FS_EmptySet, PartySizeAssumption DEF PlacesCounted
<1>5. CallsHaveRooms' /\ \A r \in Room : Led(r)'
  BY <1>1, <1>2 DEF CallsHaveRooms, Led, Open
<1> QED BY <1>4, <1>5 DEF Party

(* Every step keeps the parties sound.                                     *)
LEMMA NextParty ==
  TypeOK /\ TypeOK' /\ Party /\ [Next]_vars => Party'
<1> SUFFICES ASSUME TypeOK, TypeOK', Party, [Next]_vars PROVE Party'
  OBVIOUS
<1>1. calls' \in [Handler -> CallState] /\ CallsHaveRooms
  BY DEF TypeOK, Party
<1>2. Shrinks => Party'
  BY <1>1, ShrinkingParty
<1>3. ASSUME NEW h \in Handler, Handlers(h) PROVE Party'
  <2>1. CASE \/ \E r \in Room : CancelApplication(h, r)
             \/ \E r \in Room, offer \in SlotOffers : ApplyToParty(h, r, offer)
             \/ \E q \in Player : ReviewApplication(h, q, FALSE)
             \/ SelectRiftFloor(h) \/ StartExpedition(h)
    BY <1>2, <2>1, HandlersMoveOn, MovingShrinks
  <2>2. CASE CreateParty(h)
    BY <2>2, CreatedParty
  <2>3. ASSUME NEW q \in Player, ReviewApplication(h, q, TRUE) PROVE Party'
    BY <1>1, <2>3, ReviewedParty
  <2>4. CASE LeaveParty(h)
    BY <1>1, <1>2, <2>4, LeavingShrinks
  <2>5. ASSUME NEW ready \in BOOLEAN, SetReady(h, ready) PROVE Party'
    <3>1. UNCHANGED <<calls, overlap, failed>>
      BY <2>5 DEF SetReady, history
    <3> QED BY <1>2, <2>5, <3>1, HandlersKeepParties, StandingShrinks
  <2> QED BY <1>3, <2>1, <2>2, <2>3, <2>4, <2>5 DEF Handlers
<1>4. ASSUME NEW h \in Handler, Continuations(h) PROVE Party'
  <2>1. CASE \/ ApplyReserve(h) \/ CancelRefund(h) \/ RejectRefund(h) \/ AcceptElsewhere(h)
             \/ LeaveRefund(h) \/ FloorRead(h)
             \/ StartRead(h) \/ StartReject(h) \/ StartPrepare(h)
    BY <1>1, <1>2, <2>1, ContinuationsMoveOn, MovingShrinks
  <2>2. CASE AcceptCommit(h)
    BY <1>1, <2>2, AcceptedParty
  <2>3. CASE LeaveResume(h) \/ LeaveOthers(h)
    BY <1>1, <1>2, <2>3, LeavingShrinks
  <2>4. CASE Disband(h)
    BY <1>1, <1>2, <2>4, DisbandShrinks
  <2>5. CASE StartCommit(h)
    BY <1>2, <2>5, StartCommitShrinks
  <2> QED BY <1>4, <2>1, <2>2, <2>3, <2>4, <2>5 DEF Continuations
<1>5. ASSUME NEW r \in Room, NEW p \in Player, NEW by, ExpiredRemoval(r, p, by) PROVE Party'
  BY <1>2, <1>5, ExpiredRemovalShrinks
<1>6. CASE \/ \E p \in Player : Disconnect(p) \/ Connect(p) \/ LateConnect(p)
           \/ \E r \in Room, p \in Player : DisconnectRefund(r, p) \/ ReconnectExpiry(r, p)
  BY <1>2, <1>6, PeersShrink
<1>7. CASE \E r \in Room : FinishExpedition(r) \/ FinalizeRoom(r)
  BY <1>2, <1>7, RunEndShrinks
<1>8. CASE Restart
  BY <1>8, RestartedParty
<1>9. CASE UNCHANGED vars
  BY <1>2, <1>9, IdleRoomsKeepParties, StandingShrinks DEF vars, history
<1> QED BY <1>3, <1>4, <1>5, <1>6, <1>7, <1>8, <1>9 DEF Next

(* The parties are sound in every state.                                   *)
LEMMA PartyAlways == Spec => []Party
<1>1. Init => Party
  BY InitParty
<1>2. TypeOK /\ TypeOK' /\ Party /\ [Next]_vars => Party'
  BY NextParty
<1> QED BY <1>1, <1>2, LobbyTypeCorrect, PTL DEF Spec

(* With any number of sockets per player and any failing calls: a party    *)
(* exceeds its size at most by the acceptances that overlapped, and an     *)
(* open room is led by a member unless it is, or was to be, disbanded.     *)
THEOREM PartiesAreSound == Spec => []PartyIsSound
BY PartyAlways, LobbyTypeCorrect, PartyIsEnough, PTL

-----------------------------------------------------------------------------
(* A START is marked.  The marker and the key of its transaction come      *)
(* together, no room that may still start has one, a room in a run has,    *)
(* and what is settled was settled with it.                                *)
SlotsTyped ==
  /\ slots \in [SlotId -> Slots!SlotRecord \cup {NoSlot}]
  /\ marker \in [Room -> Slots!MarkerRecord \cup {NoMarker}]

MarkedRoom(r) ==
  /\ rooms[r].phase \in {"UNUSED", "LOBBY"} => marker[r] = NoMarker
  /\ rooms[r].phase \in {"RUNNING", "FINISHED"} => marker[r] # NoMarker
  /\ Slots!StartKey(r) \in operations <=> marker[r] # NoMarker

SettledByMarker(s) ==
  slots[s] # NoSlot /\ slots[s].status = "SETTLED" =>
    LET m == marker[slots[s].room]
    IN  m # NoMarker /\ slots[s].leader = m.leader /\ slots[s].applicant \in m.members

Marked ==
  /\ SlotsTyped
  /\ \A r \in Room : MarkedRoom(r)
  /\ \A s \in SlotId : SettledByMarker(s)

(* A room goes from the lobby to a run by StartCommit only; other steps    *)
(* create, finish and delete rooms.                                        *)
PhaseCalm(r) ==
  \/ rooms'[r].phase \in {rooms[r].phase, "CLOSED"}
  \/ rooms[r].phase = "UNUSED" /\ rooms'[r].phase = "LOBBY"
  \/ rooms[r].phase = "RUNNING" /\ rooms'[r].phase = "FINISHED"

PhasesCalm == \A r \in Room : PhaseCalm(r)

(* A room that is edited or deleted.                                       *)
LEMMA RoomEditIsCalm ==
  ASSUME TypeOK, NEW r \in Room, NEW room, room.phase = rooms[r].phase \/ room.phase = "CLOSED",
         rooms' = [rooms EXCEPT ![r] = room]
  PROVE  PhasesCalm
BY DEF PhasesCalm, PhaseCalm, TypeOK

(* The loop of a disbanded room.                                           *)
LEMMA DisbandingIsCalm ==
  ASSUME TypeOK, NEW h \in Handler, NEW r \in Room, NEW room \in RoomState,
         room.phase = rooms[r].phase, NextDisband(h, r, room)
  PROVE  PhasesCalm
<1>1. ASSUME NEW q \in Unvisited(h, room), rooms' = [rooms EXCEPT ![r] = Visited(h, q, room)]
      PROVE  PhasesCalm
  <2>1. q \in Player
    BY DEF Unvisited, RoomState
  <2> DEFINE new == Visited(h, q, room)
  <2>2. new.phase = rooms[r].phase \/ new.phase = "CLOSED"
    BY <2>1, EditedRooms
  <2>3. rooms' = [rooms EXCEPT ![r] = new]
    BY <1>1
  <2> HIDE DEF new
  <2> QED BY <2>2, <2>3, RoomEditIsCalm
<1>2. CASE rooms' = [rooms EXCEPT ![r] = [Looped(h, room) EXCEPT !.phase = "CLOSED"]]
  <2> DEFINE looped == Looped(h, room)
             new == [looped EXCEPT !.phase = "CLOSED"]
  <2>1. looped \in RoomState
    BY HandlerPlayer, EditedRooms
  <2> HIDE DEF looped
  <2>2. new.phase = rooms[r].phase \/ new.phase = "CLOSED"
    BY <2>1, PhasedIsRoom DEF RoomPhase
  <2>3. rooms' = [rooms EXCEPT ![r] = new]
    BY <1>2 DEF looped
  <2> HIDE DEF new
  <2> QED BY <2>2, <2>3, RoomEditIsCalm
<1> QED BY <1>1, <1>2 DEF NextDisband

(* The end of leaveParty.                                                  *)
LEMMA DropMemberIsCalm ==
  ASSUME TypeOK, NEW h \in Handler, NEW r \in Room, DropMember(h, r, rooms[r])
  PROVE  PhasesCalm
<1> DEFINE left == Without(rooms[r], h[1])
<1>1. rooms[r] \in RoomState /\ h[1] \in Player
  BY HandlerPlayer DEF TypeOK
<1>2. left \in RoomState /\ left.phase = rooms[r].phase
  BY <1>1, WithoutIsRoom
<1>3. ASSUME NEW l \in Successors(rooms[r], h[1]),
             rooms' = [rooms EXCEPT ![r] = [left EXCEPT !.leader = l]]
      PROVE  PhasesCalm
  <2> DEFINE new == [left EXCEPT !.leader = l]
  <2>1. l \in Player \cup {NoLeader}
    BY <1>1, SuccessorsAreLeaders DEF RoomState
  <2> HIDE DEF left
  <2>2. new.phase = rooms[r].phase \/ new.phase = "CLOSED"
    BY <1>2, <2>1, LedIsRoom
  <2>3. rooms' = [rooms EXCEPT ![r] = new]
    BY <1>3
  <2> HIDE DEF new
  <2> QED BY <2>2, <2>3, RoomEditIsCalm
<1>4. CASE NextDisband(h, r, left)
  <2> HIDE DEF left
  <2> QED BY <1>2, <1>4, DisbandingIsCalm
<1> QED BY <1>3, <1>4 DEF DropMember

(* Rooms whose parties stay have their phases.                             *)
LEMMA SamePartiesAreCalm == SameParties => PhasesCalm
BY DEF SameParties, PhasesCalm, PhaseCalm

(* Every step but StartCommit is calm.                                     *)
LEMMA StepsAreCalm ==
  ASSUME TypeOK, [Next]_vars
  PROVE  PhasesCalm \/ \E h \in Handler : StartCommit(h)
<1>1. ASSUME NEW h \in Handler, Handlers(h) PROVE PhasesCalm
  <2>1. CASE CreateParty(h)
    <3> DEFINE room == [NoRoom EXCEPT !.phase = "LOBBY", !.leader = h[1],
                          !.members = {h[1]}, !.conn = {h[1]}]
    <3>1. room.phase = "LOBBY"
      BY DEF NoRoom
    <3>2. PICK r \in Room : rooms[r].phase = "UNUSED" /\ rooms' = [rooms EXCEPT ![r] = room]
      BY <2>1 DEF CreateParty
    <3> HIDE DEF room
    <3> QED BY <3>1, <3>2 DEF PhasesCalm, PhaseCalm, TypeOK
  <2>2. CASE LeaveParty(h)
    BY <2>2, DropMemberIsCalm, IdleRoomsKeepParties, SamePartiesAreCalm DEF LeaveParty
  <2> QED BY <1>1, <2>1, <2>2, HandlersKeepParties, SamePartiesAreCalm DEF Handlers
<1>2. ASSUME NEW h \in Handler, Continuations(h), ~ StartCommit(h) PROVE PhasesCalm
  <2>1. PICK r \in Room : r = calls[h].room
    BY <1>2, WaitingCall DEF Continuations, TypeOK
  <2>2. CASE AcceptCommit(h)
    <3>1. PICK p \in Player : p = calls[h].who
      BY <2>2, AcceptCommitRooms
    <3> DEFINE room == Joined(rooms[r], p)
               joined == [rooms EXCEPT ![r] = room]
    <3>2. NextElsewhere(h, r, p, 0, joined) \/ UNCHANGED rooms
      BY <2>1, <2>2, <3>1, AcceptCommitRooms
    <3>3. rooms \in [Room -> RoomState] /\ room \in RoomState /\ room.phase = rooms[r].phase
      BY JoinedIsRoom DEF TypeOK
    <3>4. joined \in [Room -> RoomState] /\ \A o \in Room : joined[o].phase = rooms[o].phase
      <4> HIDE DEF room
      <4> QED BY <3>3
    <3> HIDE DEF joined, room
    <3>5. NextElsewhere(h, r, p, 0, joined) => \A o \in Room : rooms'[o].phase = rooms[o].phase
      BY <3>4, ElsewhereKeepsParties
    <3> QED BY <3>2, <3>5 DEF PhasesCalm, PhaseCalm
  <2>3. CASE LeaveResume(h) \/ LeaveOthers(h)
    <3>1. DropMember(h, r, rooms[r]) \/ UNCHANGED rooms
      BY <2>1, <2>3 DEF LeaveResume, LeaveOthers
    <3> QED BY <3>1, DropMemberIsCalm, IdleRoomsKeepParties, SamePartiesAreCalm
  <2>4. CASE Disband(h)
    <3>1. NextDisband(h, r, rooms[r]) \/ rooms' = [rooms EXCEPT ![r] = Looped(h, rooms[r])]
      BY <2>1, <2>4 DEF Disband
    <3>2. rooms[r] \in RoomState
      BY DEF TypeOK
    <3> QED BY <3>1, <3>2, HandlerPlayer, DisbandingIsCalm, ApplicationsKeepParties, SamePartiesAreCalm
  <2> QED BY <1>2, <2>2, <2>3, <2>4, ContinuationsKeepParties, SamePartiesAreCalm DEF Continuations
<1>3. ASSUME NEW r \in Room, NEW p \in Player, NEW by, ExpiredRemoval(r, p, by)
      PROVE  PhasesCalm
  <2> DEFINE left == Without(rooms[r], p)
  <2>1. rooms[r] \in RoomState
    BY DEF TypeOK
  <2>2. left \in RoomState /\ left.phase = rooms[r].phase
    BY <2>1, WithoutIsRoom
  <2> DEFINE closed == [left EXCEPT !.phase = "CLOSED"]
             led(l) == [left EXCEPT !.leader = l]
  <2>3. \/ UNCHANGED rooms
        \/ rooms' = [rooms EXCEPT ![r] = closed]
        \/ \E l \in Successors(rooms[r], p) : rooms' = [rooms EXCEPT ![r] = led(l)]
    BY <1>3, ExpiredRemovalRooms
  <2>4. Successors(rooms[r], p) \subseteq Player \cup {NoLeader}
    BY <2>1, SuccessorsAreLeaders DEF RoomState
  <2> HIDE DEF left
  <2>5. closed.phase = "CLOSED" /\ \A l \in Player \cup {NoLeader} : led(l).phase = rooms[r].phase
    BY <2>2, PhasedIsRoom, LedIsRoom DEF RoomPhase
  <2> HIDE DEF closed, led
  <2> QED BY <2>3, <2>4, <2>5, RoomEditIsCalm, IdleRoomsKeepParties, SamePartiesAreCalm
<1>4. CASE \/ \E p \in Player : Disconnect(p) \/ Connect(p) \/ LateConnect(p)
           \/ \E r \in Room, p \in Player : DisconnectRefund(r, p) \/ ReconnectExpiry(r, p)
  BY <1>4, PeersKeepParties, SamePartiesAreCalm
<1>5. ASSUME NEW r \in Room, FinishExpedition(r) PROVE PhasesCalm
  <2> DEFINE room == [rooms[r] EXCEPT !.phase = "FINISHED"]
  <2>1. rooms[r] \in RoomState /\ "FINISHED" \in RoomPhase
    BY DEF TypeOK, RoomPhase
  <2>2. room.phase = "FINISHED"
    BY <2>1, PhasedIsRoom
  <2>3. rooms[r].phase = "RUNNING" /\ rooms' = [rooms EXCEPT ![r] = room]
    BY <1>5 DEF FinishExpedition
  <2> HIDE DEF room
  <2> QED BY <2>2, <2>3 DEF PhasesCalm, PhaseCalm, TypeOK
<1>6. ASSUME NEW r \in Room, FinalizeRoom(r) PROVE PhasesCalm
  <2> DEFINE room == [NoRoom EXCEPT !.phase = "CLOSED"]
  <2>1. room.phase = rooms[r].phase \/ room.phase = "CLOSED"
    BY ClosedIsRoom DEF NoRoom
  <2>2. rooms' = [rooms EXCEPT ![r] = room]
    BY <1>6 DEF FinalizeRoom
  <2> HIDE DEF room
  <2> QED BY <2>1, <2>2, RoomEditIsCalm
<1>7. CASE Restart
  BY <1>7, NoRoomIsRoom, ClosedIsRoom DEF Restart, PhasesCalm, PhaseCalm
<1>8. CASE UNCHANGED vars
  BY <1>8, IdleRoomsKeepParties, SamePartiesAreCalm DEF vars
<1> QED BY <1>1, <1>2, <1>3, <1>4, <1>5, <1>6, <1>7, <1>8 DEF Next

(* What a ledger step other than a START leaves of the markers and of what *)
(* is settled.                                                             *)
LedgerCalm ==
  /\ SlotsTyped' /\ UNCHANGED marker
  /\ \A r \in Room : Slots!StartKey(r) \in operations' <=> Slots!StartKey(r) \in operations
  /\ \A s \in SlotId :
       slots'[s] # NoSlot /\ slots'[s].status = "SETTLED" => slots'[s] = slots[s]

(* The keys of the lobby's other transactions are not a START's.           *)
LEMMA KeysDiffer ==
  ASSUME NEW r, NEW p, NEW op
  PROVE  /\ Slots!ReserveKey(p, op) # Slots!StartKey(r)
         /\ Slots!AcceptKey(p, op) # Slots!StartKey(r)
         /\ Slots!RefundKey(p, op) # Slots!StartKey(r)
BY DEF Slots!ReserveKey, Slots!AcceptKey, Slots!RefundKey, Slots!StartKey

(* Steps that leave the ledger alone are calm.                             *)
LEMMA SameLedgerIsCalm ==
  ASSUME SlotsTyped, UNCHANGED slotVars PROVE LedgerCalm
BY DEF slotVars, LedgerCalm, SlotsTyped

(* A refund is calm.                                                       *)
LEMMA RefundIsCalm ==
  ASSUME SlotsTyped, NEW r, NEW p, NEW reason, Refund(r, p, reason) \/ Failing(r, p, reason)
  PROVE  LedgerCalm
<1>1. CASE UNCHANGED slotVars
  BY <1>1, SameLedgerIsCalm
<1>2. CASE Slots!RefundPartySlot(r, p, Op(reason, r, p))
  <2>1. /\ UNCHANGED marker
        /\ operations' = operations \cup {Slots!RefundKey(p, Op(reason, r, p))}
        /\ \/ UNCHANGED slots
           \/ \E s \in SlotId : Slots!Live(s) /\ slots' = [slots EXCEPT ![s].status = "REFUNDED"]
    BY <1>2 DEF Slots!RefundPartySlot
  <2>2. ASSUME NEW s \in SlotId, Slots!Live(s), slots' = [slots EXCEPT ![s].status = "REFUNDED"]
        PROVE  LedgerCalm
    <3> DEFINE slot == [slots[s] EXCEPT !.status = "REFUNDED"]
    <3>1. slots[s] \in Slots!SlotRecord
      BY <2>2 DEF SlotsTyped, Slots!Live, Slots!Used
    <3>2. slot \in Slots!SlotRecord /\ slot.status = "REFUNDED"
      BY <3>1 DEF Slots!SlotRecord, Slots!SlotStatus
    <3>3. slots' = [slots EXCEPT ![s] = slot]
      BY <2>2 DEF SlotsTyped
    <3> HIDE DEF slot
    <3> QED BY <2>1, <3>2, <3>3, KeysDiffer DEF LedgerCalm, SlotsTyped
  <2>3. CASE UNCHANGED slots
    BY <2>1, <2>3, KeysDiffer DEF LedgerCalm, SlotsTyped
  <2> QED BY <2>1, <2>2, <2>3
<1> QED BY <1>1, <1>2 DEF Refund, Failing, Fail

(* A reservation is calm.                                                  *)
LEMMA ReserveIsCalm ==
  ASSUME TypeOK, SlotsTyped, NEW h \in Handler, ApplyReserve(h)
  PROVE  LedgerCalm
<1> DEFINE c == calls[h]
           p == h[1]
<1>1. c \in CallState /\ c.at = "apply.reserve" /\ p \in Player
  BY HandlerPlayer DEF TypeOK, ApplyReserve
<1>2. c.room \in Room /\ c.who \in Player /\ c.todo \in Offer \cup {0}
  BY <1>1, WaitingCall
<1>3. ASSUME c.todo # 0, NEW op, Slots!ReservePartySlot(c.room, p, c.who, c.todo, op)
      PROVE  LedgerCalm
  <2> DEFINE slot == [status |-> "PRE_START", room |-> c.room, applicant |-> p,
                      leader |-> c.who, amount |-> c.todo]
  <2>1. slot \in Slots!SlotRecord /\ slot.status = "PRE_START"
    <3> HIDE DEF c, p
    <3>1. c.todo \in Offer
      BY <1>2, <1>3, Zenon
    <3> QED BY <1>1, <1>2, <3>1 DEF Slots!SlotRecord, Slots!SlotStatus
  <2>2. /\ UNCHANGED marker /\ operations' = operations \cup {Slots!ReserveKey(p, op)}
        /\ \E s \in SlotId : slots' = [slots EXCEPT ![s] = slot]
    BY <1>3 DEF Slots!ReservePartySlot
  <2> HIDE DEF slot, p, c
  <2> QED BY <2>1, <2>2, KeysDiffer DEF LedgerCalm, SlotsTyped
<1>4. \/ UNCHANGED slotVars
      \/ c.todo # 0 /\ \E id \in ApplyId :
           Slots!ReservePartySlot(c.room, p, c.who, c.todo, Op("apply", id, p))
  BY DEF ApplyReserve
<1> QED BY <1>3, <1>4, SameLedgerIsCalm

(* An acceptance is calm, of whatever phase its room has become.           *)
LEMMA AcceptIsCalm ==
  ASSUME SlotsTyped, NEW h \in Handler, AcceptCommit(h)
  PROVE  LedgerCalm
<1> DEFINE c == calls[h]
           r == c.room
           l == h[1]
<1>1. ASSUME NEW op, Slots!AcceptPartySlot(r, c.who, l, op) PROVE LedgerCalm
  <2>1. /\ UNCHANGED marker /\ operations' = operations \cup {Slots!AcceptKey(l, op)}
        /\ \/ UNCHANGED slots
           \/ \E s \in SlotId :
                slots[s] # NoSlot /\ slots' = [slots EXCEPT ![s].status = "ACCEPTED"]
    BY <1>1 DEF Slots!AcceptPartySlot, Slots!Used
  <2> HIDE DEF l
  <2>2. CASE UNCHANGED slots
    BY <2>1, <2>2, KeysDiffer DEF LedgerCalm, SlotsTyped
  <2>3. ASSUME NEW s \in SlotId, slots[s] # NoSlot, slots' = [slots EXCEPT ![s].status = "ACCEPTED"]
        PROVE  LedgerCalm
    <3> DEFINE slot == [slots[s] EXCEPT !.status = "ACCEPTED"]
    <3>1. slots[s] \in Slots!SlotRecord
      BY <2>3 DEF SlotsTyped
    <3>2. slot \in Slots!SlotRecord /\ slot.status = "ACCEPTED"
      BY <3>1 DEF Slots!SlotRecord, Slots!SlotStatus
    <3>3. slots' = [slots EXCEPT ![s] = slot]
      BY <2>3 DEF SlotsTyped
    <3> HIDE DEF slot
    <3> QED BY <2>1, <3>2, <3>3, KeysDiffer DEF LedgerCalm, SlotsTyped
  <2> QED BY <2>1, <2>2, <2>3
<1>2. UNCHANGED slotVars \/ Slots!AcceptPartySlot(r, c.who, l, Op("accept", r, c.who))
  BY DEF AcceptCommit, Failing, Fail
<1> QED BY <1>1, <1>2, SameLedgerIsCalm

(* The cleanup at startup is calm.                                         *)
LEMMA CleanupIsCalm ==
  ASSUME SlotsTyped, Slots!CleanupOrphanedPartySlots
  PROVE  LedgerCalm
<1>1. /\ slots' = [s \in SlotId |->
           IF Slots!Live(s) THEN [slots[s] EXCEPT !.status = "REFUNDED"] ELSE slots[s]]
      /\ UNCHANGED <<operations, marker>>
  BY DEF Slots!CleanupOrphanedPartySlots
<1>2. ASSUME NEW s \in SlotId
      PROVE  /\ slots'[s] \in Slots!SlotRecord \cup {NoSlot}
             /\ slots'[s] = slots[s] \/ slots'[s].status = "REFUNDED"
  <2>1. CASE Slots!Live(s)
    <3>1. slots[s] \in Slots!SlotRecord
      BY <2>1 DEF SlotsTyped, Slots!Live, Slots!Used
    <3> QED BY <1>1, <2>1, <3>1 DEF Slots!SlotRecord, Slots!SlotStatus
  <2>2. CASE ~ Slots!Live(s)
    BY <1>1, <2>2 DEF SlotsTyped
  <2> QED BY <2>1, <2>2
<1> QED BY <1>1, <1>2 DEF LedgerCalm, SlotsTyped

(* Every step but StartCommit is calm in the ledger.                       *)
LEMMA StepsAreLedgerCalm ==
  ASSUME TypeOK, SlotsTyped, [Next]_vars
  PROVE  LedgerCalm \/ \E h \in Handler : StartCommit(h)
<1>1. ASSUME NEW h \in Handler, Handlers(h) PROVE UNCHANGED slotVars
  BY <1>1 DEF Handlers, CreateParty, CancelApplication, ApplyToParty, ReviewApplication,
     LeaveParty, SetReady, SelectRiftFloor, StartExpedition
<1>2. ASSUME NEW h \in Handler, Continuations(h), ~ StartCommit(h) PROVE LedgerCalm
  <2>1. CASE LeaveResume(h) \/ FloorRead(h) \/ StartRead(h) \/ StartPrepare(h)
    BY <2>1, SameLedgerIsCalm DEF LeaveResume, FloorRead, StartRead, StartPrepare
  <2>2. CASE CancelRefund(h) \/ RejectRefund(h) \/ LeaveRefund(h) \/ AcceptElsewhere(h)
    BY <2>2, RefundIsCalm DEF CancelRefund, RejectRefund, LeaveRefund, AcceptElsewhere
  <2>3. CASE LeaveOthers(h) \/ Disband(h) \/ StartReject(h)
    BY <2>3, RefundIsCalm DEF LeaveOthers, Disband, StartReject
  <2> QED BY <1>2, <2>1, <2>2, <2>3, ReserveIsCalm, AcceptIsCalm DEF Continuations
<1>3. ASSUME NEW p \in Player, Disconnect(p) \/ Connect(p) \/ LateConnect(p) PROVE UNCHANGED slotVars
  BY <1>3 DEF Disconnect, Connect, LateConnect
<1>4. ASSUME NEW r \in Room, NEW p \in Player, NEW by,
             DisconnectRefund(r, p) \/ ExpiredRemoval(r, p, by)
      PROVE  LedgerCalm
  BY <1>4, RefundIsCalm DEF DisconnectRefund, ExpiredRemoval
<1>5. ASSUME NEW r \in Room, NEW p \in Player, ReconnectExpiry(r, p) PROVE UNCHANGED slotVars
  BY <1>5 DEF ReconnectExpiry
<1>6. ASSUME NEW r \in Room, FinishExpedition(r) \/ FinalizeRoom(r) PROVE UNCHANGED slotVars
  BY <1>6 DEF FinishExpedition, FinalizeRoom
<1>7. CASE Restart
  BY <1>7, CleanupIsCalm DEF Restart
<1>8. CASE UNCHANGED vars
  BY <1>8, SameLedgerIsCalm DEF vars
<1> QED BY <1>1, <1>2, <1>3, <1>4, <1>5, <1>6, <1>7, <1>8, SameLedgerIsCalm DEF Next

(* A step that is calm in the rooms and in the ledger keeps the marking.   *)
LEMMA CalmStaysMarked ==
  ASSUME Marked, PhasesCalm, LedgerCalm
  PROVE  Marked'
<1>1. ASSUME NEW r \in Room PROVE MarkedRoom(r)'
  <2>1. MarkedRoom(r) /\ PhaseCalm(r) /\ marker'[r] = marker[r]
    BY DEF Marked, PhasesCalm, LedgerCalm
  <2>2. Slots!StartKey(r) \in operations' <=> Slots!StartKey(r) \in operations
    BY DEF LedgerCalm
  <2> QED BY <2>1, <2>2 DEF MarkedRoom, PhaseCalm, Slots!StartKey
<1>2. ASSUME NEW s \in SlotId PROVE SettledByMarker(s)'
  BY DEF Marked, SettledByMarker, LedgerCalm
<1> QED BY <1>1, <1>2 DEF Marked, LedgerCalm

(* What the paid START does to the ledger.                                 *)
LEMMA StartSettles ==
  ASSUME SlotsTyped, NEW r \in Room, NEW l \in Player, NEW members \in SUBSET Player,
         Slots!StartExpedition(r, l, members)
  PROVE  /\ SlotsTyped'
         /\ Slots!StartKey(r) \notin operations
         /\ operations' = operations \cup {Slots!StartKey(r)}
         /\ marker' = [marker EXCEPT ![r] = [leader |-> l, members |-> members]]
         /\ \A s \in SlotId :
              \/ slots'[s] = slots[s]
              \/ /\ slots'[s].room = r /\ slots'[s].leader = l
                 /\ slots'[s].applicant \in members
<1>1. /\ Slots!StartKey(r) \notin operations
      /\ operations' = operations \cup {Slots!StartKey(r)}
      /\ marker' = [marker EXCEPT ![r] = [leader |-> l, members |-> members]]
      /\ slots' = [s \in SlotId |->
           IF Slots!AcceptedIn(s, r) THEN [slots[s] EXCEPT !.status = "SETTLED"] ELSE slots[s]]
      /\ \A s \in SlotId : Slots!AcceptedIn(s, r) =>
           slots[s].applicant \in members /\ slots[s].leader = l
  BY DEF Slots!StartExpedition, Slots!SettleInState
<1>2. ASSUME NEW s \in SlotId
      PROVE  /\ slots'[s] \in Slots!SlotRecord \cup {NoSlot}
             /\ \/ slots'[s] = slots[s]
                \/ /\ slots'[s].room = r /\ slots'[s].leader = l
                   /\ slots'[s].applicant \in members
  <2>1. CASE Slots!AcceptedIn(s, r)
    <3>1. slots[s] \in Slots!SlotRecord /\ slots[s].room = r
      BY <2>1 DEF SlotsTyped, Slots!AcceptedIn, Slots!Used
    <3>2. slots'[s] = [slots[s] EXCEPT !.status = "SETTLED"]
      BY <1>1, <2>1
    <3>3. slots[s].applicant \in members /\ slots[s].leader = l
      BY <1>1, <2>1
    <3> QED BY <3>1, <3>2, <3>3 DEF Slots!SlotRecord, Slots!SlotStatus
  <2>2. CASE ~ Slots!AcceptedIn(s, r)
    BY <1>1, <2>2 DEF SlotsTyped
  <2> QED BY <2>1, <2>2
<1>3. [leader |-> l, members |-> members] \in Slots!MarkerRecord
  BY DEF Slots!MarkerRecord
<1> QED BY <1>1, <1>2, <1>3 DEF SlotsTyped

(* The room a START activates, paid or met again, is the marked one.       *)
LEMMA StartStaysMarked ==
  ASSUME TypeOK, Party, Marked, NEW h \in Handler, StartCommit(h)
  PROVE  Marked'
<1>1. PICK r \in Room : r = calls[h].room
  BY StartCommitRooms
<1>2. PICK todo \in SUBSET Player : todo = calls[h].todo
  BY StartCommitRooms
<1>3. \/ /\ rooms' = [rooms EXCEPT ![r] = Started(rooms[r])]
         /\ \/ Slots!StartExpedition(r, h[1], todo)
            \/ Slots!StartKey(r) \in operations /\ UNCHANGED slotVars
      \/ UNCHANGED rooms /\ UNCHANGED slotVars
  BY <1>1, <1>2, StartCommitRooms
<1>4. rooms[r].phase # "UNUSED"
  <2>1. calls[h] # Idle
    BY WaitingCall DEF TypeOK, StartCommit, Steps
  <2> QED BY <1>1, <2>1 DEF Party, CallsHaveRooms
<1>5. ASSUME rooms' = [rooms EXCEPT ![r] = Started(rooms[r])]
      PROVE  /\ \A o \in Room : o # r => rooms'[o] = rooms[o]
             /\ rooms'[r].phase \in {"CLOSED", "RUNNING"}
  <2> DEFINE room == Started(rooms[r])
  <2>1. room.phase = IF rooms[r].phase \in {"UNUSED", "CLOSED"} THEN rooms[r].phase ELSE "RUNNING"
    BY StartedIsRoom DEF TypeOK
  <2>2. rooms' = [rooms EXCEPT ![r] = room]
    BY <1>5
  <2> HIDE DEF room
  <2> QED BY <1>4, <2>1, <2>2 DEF TypeOK
<1>6. CASE UNCHANGED rooms /\ UNCHANGED slotVars
  BY <1>6 DEF slotVars, Marked, SlotsTyped, MarkedRoom, SettledByMarker, Slots!StartKey
<1>7. CASE /\ rooms' = [rooms EXCEPT ![r] = Started(rooms[r])]
           /\ Slots!StartKey(r) \in operations /\ UNCHANGED slotVars
  <2>1. marker[r] # NoMarker /\ UNCHANGED <<slots, marker, operations>>
    BY <1>7 DEF Marked, MarkedRoom, slotVars
  <2>2. ASSUME NEW o \in Room PROVE MarkedRoom(o)'
    BY <1>5, <1>7, <2>1 DEF Marked, MarkedRoom, Slots!StartKey
  <2> QED BY <2>1, <2>2 DEF Marked, SlotsTyped, SettledByMarker
<1>8. CASE /\ rooms' = [rooms EXCEPT ![r] = Started(rooms[r])]
           /\ Slots!StartExpedition(r, h[1], todo)
  <2> DEFINE l == h[1]
             started == [leader |-> l, members |-> todo]
  <2>1. /\ SlotsTyped'
        /\ Slots!StartKey(r) \notin operations
        /\ operations' = operations \cup {Slots!StartKey(r)}
        /\ marker' = [marker EXCEPT ![r] = started]
        /\ \A s \in SlotId :
             \/ slots'[s] = slots[s]
             \/ /\ slots'[s].room = r /\ slots'[s].leader = l
                /\ slots'[s].applicant \in todo
    BY <1>8, StartSettles, HandlerPlayer DEF Marked
  <2>2. started \in Slots!MarkerRecord /\ started # NoMarker
    BY MarkerAssumption, HandlerPlayer DEF Slots!MarkerRecord
  <2>3. marker[r] = NoMarker
    BY <2>1 DEF Marked, MarkedRoom
  <2>4. started.leader = l /\ started.members = todo
    OBVIOUS
  <2> HIDE DEF l, started
  <2>5. /\ marker'[r] = started
        /\ \A o \in Room : o # r => marker'[o] = marker[o]
    BY <2>1 DEF Marked, SlotsTyped
  <2>6. ASSUME NEW o \in Room PROVE MarkedRoom(o)'
    <3>1. CASE o = r
      BY <1>5, <1>8, <2>1, <2>2, <2>5, <3>1 DEF MarkedRoom, Slots!StartKey
    <3>2. CASE o # r
      <4>1. Slots!StartKey(o) # Slots!StartKey(r)
        BY <3>2 DEF Slots!StartKey
      <4> QED BY <1>5, <1>8, <2>1, <2>5, <3>2, <4>1 DEF Marked, MarkedRoom, Slots!StartKey
    <3> QED BY <3>1, <3>2
  <2>7. ASSUME NEW s \in SlotId PROVE SettledByMarker(s)'
    <3>1. CASE slots'[s] = slots[s]
      BY <2>1, <2>3, <2>5, <3>1 DEF Marked, SettledByMarker, SlotsTyped, Slots!SlotRecord
    <3>2. CASE /\ slots'[s].room = r /\ slots'[s].leader = l /\ slots'[s].applicant \in todo
      BY <2>2, <2>4, <2>5, <3>2 DEF SettledByMarker
    <3> QED BY <2>1, <3>1, <3>2
  <2> QED BY <2>1, <2>6, <2>7 DEF Marked
<1> QED BY <1>3, <1>6, <1>7, <1>8

(* The start is marked in the initial state.                               *)
LEMMA InitMarked == Init => Marked
BY MarkerAssumption DEF Init, Slots!Init, NoRoom, Marked, SlotsTyped, MarkedRoom, SettledByMarker

(* No other step touches what a START has marked.                          *)
LEMMA MarkedAlways == Spec => []Marked
<1>1. TypeOK /\ Party /\ Marked /\ [Next]_vars => Marked'
  <2> SUFFICES ASSUME TypeOK, Party, Marked, [Next]_vars PROVE Marked'
    OBVIOUS
  <2>1. SlotsTyped
    BY DEF Marked
  <2> QED BY <2>1, StepsAreCalm, StepsAreLedgerCalm, CalmStaysMarked, StartStaysMarked
<1> QED BY <1>1, InitMarked, LobbyTypeCorrect, PartyAlways, PTL DEF Spec

(* START is all or nothing across memory and the repository, with any      *)
(* number of overlapping STARTs, acceptances and leaves: a room runs with  *)
(* its marker, one in the lobby has none, and everything settled was       *)
(* settled with the marker of its room.                                    *)
THEOREM StartsAreMarked == Spec => []StartIsMarked
<1>1. Marked => StartIsMarked
  BY DEF Marked, MarkedRoom, SettledByMarker, StartIsMarked, Slots!Used
<1> QED BY <1>1, MarkedAlways, PTL

-----------------------------------------------------------------------------
(* The coins held in the lobby are answered for.  While a room stays in    *)
(* the lobby, every step leaves whoever answers for a seat, or hands it to *)
(* another, or fails or refunds it.                                        *)
CallAnswers(call, r, p) ==
  \/ call.at \in {"cancel.refund", "reject.refund", "accept.commit"} /\ call.room = r /\ call.who = p
  \/ call.at = "accept.elsewhere" /\ call.who = p /\ call.todo = r

Listed(r, p) == p \in rooms[r].apps \cup rooms[r].members

Answered(r, p) == Answerable(r, p) \/ SeatFailed(r, p) \/ SeatRefunded(r, p)

InLobby(r) == rooms[r].phase = "LOBBY" /\ rooms'[r].phase = "LOBBY"

ListStays(r, p) == InLobby(r) /\ Listed(r, p) => Listed(r, p)'

StillAnswered(r, p) == InLobby(r) /\ Answerable(r, p) => Answered(r, p)'

OthersWait(h) == \A g \in Handler \ {h} : calls'[g] = calls[g]

(* Answering is being listed, refunded after a disconnect, or waited for.  *)
LEMMA WhoAnswers ==
  ASSUME NEW r, NEW p
  PROVE  /\ Answerable(r, p) <=> \/ Listed(r, p) \/ <<r, p>> \in refunds
                                 \/ \E h \in Handler : CallAnswers(calls[h], r, p)
         /\ Answerable(r, p)' <=> \/ Listed(r, p)' \/ <<r, p>> \in refunds'
                                  \/ \E h \in Handler : CallAnswers(calls'[h], r, p)
BY DEF Answerable, Listed, CallAnswers

(* A free socket and the end of a handler answer for nobody.               *)
LEMMA IdleAnswersNobody == \A r, p : ~ CallAnswers(Idle, r, p)
BY DEF Idle, CallAnswers

(* Going on and returning leave the other handlers.                        *)
LEMMA OthersGoOn ==
  ASSUME TypeOK, NEW h \in Handler, NEW call, Go(h, call)
  PROVE  OthersWait(h) /\ calls'[h] = call
BY DEF Go, OthersWait, TypeOK

(* The same of a handler that returns.                                     *)
LEMMA OthersStay ==
  ASSUME TypeOK, NEW h \in Handler, Done(h)
  PROVE  OthersWait(h)
BY OthersGoOn DEF Done

(* A seat whose refund commits, or was recorded, or fails, is answered.    *)
LEMMA RefundAnswers ==
  ASSUME NEW r, NEW p, NEW reason \in ReasonKinds, Refund(r, p, reason) \/ Failing(r, p, reason)
  PROVE  Answered(r, p)'
<1>1. CASE Refund(r, p, reason)
  <2>1. Slots!RefundKey(p, Op(reason, r, p)) \in operations'
    BY <1>1 DEF Refund, Slots!RefundPartySlot, slotVars
  <2> QED BY <2>1 DEF Answered, SeatRefunded, Slots!RefundKey, Op
<1>2. CASE Failing(r, p, reason)
  BY <1>2 DEF Failing, Fail, Answered, SeatFailed, Op
<1> QED BY <1>1, <1>2

(* A step of one handler, seat by seat: the lists and the handler's own    *)
(* answer decide.                                                          *)
LEMMA HandlerAnswers ==
  ASSUME NEW h \in Handler, OthersWait(h), UNCHANGED refunds, NEW r, NEW p,
         ListStays(r, p) \/ Answered(r, p)',
         CallAnswers(calls[h], r, p) => Answered(r, p)'
  PROVE  StillAnswered(r, p)
<1> SUFFICES ASSUME InLobby(r), Answerable(r, p), ~ Answered(r, p)' PROVE FALSE
  BY DEF StillAnswered
<1>1. ~ Answerable(r, p)'
  BY DEF Answered
<1>2. ~ Listed(r, p)
  BY <1>1, WhoAnswers DEF ListStays
<1>3. <<r, p>> \notin refunds
  BY <1>1, WhoAnswers
<1>4. PICK g \in Handler : CallAnswers(calls[g], r, p)
  BY <1>2, <1>3, WhoAnswers
<1>5. g # h
  BY <1>4
<1>6. CallAnswers(calls'[g], r, p)
  BY <1>4, <1>5 DEF OthersWait
<1> QED BY <1>1, <1>6, WhoAnswers

(* The visits of a loop leave the list.                                    *)
LEMMA EditedLists ==
  ASSUME NEW room \in RoomState, NEW p \in Player, NEW h \in Handler
  PROVE  Visited(h, p, room).apps = room.apps /\ Looped(h, room).apps = room.apps
BY DEF Visited, Looped, RoomState

(* What a withdrawal leaves of the room.                                   *)
LEMMA WithdrawnLists ==
  ASSUME NEW room \in RoomState, NEW p
  PROVE  LET new == Withdrawn(room, p)
         IN  /\ new.apps = room.apps \ {p} /\ new.members = room.members
             /\ new.phase = room.phase
BY DEF Withdrawn, RoomState

(* Rooms that are left alone keep their lists.                             *)
LEMMA IdleRoomsKeepLists ==
  ASSUME UNCHANGED rooms, NEW r, NEW p PROVE ListStays(r, p)
BY DEF ListStays, Listed

(* So does a room edited into one with the lists, or out of the lobby.     *)
LEMMA EditKeepsLists ==
  ASSUME TypeOK, NEW r \in Room, NEW room,
         \/ room.phase # "LOBBY"
         \/ rooms[r].apps \cup rooms[r].members \subseteq room.apps \cup room.members,
         rooms' = [rooms EXCEPT ![r] = room], NEW x \in Room, NEW p
  PROVE  ListStays(x, p)
BY DEF ListStays, Listed, InLobby, TypeOK

(* Withdrawing an application touches no other seat.                       *)
LEMMA WithdrawingKeepsOthers ==
  ASSUME TypeOK, NEW r \in Room, NEW q \in Player,
         rooms' = [rooms EXCEPT ![r] = Withdrawn(rooms[r], q)],
         NEW x \in Room, NEW p, x # r \/ p # q
  PROVE  ListStays(x, p)
<1> DEFINE new == Withdrawn(rooms[r], q)
<1>1. new.apps = rooms[r].apps \ {q} /\ new.members = rooms[r].members
  BY WithdrawnLists DEF TypeOK
<1>2. rooms' = [rooms EXCEPT ![r] = new]
  OBVIOUS
<1> HIDE DEF new
<1> QED BY <1>1, <1>2 DEF ListStays, Listed, InLobby, TypeOK

(* The messages that nobody answers for: the socket was idle.              *)
LEMMA HandlersAnswer ==
  ASSUME TypeOK, NEW h \in Handler, Handlers(h), NEW x \in Room, NEW p \in Player
  PROVE  StillAnswered(x, p)
<1> DEFINE me == h[1]
<1>1. me \in Player /\ rooms \in [Room -> RoomState]
  BY HandlerPlayer DEF TypeOK
<1>2. ASSUME calls[h] = Idle, OthersWait(h), UNCHANGED refunds, ListStays(x, p) \/ Answered(x, p)'
      PROVE  StillAnswered(x, p)
  BY <1>2, HandlerAnswers, IdleAnswersNobody
<1>3. CASE CreateParty(h)
  <2> DEFINE room == [NoRoom EXCEPT !.phase = "LOBBY", !.leader = h[1],
                        !.members = {h[1]}, !.conn = {h[1]}]
  <2>1. PICK r \in Room : rooms[r].phase = "UNUSED" /\ rooms' = [rooms EXCEPT ![r] = room]
    BY <1>3 DEF CreateParty
  <2> HIDE DEF room
  <2>2. ListStays(x, p)
    BY <1>1, <2>1 DEF ListStays, InLobby, Listed
  <2>3. calls[h] = Idle /\ OthersWait(h) /\ UNCHANGED refunds
    BY <1>3 DEF CreateParty, peerVars, OthersWait, Free
  <2> QED BY <1>2, <2>2, <2>3
<1>4. ASSUME NEW r \in Room, CancelApplication(h, r) PROVE StillAnswered(x, p)
  <2> DEFINE call == Call("cancel.refund", r, me, {})
  <2>1. /\ calls[h] = Idle /\ Go(h, call) /\ UNCHANGED refunds
        /\ rooms' = [rooms EXCEPT ![r] = Withdrawn(rooms[r], me)]
    BY <1>4 DEF CancelApplication, peerVars, Free
  <2>2. CallAnswers(call, r, me)
    BY DEF Call, CallAnswers
  <2> HIDE DEF call, me
  <2>3. OthersWait(h) /\ calls'[h] = call
    BY <2>1, OthersGoOn
  <2>4. x = r /\ p = me => Answered(x, p)'
    BY <2>2, <2>3, WhoAnswers DEF Answered
  <2> QED BY <1>1, <1>2, <2>1, <2>3, <2>4, WithdrawingKeepsOthers
<1>5. ASSUME NEW q \in Player, NEW accept \in BOOLEAN, ReviewApplication(h, q, accept)
      PROVE  StillAnswered(x, p)
  <2>1. PICK r \in Room, at \in {"accept.commit", "reject.refund"} :
          /\ calls[h] = Idle /\ Go(h, Call(at, r, q, {})) /\ UNCHANGED refunds
          /\ rooms' = [rooms EXCEPT ![r] = Withdrawn(rooms[r], q)]
    BY <1>5 DEF ReviewApplication, peerVars, Free
  <2> DEFINE call == Call(at, r, q, {})
  <2>2. CallAnswers(call, r, q)
    BY DEF Call, CallAnswers
  <2>3. Go(h, call)
    BY <2>1
  <2> HIDE DEF call
  <2>4. OthersWait(h) /\ calls'[h] = call
    BY <2>3, OthersGoOn
  <2>5. x = r /\ p = q => Answered(x, p)'
    BY <2>2, <2>4, WhoAnswers DEF Answered
  <2> QED BY <1>2, <2>1, <2>4, <2>5, WithdrawingKeepsOthers
<1>6. ASSUME NEW r \in Room, NEW offer \in SlotOffers, ApplyToParty(h, r, offer)
      PROVE  StillAnswered(x, p)
  <2>1. calls[h] = Idle /\ OthersWait(h) /\ UNCHANGED refunds /\ UNCHANGED rooms
    BY <1>6, OthersGoOn DEF ApplyToParty, peerVars, Free
  <2> QED BY <1>2, <2>1, IdleRoomsKeepLists
<1>7. CASE SelectRiftFloor(h) \/ StartExpedition(h)
  <2>1. calls[h] = Idle /\ OthersWait(h) /\ UNCHANGED refunds /\ UNCHANGED rooms
    BY <1>7, OthersGoOn DEF SelectRiftFloor, StartExpedition, peerVars, Free
  <2> QED BY <1>2, <2>1, IdleRoomsKeepLists
<1>8. ASSUME NEW ready \in BOOLEAN, SetReady(h, ready) PROVE StillAnswered(x, p)
  <2>1. PICK r \in Room :
          /\ calls[h] = Idle /\ OthersWait(h) /\ UNCHANGED refunds
          /\ rooms' = [rooms EXCEPT ![r].ready = IF ready THEN @ \cup {h[1]} ELSE @ \ {h[1]}]
    BY <1>8 DEF SetReady, peerVars, Free, OthersWait
  <2>2. ListStays(x, p)
    BY <1>1, <2>1 DEF ListStays, Listed, InLobby, RoomState
  <2> QED BY <1>2, <2>1, <2>2
<1>9. CASE LeaveParty(h)
  <2>1. PICK r \in Room :
          /\ calls[h] = Idle /\ UNCHANGED refunds
          /\ \/ Go(h, Call("leave.refund", r, h[1], {})) /\ UNCHANGED rooms
             \/ rooms[r].phase = "FINISHED" /\ DropMember(h, r, rooms[r])
    BY <1>9 DEF LeaveParty, peerVars, Free
  <2>2. CASE Go(h, Call("leave.refund", r, h[1], {})) /\ UNCHANGED rooms
    BY <1>2, <2>1, <2>2, OthersGoOn, IdleRoomsKeepLists
  <2>3. CASE rooms[r].phase = "FINISHED" /\ DropMember(h, r, rooms[r])
    <3>1. OthersWait(h) /\ \A o \in Room : o # r => rooms'[o] = rooms[o]
      BY <1>1, <2>3, OthersGoOn, OthersStay DEF DropMember, NextDisband
    <3>2. ListStays(x, p)
      BY <2>3, <3>1 DEF ListStays, InLobby, Listed
    <3> QED BY <1>2, <2>1, <3>1, <3>2
  <2> QED BY <2>1, <2>2, <2>3
<1> QED BY <1>3, <1>4, <1>5, <1>6, <1>7, <1>8, <1>9 DEF Handlers

(* A handler that waits at a step of another kind answers for nobody.      *)
LEMMA OtherStepsAnswerNobody ==
  ASSUME NEW h \in Handler,
         calls[h].at \in {"apply.reserve", "leave.refund", "leave.resume", "leave.others",
                          "disband", "floor.read", "start.read", "start.reject",
                          "start.prepare", "start.commit"}
  PROVE  \A r, p : ~ CallAnswers(calls[h], r, p)
BY DEF CallAnswers

(* The next step of the loop of a disbanded room keeps the lists of the    *)
(* room it is given.                                                       *)
LEMMA DisbandingKeepsLists ==
  ASSUME TypeOK, NEW h \in Handler, NEW r \in Room, NEW room \in RoomState,
         NextDisband(h, r, room), NEW x \in Room, NEW p,
         x = r => (Listed(r, p) => p \in room.apps \cup room.members)
  PROVE  ListStays(x, p)
<1>1. ASSUME NEW q \in Unvisited(h, room), rooms' = [rooms EXCEPT ![r] = Visited(h, q, room)]
      PROVE  ListStays(x, p)
  <2> DEFINE new == Visited(h, q, room)
  <2>1. q \in Player
    BY DEF Unvisited, RoomState
  <2>2. new.apps = room.apps /\ new.members = room.members
    BY <2>1, EditedLists, EditedRooms
  <2>3. rooms' = [rooms EXCEPT ![r] = new]
    BY <1>1
  <2> HIDE DEF new
  <2> QED BY <2>2, <2>3 DEF ListStays, Listed, InLobby, TypeOK
<1>2. CASE rooms' = [rooms EXCEPT ![r] = [Looped(h, room) EXCEPT !.phase = "CLOSED"]]
  <2> DEFINE looped == Looped(h, room)
             new == [looped EXCEPT !.phase = "CLOSED"]
  <2>1. looped \in RoomState
    BY HandlerPlayer, EditedRooms
  <2> HIDE DEF looped
  <2>2. new.phase = "CLOSED"
    BY <2>1, PhasedIsRoom DEF RoomPhase
  <2>3. rooms' = [rooms EXCEPT ![r] = new]
    BY <1>2 DEF looped
  <2> HIDE DEF new
  <2> QED BY <2>2, <2>3 DEF ListStays, Listed, InLobby, TypeOK
<1> QED BY <1>1, <1>2 DEF NextDisband

(* The end of leaveParty takes its own member from the lists, no other.    *)
LEMMA DropMemberKeepsLists ==
  ASSUME TypeOK, NEW h \in Handler, NEW r \in Room, DropMember(h, r, rooms[r]),
         NEW x \in Room, NEW p, x # r \/ p # h[1]
  PROVE  ListStays(x, p)
<1> DEFINE left == Without(rooms[r], h[1])
<1>1. rooms[r] \in RoomState /\ h[1] \in Player
  BY HandlerPlayer DEF TypeOK
<1>2. left \in RoomState /\ left.members = rooms[r].members \ {h[1]} /\ left.apps = rooms[r].apps
  BY <1>1, WithoutIsRoom
<1>3. x = r => (Listed(r, p) => p \in left.apps \cup left.members)
  BY <1>2 DEF Listed
<1>4. ASSUME NEW l \in Successors(rooms[r], h[1]),
             rooms' = [rooms EXCEPT ![r] = [left EXCEPT !.leader = l]]
      PROVE  ListStays(x, p)
  <2> DEFINE new == [left EXCEPT !.leader = l]
  <2> HIDE DEF left
  <2>1. new.apps = left.apps /\ new.members = left.members
    BY <1>2 DEF RoomState
  <2>2. rooms' = [rooms EXCEPT ![r] = new]
    BY <1>4
  <2> HIDE DEF new
  <2> QED BY <1>3, <2>1, <2>2 DEF ListStays, Listed, InLobby, TypeOK
<1>5. CASE NextDisband(h, r, left)
  <2> HIDE DEF left
  <2> QED BY <1>2, <1>3, <1>5, DisbandingKeepsLists
<1> QED BY <1>4, <1>5 DEF DropMember

(* After an acceptance, the next application is deleted only with its      *)
(* refund to come; joined are the rooms the acceptance made.               *)
LEMMA ElsewhereAnswers ==
  ASSUME TypeOK, NEW h \in Handler, NEW r \in Room, NEW q \in Player, NEW last,
         NEW joined \in [Room -> RoomState], NextElsewhere(h, r, q, last, joined),
         NEW x \in Room, NEW p, p \in joined[x].apps \cup joined[x].members
  PROVE  Listed(x, p)' \/ Answered(x, p)'
<1>1. CASE rooms' = joined
  BY <1>1 DEF Listed
<1>2. ASSUME NEW o \in Room, rooms' = [joined EXCEPT ![o] = Withdrawn(joined[o], q)],
             Go(h, Call("accept.elsewhere", r, q, o))
      PROVE  Listed(x, p)' \/ Answered(x, p)'
  <2> DEFINE new == Withdrawn(joined[o], q)
             call == Call("accept.elsewhere", r, q, o)
  <2>1. new.apps = joined[o].apps \ {q} /\ new.members = joined[o].members
    BY WithdrawnLists
  <2>2. rooms' = [joined EXCEPT ![o] = new]
    BY <1>2
  <2>3. CallAnswers(call, o, q)
    BY DEF Call, CallAnswers
  <2>4. Go(h, call)
    BY <1>2
  <2> HIDE DEF new, call
  <2>5. calls'[h] = call
    BY <2>4, OthersGoOn
  <2>6. CASE x = o /\ p = q
    BY <2>3, <2>5, <2>6, WhoAnswers DEF Answered
  <2>7. CASE x # o \/ p # q
    BY <2>1, <2>2, <2>7 DEF Listed
  <2> QED BY <2>6, <2>7
<1>3. \/ rooms' = joined
      \/ \E o \in Room : /\ Go(h, Call("accept.elsewhere", r, q, o))
                         /\ rooms' = [joined EXCEPT ![o] = Withdrawn(joined[o], q)]
  BY ElsewhereKeepsParties
<1> QED BY <1>1, <1>2, <1>3

(* Whatever handler it is, deleting applications elsewhere keeps others    *)
(* waiting.                                                                *)
LEMMA ElsewhereWaits ==
  ASSUME TypeOK, NEW h \in Handler, NEW r, NEW q, NEW last, NEW joined,
         NextElsewhere(h, r, q, last, joined)
  PROVE  OthersWait(h)
BY OthersGoOn, OthersStay DEF NextElsewhere

(* AcceptCommit: the applicant joins or the call has failed.               *)
LEMMA AcceptCommitAnswers ==
  ASSUME TypeOK, NEW h \in Handler, AcceptCommit(h), NEW x \in Room, NEW p \in Player
  PROVE  StillAnswered(x, p)
<1>1. PICK r \in Room, q \in Player : r = calls[h].room /\ q = calls[h].who
  BY AcceptCommitRooms
<1> DEFINE room == Joined(rooms[r], q)
           joined == [rooms EXCEPT ![r] = room]
<1>2. \/ NextElsewhere(h, r, q, 0, joined)
      \/ /\ Done(h) /\ UNCHANGED rooms
         /\ Failing(r, q, "accept") \/ Fail(r, q, "accept")
  BY <1>1, AcceptCommitRooms
<1>3. calls[h].at = "accept.commit" /\ UNCHANGED refunds
  BY DEF AcceptCommit, peerVars
<1>4. CallAnswers(calls[h], x, p) => x = r /\ p = q
  BY <1>1, <1>3 DEF CallAnswers
<1>5. CASE /\ Done(h) /\ UNCHANGED rooms
           /\ Failing(r, q, "accept") \/ Fail(r, q, "accept")
  <2>1. SeatFailed(r, q)'
    <3>1. Op("accept", r, q) \in failed' /\ "accept" \in ReasonKinds
      BY <1>5 DEF Failing, Fail, ReasonKinds
    <3> QED BY <3>1 DEF SeatFailed, Op
  <2>2. CallAnswers(calls[h], x, p) => Answered(x, p)'
    BY <1>4, <2>1 DEF Answered
  <2> QED BY <1>3, <1>5, <2>2, OthersStay, IdleRoomsKeepLists, HandlerAnswers
<1>6. CASE NextElsewhere(h, r, q, 0, joined)
  <2>1. /\ room \in RoomState /\ room.members = rooms[r].members \cup {q}
        /\ room.apps = rooms[r].apps
    BY JoinedIsRoom DEF TypeOK
  <2> HIDE DEF room
  <2>2. joined \in [Room -> RoomState]
    BY <2>1 DEF TypeOK
  <2>3. /\ Listed(x, p) => p \in joined[x].apps \cup joined[x].members
        /\ x = r /\ p = q => p \in joined[x].apps \cup joined[x].members
    BY <2>1 DEF Listed, TypeOK
  <2> HIDE DEF joined
  <2>4. p \in joined[x].apps \cup joined[x].members => Listed(x, p)' \/ Answered(x, p)'
    BY <1>6, <2>2, ElsewhereAnswers
  <2>5. Listed(x, p)' => Answered(x, p)'
    BY WhoAnswers DEF Answered
  <2>6. OthersWait(h)
    BY <1>6, ElsewhereWaits
  <2>7. ListStays(x, p) \/ Answered(x, p)'
    BY <2>3, <2>4, <2>5 DEF ListStays
  <2>8. CallAnswers(calls[h], x, p) => Answered(x, p)'
    BY <1>4, <2>3, <2>4, <2>5
  <2> QED BY <1>3, <2>6, <2>7, <2>8, HandlerAnswers
<1> QED BY <1>2, <1>5, <1>6

(* AcceptElsewhere: the application it came to is refunded, the next one   *)
(* is deleted.                                                             *)
LEMMA AcceptElsewhereAnswers ==
  ASSUME TypeOK, NEW h \in Handler, AcceptElsewhere(h), NEW x \in Room, NEW p \in Player
  PROVE  StillAnswered(x, p)
<1>1. PICK r \in Room, q \in Player, o \in Room :
        r = calls[h].room /\ q = calls[h].who /\ o = calls[h].todo
  BY WaitingCall DEF AcceptElsewhere, TypeOK
<1>2. /\ calls[h].at = "accept.elsewhere" /\ UNCHANGED refunds
      /\ \/ Refund(o, q, "accepted-elsewhere") /\ NextElsewhere(h, r, q, o, rooms)
         \/ Failing(o, q, "accepted-elsewhere") /\ Done(h) /\ UNCHANGED rooms
  BY <1>1 DEF AcceptElsewhere, peerVars
<1>3. rooms \in [Room -> RoomState]
  BY DEF TypeOK
<1>4. OthersWait(h)
  BY <1>2, ElsewhereWaits, OthersStay
<1>5. CallAnswers(calls[h], x, p) => Answered(x, p)'
  <2>1. Answered(o, q)'
    BY <1>2, RefundAnswers DEF ReasonKinds
  <2> QED BY <1>1, <1>2, <2>1 DEF CallAnswers
<1>6. ListStays(x, p) \/ Answered(x, p)'
  <2>1. NextElsewhere(h, r, q, o, rooms) /\ Listed(x, p) => Listed(x, p)' \/ Answered(x, p)'
    BY <1>3, ElsewhereAnswers DEF Listed
  <2> QED BY <1>2, <2>1, IdleRoomsKeepLists DEF ListStays
<1> QED BY <1>2, <1>4, <1>5, <1>6, HandlerAnswers

(* A leave whose refund is done: the step it waits for has its key.        *)
LeavesRefunded ==
  \A h \in Handler : calls[h].at \in {"leave.resume", "leave.others"} =>
    Slots!RefundKey(h[1], Op("leave", calls[h].room, h[1])) \in operations

(* The member that goes in the end has been refunded.                      *)
LEMMA LeaverIsAnswered ==
  ASSUME LeavesRefunded, operations \subseteq operations', NEW h \in Handler, NEW r,
         r = calls[h].room, calls[h].at \in {"leave.resume", "leave.others"}
  PROVE  Answered(r, h[1])'
<1>1. Slots!RefundKey(h[1], Op("leave", r, h[1])) \in operations'
  BY DEF LeavesRefunded
<1>2. "leave" \in ReasonKinds
  BY DEF ReasonKinds
<1> QED BY <1>1, <1>2 DEF Answered, SeatRefunded, Slots!RefundKey, Op

(* The next step of START's loop keeps the lists.                          *)
LEMMA RejectingKeepsLists ==
  ASSUME TypeOK, NEW h \in Handler, NEW r \in Room, NextReject(h, r), NEW x \in Room, NEW p
  PROVE  ListStays(x, p)
<1>1. ASSUME NEW q \in Unvisited(h, rooms[r]), rooms' = [rooms EXCEPT ![r] = Visited(h, q, rooms[r])]
      PROVE  ListStays(x, p)
  <2> DEFINE new == Visited(h, q, rooms[r])
  <2>1. rooms[r] \in RoomState /\ q \in Player
    BY DEF Unvisited, TypeOK, RoomState
  <2>2. new.apps = rooms[r].apps /\ new.members = rooms[r].members
    BY <2>1, EditedLists, EditedRooms
  <2>3. rooms' = [rooms EXCEPT ![r] = new]
    BY <1>1
  <2> HIDE DEF new
  <2> QED BY <2>2, <2>3, EditKeepsLists
<1>2. CASE rooms' = [rooms EXCEPT ![r] = Looped(h, rooms[r])]
  <2> DEFINE new == Looped(h, rooms[r])
  <2>1. rooms[r] \in RoomState /\ h[1] \in Player
    BY HandlerPlayer DEF TypeOK
  <2>2. new.apps = rooms[r].apps /\ new.members = rooms[r].members
    BY <2>1, EditedLists, EditedRooms
  <2>3. rooms' = [rooms EXCEPT ![r] = new]
    BY <1>2
  <2> HIDE DEF new
  <2> QED BY <2>2, <2>3, EditKeepsLists
<1> QED BY <1>1, <1>2 DEF NextReject

(* The other handlers answer for nobody, but those that refund for the     *)
(* seat they refund.                                                       *)
LEMMA ContinuationsAnswer ==
  ASSUME TypeOK, LeavesRefunded, operations \subseteq operations', NEW h \in Handler,
         Continuations(h), NEW x \in Room, NEW p \in Player
  PROVE  StillAnswered(x, p)
<1>1. calls \in [Handler -> CallState] /\ rooms \in [Room -> RoomState] /\ h[1] \in Player
  BY HandlerPlayer DEF TypeOK
<1>2. PICK r \in Room, who \in Player : r = calls[h].room /\ who = calls[h].who
  BY <1>1, WaitingCall DEF Continuations
<1>3. ASSUME calls[h].at \in {"apply.reserve", "leave.refund", "leave.resume", "leave.others",
                          "disband", "floor.read", "start.read", "start.reject",
                          "start.prepare", "start.commit"},
             OthersWait(h), UNCHANGED refunds, ListStays(x, p) \/ Answered(x, p)'
      PROVE  StillAnswered(x, p)
  BY <1>3, OtherStepsAnswerNobody, HandlerAnswers
<1>4. CASE ApplyReserve(h)
  <2> DEFINE apps == rooms[r].apps \cup {h[1]}
             room == [rooms[r] EXCEPT !.apps = apps]
  <2>1. /\ calls[h].at = "apply.reserve" /\ Done(h) /\ UNCHANGED refunds
        /\ UNCHANGED rooms \/ rooms' = [rooms EXCEPT ![r] = room]
    BY <1>2, <1>4 DEF ApplyReserve, peerVars
  <2>2. room.apps = apps /\ room.members = rooms[r].members
    <3> HIDE DEF apps
    <3> QED BY <1>1 DEF RoomState
  <2> HIDE DEF room
  <2>3. rooms[r].apps \cup rooms[r].members \subseteq room.apps \cup room.members
    BY <2>2
  <2> HIDE DEF apps
  <2>4. ListStays(x, p)
    BY <2>1, <2>3, IdleRoomsKeepLists, EditKeepsLists
  <2> QED BY <1>3, <2>1, <2>4, OthersStay
<1>5. ASSUME NEW reason \in ReasonKinds, calls[h].at \in {"cancel.refund", "reject.refund"},
             Refund(r, who, reason) \/ Failing(r, who, reason), Done(h),
             UNCHANGED refunds, UNCHANGED rooms
      PROVE  StillAnswered(x, p)
  <2>1. CallAnswers(calls[h], x, p) => Answered(x, p)'
    <3>1. Answered(r, who)'
      BY <1>5, RefundAnswers
    <3> QED BY <1>2, <1>5, <3>1 DEF CallAnswers
  <2> QED BY <1>5, <2>1, OthersStay, IdleRoomsKeepLists, HandlerAnswers
<1>6. CASE CancelRefund(h) \/ RejectRefund(h)
  <2>1. \/ /\ calls[h].at = "cancel.refund"
           /\ Refund(r, who, "cancel-application") \/ Failing(r, who, "cancel-application")
        \/ /\ calls[h].at = "reject.refund"
           /\ Refund(r, who, "reject") \/ Failing(r, who, "reject")
    BY <1>2, <1>6 DEF CancelRefund, RejectRefund
  <2>2. Done(h) /\ UNCHANGED refunds /\ UNCHANGED rooms
    BY <1>6 DEF CancelRefund, RejectRefund, peerVars
  <2>3. "cancel-application" \in ReasonKinds /\ "reject" \in ReasonKinds
    BY DEF ReasonKinds
  <2> QED BY <1>5, <2>1, <2>2, <2>3
<1>7. CASE LeaveRefund(h)
  <2>1. calls[h].at = "leave.refund" /\ UNCHANGED refunds /\ UNCHANGED rooms /\ OthersWait(h)
    BY <1>7, OthersGoOn, OthersStay DEF LeaveRefund, peerVars
  <2> QED BY <1>3, <2>1, IdleRoomsKeepLists
<1>8. CASE LeaveResume(h) \/ LeaveOthers(h)
  <2>1. /\ calls[h].at \in {"leave.resume", "leave.others"} /\ UNCHANGED refunds
        /\ \/ DropMember(h, r, rooms[r])
           \/ UNCHANGED rooms /\ (Done(h) \/ \E call : Go(h, call))
    BY <1>2, <1>8 DEF LeaveResume, LeaveOthers, peerVars
  <2>2. OthersWait(h)
    BY <2>1, OthersGoOn, OthersStay DEF DropMember, NextDisband
  <2>3. ListStays(x, p) \/ Answered(x, p)'
    BY <1>2, <2>1, DropMemberKeepsLists, IdleRoomsKeepLists, LeaverIsAnswered
  <2> QED BY <1>3, <2>1, <2>2, <2>3
<1>9. CASE Disband(h)
  <2>1. /\ calls[h].at = "disband" /\ UNCHANGED refunds
        /\ \/ NextDisband(h, r, rooms[r])
           \/ Done(h) /\ rooms' = [rooms EXCEPT ![r] = Looped(h, rooms[r])]
    BY <1>2, <1>9 DEF Disband, peerVars
  <2>2. OthersWait(h)
    BY <2>1, OthersGoOn, OthersStay DEF NextDisband
  <2>3. ListStays(x, p)
    <3>1. Looped(h, rooms[r]).apps = rooms[r].apps /\ Looped(h, rooms[r]).members = rooms[r].members
      BY <1>1, EditedLists, EditedRooms
    <3>2. NextDisband(h, r, rooms[r]) => ListStays(x, p)
      BY <1>1, DisbandingKeepsLists DEF Listed
    <3> QED BY <2>1, <3>1, <3>2, EditKeepsLists
  <2> QED BY <1>3, <2>1, <2>2, <2>3
<1>10. CASE FloorRead(h)
  <2>1. /\ calls[h].at = "floor.read" /\ UNCHANGED refunds /\ Done(h)
        /\ \/ rooms' = [rooms EXCEPT ![r].ready = @ \ rooms[r].members]
           \/ UNCHANGED rooms
    BY <1>2, <1>10 DEF FloorRead, peerVars
  <2>2. ListStays(x, p)
    BY <1>1, <2>1 DEF ListStays, Listed, InLobby, RoomState
  <2> QED BY <1>3, <2>1, <2>2, OthersStay
<1>11. CASE StartRead(h) \/ StartReject(h)
  <2>1. /\ calls[h].at \in {"start.read", "start.reject"} /\ UNCHANGED refunds
        /\ \/ NextReject(h, r)
           \/ Done(h) /\ UNCHANGED rooms
           \/ Done(h) /\ rooms' = [rooms EXCEPT ![r] = Looped(h, rooms[r])]
    BY <1>2, <1>11 DEF StartRead, StartReject, peerVars
  <2>2. OthersWait(h)
    BY <2>1, OthersGoOn, OthersStay DEF NextReject
  <2>3. ListStays(x, p)
    <3>1. Looped(h, rooms[r]).apps = rooms[r].apps /\ Looped(h, rooms[r]).members = rooms[r].members
      BY <1>1, EditedLists, EditedRooms
    <3> QED BY <2>1, <3>1, RejectingKeepsLists, IdleRoomsKeepLists, EditKeepsLists
  <2> QED BY <1>3, <2>1, <2>2, <2>3
<1>12. CASE StartPrepare(h)
  <2>1. calls[h].at = "start.prepare" /\ UNCHANGED refunds /\ UNCHANGED rooms /\ OthersWait(h)
    BY <1>12, OthersGoOn, OthersStay DEF StartPrepare, peerVars
  <2> QED BY <1>3, <2>1, IdleRoomsKeepLists
<1>13. CASE StartCommit(h)
  <2> DEFINE room == Started(rooms[r])
  <2>1. /\ calls[h].at = "start.commit" /\ UNCHANGED refunds /\ OthersWait(h)
        /\ UNCHANGED rooms \/ rooms' = [rooms EXCEPT ![r] = room]
    BY <1>2, <1>13, StartCommitRooms, OthersStay DEF StartCommit, peerVars
  <2>2. room.phase # "LOBBY"
    BY <1>1, StartedIsRoom
  <2> HIDE DEF room
  <2>3. ListStays(x, p)
    BY <2>1, <2>2, IdleRoomsKeepLists, EditKeepsLists
  <2> QED BY <1>3, <2>1, <2>3
<1> QED BY <1>4, <1>6, <1>7, <1>8, <1>9, <1>10, <1>11, <1>12, <1>13, AcceptCommitAnswers,
     AcceptElsewhereAnswers DEF Continuations

(* Connections and expiries: the refunds after a disconnect take over the  *)
(* applications, an expired member is refunded before it goes.             *)
LEMMA PeersAnswer ==
  ASSUME TypeOK, NEW x \in Room, NEW p \in Player,
         \/ \E q \in Player : Disconnect(q) \/ Connect(q) \/ LateConnect(q)
         \/ \E r \in Room, q \in Player :
              \/ DisconnectRefund(r, q) \/ ReconnectExpiry(r, q)
              \/ \E by \in {"timer", "connect"} : ExpiredRemoval(r, q, by)
  PROVE  StillAnswered(x, p)
<1>1. ASSUME UNCHANGED calls, ListStays(x, p) \/ Answered(x, p)',
             <<x, p>> \in refunds => <<x, p>> \in refunds' \/ Answered(x, p)'
      PROVE  StillAnswered(x, p)
  <2>1. (\E h \in Handler : CallAnswers(calls[h], x, p)) => Answerable(x, p)'
    BY <1>1, WhoAnswers
  <2>2. /\ Listed(x, p)' => Answerable(x, p)'
        /\ <<x, p>> \in refunds' => Answerable(x, p)'
    BY WhoAnswers
  <2> QED BY <1>1, <2>1, <2>2, WhoAnswers DEF StillAnswered, ListStays, Answered
<1>2. ASSUME NEW q \in Player, Disconnect(q) PROVE StillAnswered(x, p)
  <2>1. /\ UNCHANGED calls
        /\ refunds' = refunds \cup ({r \in Room : Open(r) /\ q \in rooms[r].apps} \X {q})
    BY <1>2 DEF Disconnect
  <2>2. /\ rooms'[x].members = rooms[x].members
        /\ rooms[x].apps \ {q} \subseteq rooms'[x].apps
    BY <1>2, DisconnectRooms
  <2>3. CASE p # q \/ p \notin rooms[x].apps
    <3>1. ListStays(x, p)
      BY <2>2, <2>3 DEF ListStays, Listed
    <3> QED BY <1>1, <2>1, <3>1
  <2>4. CASE p = q /\ p \in rooms[x].apps
    <3>1. CASE Open(x)
      <4>1. <<x, p>> \in refunds'
        BY <2>1, <2>4, <3>1
      <4> QED BY <4>1, WhoAnswers DEF StillAnswered, Answered
    <3>2. CASE ~ Open(x)
      BY <3>2 DEF Open, StillAnswered, InLobby
    <3> QED BY <3>1, <3>2
  <2> QED BY <2>3, <2>4
<1>3. ASSUME NEW q \in Player, Connect(q) PROVE StillAnswered(x, p)
  <2>1. UNCHANGED calls /\ UNCHANGED refunds
    BY <1>3 DEF Connect
  <2>2. ListStays(x, p)
    BY <1>3, ConnectRooms DEF ListStays, Listed
  <2> QED BY <1>1, <2>1, <2>2
<1>4. ASSUME NEW q \in Player, LateConnect(q) PROVE StillAnswered(x, p)
  <2>1. UNCHANGED calls /\ UNCHANGED refunds /\ UNCHANGED rooms
    BY <1>4 DEF LateConnect
  <2> QED BY <1>1, <2>1, IdleRoomsKeepLists
<1>5. ASSUME NEW r \in Room, NEW q \in Player, ReconnectExpiry(r, q) PROVE StillAnswered(x, p)
  <2>1. UNCHANGED calls /\ UNCHANGED refunds /\ UNCHANGED rooms
    BY <1>5 DEF ReconnectExpiry
  <2> QED BY <1>1, <2>1, IdleRoomsKeepLists
<1>6. ASSUME NEW r \in Room, NEW q \in Player, DisconnectRefund(r, q) PROVE StillAnswered(x, p)
  <2>1. /\ UNCHANGED calls /\ UNCHANGED rooms /\ refunds' = refunds \ {<<r, q>>}
        /\ \/ Refund(r, q, "disconnect-application")
           \/ Failing(r, q, "disconnect-application")
    BY <1>6 DEF DisconnectRefund
  <2>2. Answered(r, q)'
    BY <2>1, RefundAnswers DEF ReasonKinds
  <2> QED BY <1>1, <2>1, <2>2, IdleRoomsKeepLists
<1>7. ASSUME NEW r \in Room, NEW q \in Player, NEW by, ExpiredRemoval(r, q, by)
      PROVE  StillAnswered(x, p)
  <2> DEFINE left == Without(rooms[r], q)
             closed == [left EXCEPT !.phase = "CLOSED"]
             led(l) == [left EXCEPT !.leader = l]
  <2>1. UNCHANGED calls /\ UNCHANGED refunds
    BY <1>7 DEF ExpiredRemoval
  <2>2. \/ UNCHANGED rooms
        \/ /\ Refund(r, q, "expired")
           /\ \/ rooms' = [rooms EXCEPT ![r] = closed]
              \/ \E l \in Successors(rooms[r], q) : rooms' = [rooms EXCEPT ![r] = led(l)]
    BY <1>7, ExpiredRemovalRooms
  <2>3. /\ left \in RoomState /\ left.members = rooms[r].members \ {q}
        /\ left.apps = rooms[r].apps
    BY WithoutIsRoom DEF TypeOK
  <2> HIDE DEF left
  <2>4. /\ closed.members = left.members /\ closed.apps = left.apps
        /\ \A l : led(l).members = left.members /\ led(l).apps = left.apps
    BY <2>3 DEF RoomState
  <2> HIDE DEF closed, led
  <2>5. Refund(r, q, "expired") => Answered(r, q)'
    BY RefundAnswers DEF ReasonKinds
  <2>6. ListStays(x, p) \/ Answered(x, p)'
    <3>1. CASE UNCHANGED rooms
      BY <3>1, IdleRoomsKeepLists
    <3>2. CASE x = r /\ p = q
      BY <2>2, <2>5, <3>2, IdleRoomsKeepLists
    <3>3. CASE x # r
      <4>1. rooms'[x] = rooms[x]
        BY <2>2, <3>3 DEF TypeOK
      <4> QED BY <4>1 DEF ListStays, Listed
    <3>4. CASE x = r /\ p # q
      BY <2>2, <2>3, <2>4, <3>4, IdleRoomsKeepLists DEF ListStays, Listed, TypeOK
    <3> QED BY <3>1, <3>2, <3>3, <3>4
  <2> QED BY <1>1, <2>1, <2>6
<1> QED BY <1>2, <1>3, <1>4, <1>5, <1>6, <1>7

(* The end of a run answers for nobody in the lobby.                       *)
LEMMA RunEndAnswers ==
  ASSUME TypeOK, NEW r \in Room, FinishExpedition(r) \/ FinalizeRoom(r),
         NEW x \in Room, NEW p \in Player
  PROVE  StillAnswered(x, p)
<1>1. /\ rooms[r].phase # "LOBBY" /\ UNCHANGED calls /\ UNCHANGED refunds
      /\ \A o \in Room : o # r => rooms'[o] = rooms[o]
  BY DEF FinishExpedition, FinalizeRoom, peerVars, TypeOK
<1>2. InLobby(x) => x # r
  BY <1>1 DEF InLobby
<1>3. InLobby(x) => (Listed(x, p) => Listed(x, p)')
  BY <1>1, <1>2 DEF Listed
<1>4. InLobby(x) => (Answerable(x, p) => Answerable(x, p)')
  BY <1>1, <1>3, WhoAnswers
<1> QED BY <1>4 DEF StillAnswered, Answered

(* Every step but a restart leaves someone to answer.                      *)
LEMMA StepsAnswer ==
  ASSUME TypeOK, LeavesRefunded, operations \subseteq operations', [Next]_vars, ~ Restart,
         NEW x \in Room, NEW p \in Player
  PROVE  StillAnswered(x, p)
<1>1. CASE UNCHANGED vars
  <2>1. UNCHANGED rooms /\ UNCHANGED calls /\ UNCHANGED refunds
    BY <1>1 DEF vars, peerVars
  <2>2. Listed(x, p) => Listed(x, p)'
    BY <2>1 DEF Listed
  <2> QED BY <2>1, <2>2, WhoAnswers DEF StillAnswered, Answered
<1>2. CASE \E h \in Handler : Handlers(h) \/ Continuations(h)
  BY <1>2, HandlersAnswer, ContinuationsAnswer
<1>3. CASE \/ \E q \in Player : Disconnect(q) \/ Connect(q) \/ LateConnect(q)
           \/ \E r \in Room, q \in Player :
                \/ DisconnectRefund(r, q) \/ ReconnectExpiry(r, q)
                \/ \E by \in {"timer", "connect"} : ExpiredRemoval(r, q, by)
  BY <1>3, PeersAnswer
<1>4. CASE \E r \in Room : FinishExpedition(r) \/ FinalizeRoom(r)
  BY <1>4, RunEndAnswers
<1> QED BY <1>1, <1>2, <1>3, <1>4 DEF Next

(* No transaction forgets a key.                                           *)
LEMMA KeysStay == SlotStep => operations \subseteq operations'
<1> SUFFICES ASSUME SlotStep PROVE operations \subseteq operations'
  OBVIOUS
<1>1. CASE UNCHANGED Slots!vars
  BY <1>1 DEF Slots!vars
<1>2. ASSUME NEW r \in Room, NEW p \in Player, NEW op \in OpId,
             \/ \E l \in Player, amount \in Offer : Slots!ReservePartySlot(r, p, l, amount, op)
             \/ \E l \in Player : Slots!AcceptPartySlot(r, p, l, op)
             \/ Slots!RefundPartySlot(r, p, op)
             \/ \E members \in SUBSET Player : Slots!SettlePartySlots(r, p, members, op)
      PROVE  operations \subseteq operations'
  BY <1>2 DEF Slots!ReservePartySlot, Slots!AcceptPartySlot, Slots!RefundPartySlot,
     Slots!SettlePartySlots
<1>3. ASSUME NEW r \in Room, NEW l \in Player, NEW members \in SUBSET Player,
             Slots!StartExpedition(r, l, members)
      PROVE  operations \subseteq operations'
  BY <1>3 DEF Slots!StartExpedition
<1>4. CASE Slots!CleanupOrphanedPartySlots
  BY <1>4 DEF Slots!CleanupOrphanedPartySlots
<1> QED BY <1>1, <1>2, <1>3, <1>4 DEF SlotStep, Slots!Next

(* A step that makes no seat live, nor moves one.                          *)
SeatLasts(s) ==
  Slots!Live(s) /\ slots'[s].room = slots[s].room /\ slots'[s].applicant = slots[s].applicant

SeatsLast == \A s \in SlotId : Slots!Live(s)' => SeatLasts(s)

(* Steps that leave the reservations alone.                                *)
LEMMA SameSeatsLast == UNCHANGED slots => SeatsLast
BY DEF SeatsLast, SeatLasts, Slots!Live, Slots!Used

(* A live reservation that takes another status.                           *)
LEMMA StatusSeatsLast ==
  ASSUME SlotsTyped, NEW s \in SlotId, Slots!Live(s), NEW status \in {"ACCEPTED", "REFUNDED"},
         slots' = [slots EXCEPT ![s].status = status]
  PROVE  SeatsLast
<1> DEFINE slot == [slots[s] EXCEPT !.status = status]
<1>1. slots[s] \in Slots!SlotRecord
  BY DEF SlotsTyped, Slots!Live, Slots!Used
<1>2. slot.room = slots[s].room /\ slot.applicant = slots[s].applicant
  BY <1>1 DEF Slots!SlotRecord
<1>3. slots' = [slots EXCEPT ![s] = slot]
  BY DEF SlotsTyped
<1> HIDE DEF slot
<1> QED BY <1>2, <1>3 DEF SeatsLast, SeatLasts, Slots!Live, Slots!Used, SlotsTyped

(* A refund ends one.                                                      *)
LEMMA RefundSeatsLast ==
  ASSUME SlotsTyped, NEW r, NEW p, NEW reason, Refund(r, p, reason) \/ Failing(r, p, reason)
  PROVE  SeatsLast
<1>1. \/ UNCHANGED slots
      \/ \E s \in SlotId : Slots!Live(s) /\ slots' = [slots EXCEPT ![s].status = "REFUNDED"]
  BY DEF Refund, Failing, Fail, Slots!RefundPartySlot, slotVars
<1> QED BY <1>1, SameSeatsLast, StatusSeatsLast

(* An acceptance changes the status of one that was pending.               *)
LEMMA AcceptSeatsLast ==
  ASSUME SlotsTyped, NEW h \in Handler, AcceptCommit(h)
  PROVE  SeatsLast
<1>1. ASSUME NEW r, NEW p, NEW l, NEW op, Slots!AcceptPartySlot(r, p, l, op) PROVE SeatsLast
  <2>1. \/ UNCHANGED slots
        \/ \E s \in SlotId : /\ slots[s] # NoSlot /\ slots[s].status = "PRE_START"
                             /\ slots' = [slots EXCEPT ![s].status = "ACCEPTED"]
    BY <1>1 DEF Slots!AcceptPartySlot, Slots!Used
  <2> QED BY <2>1, SameSeatsLast, StatusSeatsLast DEF Slots!Live, Slots!Used
<1>2. \/ UNCHANGED slots
      \/ \E op : Slots!AcceptPartySlot(calls[h].room, calls[h].who, h[1], op)
  BY DEF AcceptCommit, Failing, Fail, slotVars
<1> QED BY <1>1, <1>2, SameSeatsLast

(* The cleanup ends them all.                                              *)
LEMMA CleanupSeatsLast ==
  ASSUME SlotsTyped, Slots!CleanupOrphanedPartySlots
  PROVE  \A s \in SlotId : ~ Slots!Live(s)'
<1> SUFFICES ASSUME NEW s \in SlotId PROVE ~ Slots!Live(s)'
  OBVIOUS
<1>1. slots'[s] = IF Slots!Live(s) THEN [slots[s] EXCEPT !.status = "REFUNDED"] ELSE slots[s]
  BY DEF Slots!CleanupOrphanedPartySlots
<1>2. CASE Slots!Live(s)
  <2>1. slots[s] \in Slots!SlotRecord
    BY <1>2 DEF SlotsTyped, Slots!Live, Slots!Used
  <2>2. slots'[s].status = "REFUNDED"
    BY <1>1, <1>2, <2>1 DEF Slots!SlotRecord
  <2> QED BY <2>2 DEF Slots!Live
<1>3. CASE ~ Slots!Live(s)
  BY <1>1, <1>3 DEF Slots!Live, Slots!Used
<1> QED BY <1>2, <1>3

(* The paid START ends those it settles.                                   *)
LEMMA StartSeatsLast ==
  ASSUME TypeOK, SlotsTyped, NEW h \in Handler, StartCommit(h)
  PROVE  SeatsLast
<1>1. ASSUME NEW r, NEW l, NEW members, Slots!StartExpedition(r, l, members), NEW s \in SlotId,
             Slots!Live(s)'
      PROVE  SeatLasts(s)
  <2>1. slots'[s] = IF Slots!AcceptedIn(s, r) THEN [slots[s] EXCEPT !.status = "SETTLED"] ELSE slots[s]
    BY <1>1 DEF Slots!StartExpedition, Slots!SettleInState
  <2>2. CASE Slots!AcceptedIn(s, r)
    <3>1. slots[s] \in Slots!SlotRecord
      BY <2>2 DEF SlotsTyped, Slots!AcceptedIn, Slots!Used
    <3>2. slots'[s].status = "SETTLED"
      BY <2>1, <2>2, <3>1 DEF Slots!SlotRecord
    <3> QED BY <1>1, <3>2 DEF Slots!Live
  <2>3. CASE ~ Slots!AcceptedIn(s, r)
    BY <1>1, <2>1, <2>3 DEF SeatLasts, Slots!Live, Slots!Used
  <2> QED BY <2>2, <2>3
<1>2. UNCHANGED slots \/ \E r, l, members : Slots!StartExpedition(r, l, members)
  BY StartCommitRooms DEF slotVars
<1> QED BY <1>1, <1>2, SameSeatsLast DEF SeatsLast

(* A reservation makes one seat live, and its player is listed.            *)
LEMMA ReserveSeats ==
  ASSUME TypeOK, SlotsTyped, NEW h \in Handler, ApplyReserve(h), NEW s \in SlotId, Slots!Live(s)'
  PROVE  \/ SeatLasts(s)
         \/ \E r \in Room, p \in Player :
              /\ r = calls[h].room /\ slots'[s].room = r /\ slots'[s].applicant = p
              /\ Listed(r, p)'
<1>1. PICK r \in Room : r = calls[h].room
  BY WaitingCall DEF TypeOK, ApplyReserve
<1>2. PICK p \in Player : p = h[1]
  BY HandlerPlayer
<1>3. CASE UNCHANGED slots
  BY <1>3, SameSeatsLast DEF SeatsLast
<1>4. ASSUME NEW l, NEW amount, NEW op, Slots!ReservePartySlot(r, p, l, amount, op),
             rooms' = [rooms EXCEPT ![r].apps = @ \cup {p}]
      PROVE  \/ SeatLasts(s)
             \/ slots'[s].room = r /\ slots'[s].applicant = p /\ Listed(r, p)'
  <2> DEFINE slot == [status |-> "PRE_START", room |-> r,
                      applicant |-> p, leader |-> l, amount |-> amount]
  <2>1. slot.room = r /\ slot.applicant = p
    OBVIOUS
  <2>2. PICK t \in SlotId : slots' = [slots EXCEPT ![t] = slot]
    BY <1>4 DEF Slots!ReservePartySlot
  <2> HIDE DEF slot
  <2>3. Listed(r, p)'
    BY <1>4 DEF Listed, TypeOK, RoomState
  <2>4. s # t => SeatLasts(s)
    BY <2>2 DEF SeatLasts, SlotsTyped, Slots!Live, Slots!Used
  <2> QED BY <2>1, <2>2, <2>3, <2>4 DEF SlotsTyped
<1>5. \/ UNCHANGED slots
      \/ \E l, amount, op : /\ Slots!ReservePartySlot(r, p, l, amount, op)
                            /\ rooms' = [rooms EXCEPT ![r].apps = @ \cup {p}]
  BY <1>1, <1>2 DEF ApplyReserve, slotVars
<1> QED BY <1>1, <1>3, <1>4, <1>5

(* Every step but a reservation makes no seat live.                        *)
LEMMA StepsKeepSeats ==
  ASSUME TypeOK, SlotsTyped, [Next]_vars, \A h \in Handler : ~ ApplyReserve(h)
  PROVE  SeatsLast
<1>1. ASSUME NEW h \in Handler, Handlers(h) PROVE UNCHANGED slots
  BY <1>1 DEF Handlers, CreateParty, CancelApplication, ApplyToParty, ReviewApplication,
     LeaveParty, SetReady, SelectRiftFloor, StartExpedition, slotVars
<1>2. ASSUME NEW h \in Handler, Continuations(h) PROVE SeatsLast
  <2>1. CASE LeaveResume(h) \/ FloorRead(h) \/ StartRead(h) \/ StartPrepare(h)
    BY <2>1, SameSeatsLast DEF LeaveResume, FloorRead, StartRead, StartPrepare, slotVars
  <2>2. CASE CancelRefund(h) \/ RejectRefund(h) \/ LeaveRefund(h) \/ AcceptElsewhere(h)
    BY <2>2, RefundSeatsLast DEF CancelRefund, RejectRefund, LeaveRefund, AcceptElsewhere
  <2>3. CASE LeaveOthers(h) \/ Disband(h) \/ StartReject(h)
    BY <2>3, RefundSeatsLast DEF LeaveOthers, Disband, StartReject
  <2> QED BY <1>2, <2>1, <2>2, <2>3, AcceptSeatsLast, StartSeatsLast DEF Continuations
<1>3. ASSUME NEW p \in Player, Disconnect(p) \/ Connect(p) \/ LateConnect(p) PROVE UNCHANGED slots
  BY <1>3 DEF Disconnect, Connect, LateConnect, slotVars
<1>4. ASSUME NEW r \in Room, NEW p \in Player, NEW by,
             DisconnectRefund(r, p) \/ ExpiredRemoval(r, p, by)
      PROVE  SeatsLast
  BY <1>4, RefundSeatsLast DEF DisconnectRefund, ExpiredRemoval
<1>5. ASSUME NEW r \in Room, NEW p \in Player, ReconnectExpiry(r, p) PROVE UNCHANGED slots
  BY <1>5 DEF ReconnectExpiry, slotVars
<1>6. ASSUME NEW r \in Room, FinishExpedition(r) \/ FinalizeRoom(r) PROVE UNCHANGED slots
  BY <1>6 DEF FinishExpedition, FinalizeRoom, slotVars
<1>7. CASE Restart
  BY <1>7, CleanupSeatsLast DEF Restart, SeatsLast
<1>8. CASE UNCHANGED vars
  BY <1>8, SameSeatsLast DEF vars, slotVars
<1> QED BY <1>1, <1>2, <1>3, <1>4, <1>5, <1>6, <1>7, <1>8, SameSeatsLast DEF Next

(* Failures are forgotten by a restart only.                               *)
LEMMA StepsKeepFailures ==
  ASSUME TypeOK, [Next]_vars, ~ Restart
  PROVE  failed \subseteq failed'
<1>1. ASSUME NEW h \in Handler, Handlers(h) PROVE UNCHANGED failed
  BY <1>1 DEF Handlers, CreateParty, CancelApplication, ApplyToParty, ReviewApplication,
     LeaveParty, SetReady, SelectRiftFloor, StartExpedition, history
<1>2. ASSUME NEW h \in Handler, Continuations(h) PROVE failed \subseteq failed'
  <2>1. CASE \/ ApplyReserve(h) \/ LeaveResume(h) \/ FloorRead(h) \/ StartRead(h)
             \/ StartPrepare(h) \/ StartCommit(h)
    BY <2>1 DEF ApplyReserve, LeaveResume, FloorRead, StartRead, StartPrepare, StartCommit, history
  <2>2. CASE CancelRefund(h) \/ RejectRefund(h) \/ LeaveRefund(h) \/ AcceptElsewhere(h)
    BY <2>2, FailuresStay DEF CancelRefund, RejectRefund, LeaveRefund, AcceptElsewhere
  <2>3. CASE LeaveOthers(h) \/ Disband(h) \/ StartReject(h)
    BY <2>3, FailuresStay DEF LeaveOthers, Disband, StartReject
  <2>4. CASE AcceptCommit(h)
    BY <2>4, AcceptCommitRooms, FailuresStay
  <2> QED BY <1>2, <2>1, <2>2, <2>3, <2>4 DEF Continuations
<1>3. ASSUME NEW p \in Player, Disconnect(p) \/ Connect(p) \/ LateConnect(p) PROVE UNCHANGED failed
  BY <1>3 DEF Disconnect, Connect, LateConnect, history
<1>4. ASSUME NEW r \in Room, NEW p \in Player, NEW by,
             DisconnectRefund(r, p) \/ ExpiredRemoval(r, p, by)
      PROVE  failed \subseteq failed'
  BY <1>4, FailuresStay DEF DisconnectRefund, ExpiredRemoval
<1>5. ASSUME NEW r \in Room, NEW p \in Player, ReconnectExpiry(r, p) PROVE UNCHANGED failed
  BY <1>5 DEF ReconnectExpiry, history
<1>6. ASSUME NEW r \in Room, FinishExpedition(r) \/ FinalizeRoom(r) PROVE UNCHANGED failed
  BY <1>6 DEF FinishExpedition, FinalizeRoom, history
<1>7. CASE UNCHANGED vars
  BY <1>7 DEF vars, history
<1> QED BY <1>1, <1>2, <1>3, <1>4, <1>5, <1>6, <1>7 DEF Next

(* A handler comes to the end of its leave only by its refund.             *)
Leaving == {"leave.resume", "leave.others"}

LeavesOn(h) ==
  \/ calls'[h].at \notin Leaving
  \/ calls[h].at \in Leaving /\ calls'[h].room = calls[h].room
  \/ Slots!RefundKey(h[1], Op("leave", calls'[h].room, h[1])) \in operations'

(* The others waiting, that keeps every leave refunded.                    *)
LEMMA LeavesStayRefunded ==
  ASSUME LeavesRefunded, operations \subseteq operations',
         UNCHANGED calls \/ \E h \in Handler : OthersWait(h) /\ LeavesOn(h)
  PROVE  LeavesRefunded'
<1>1. ASSUME NEW g \in Handler, calls'[g].at \in Leaving
      PROVE  Slots!RefundKey(g[1], Op("leave", calls'[g].room, g[1])) \in operations'
  <2>1. CASE calls'[g].room = calls[g].room /\ calls[g].at \in Leaving
    BY <2>1 DEF LeavesRefunded, Leaving
  <2>2. CASE calls'[g] # calls[g]
    <3>1. LeavesOn(g)
      BY <2>2 DEF OthersWait
    <3> QED BY <1>1, <2>1, <3>1 DEF LeavesOn
  <2> QED BY <1>1, <2>1, <2>2
<1> QED BY <1>1 DEF LeavesRefunded, Leaving, Slots!RefundKey, Op

(* The end of a handler, and its step to one that is no leave.             *)
LEMMA OtherStepsLeaveOn ==
  ASSUME TypeOK, NEW h \in Handler
  PROVE  /\ Done(h) => OthersWait(h) /\ LeavesOn(h)
         /\ \A at, r, p, todo : at \notin Leaving /\ Go(h, Call(at, r, p, todo))
              => OthersWait(h) /\ LeavesOn(h)
<1>1. ASSUME NEW call, call.at \notin Leaving, Go(h, call) PROVE OthersWait(h) /\ LeavesOn(h)
  BY <1>1, OthersGoOn DEF LeavesOn
<1>2. Done(h) => OthersWait(h) /\ LeavesOn(h)
  BY <1>1 DEF Done, Idle, Leaving
<1>3. ASSUME NEW at, NEW r, NEW p, NEW todo, at \notin Leaving, Go(h, Call(at, r, p, todo))
      PROVE  OthersWait(h) /\ LeavesOn(h)
  <2> DEFINE call == Call(at, r, p, todo)
  <2>1. call.at = at
    BY DEF Call
  <2>2. Go(h, call)
    BY <1>3
  <2> HIDE DEF call
  <2> QED BY <1>1, <1>3, <2>1, <2>2
<1> QED BY <1>2, <1>3

(* Every step but a restart keeps the leaves refunded.                     *)
LEMMA StepsKeepLeaves ==
  ASSUME TypeOK, LeavesRefunded, operations \subseteq operations', [Next]_vars, ~ Restart
  PROVE  LeavesRefunded'
<1> DEFINE on(h) == OthersWait(h) /\ LeavesOn(h)
<1>1. ASSUME UNCHANGED calls \/ \E h \in Handler : on(h) PROVE LeavesRefunded'
  BY <1>1, LeavesStayRefunded
<1>2. ASSUME NEW h \in Handler, \/ Done(h) \/ UNCHANGED calls
                                \/ \E at, r, p, todo : at \notin Leaving /\ Go(h, Call(at, r, p, todo))
      PROVE  LeavesRefunded'
  BY <1>1, <1>2, OtherStepsLeaveOn
<1>3. ASSUME NEW h \in Handler, NEW r, NEW room,
             DropMember(h, r, room) \/ NextDisband(h, r, room) \/ NextReject(h, r)
      PROVE  LeavesRefunded'
  BY <1>2, <1>3 DEF DropMember, NextDisband, NextReject, Leaving
<1>4. ASSUME NEW h \in Handler, Handlers(h) PROVE LeavesRefunded'
  <2>1. CASE LeaveParty(h)
    BY <1>2, <1>3, <2>1 DEF LeaveParty, Leaving
  <2> QED BY <1>2, <1>4, <2>1 DEF Handlers, CreateParty, CancelApplication, ApplyToParty,
       ReviewApplication, SetReady, SelectRiftFloor, StartExpedition, Leaving
<1>5. ASSUME NEW h \in Handler, Continuations(h) PROVE LeavesRefunded'
  <2>1. CASE \/ ApplyReserve(h) \/ CancelRefund(h) \/ RejectRefund(h) \/ FloorRead(h)
             \/ StartPrepare(h) \/ StartCommit(h)
    BY <1>2, <2>1 DEF ApplyReserve, CancelRefund, RejectRefund, FloorRead, StartPrepare,
       StartCommit, Leaving
  <2>2. CASE AcceptCommit(h) \/ AcceptElsewhere(h)
    BY <1>2, <2>2 DEF AcceptCommit, AcceptElsewhere, NextElsewhere, Leaving
  <2>3. CASE Disband(h) \/ StartRead(h) \/ StartReject(h)
    BY <1>2, <1>3, <2>3 DEF Disband, StartRead, StartReject
  <2>4. CASE LeaveRefund(h)
    <3>1. PICK r : r = calls[h].room
      OBVIOUS
    <3> DEFINE call == Call("leave.resume", r, h[1], {})
    <3>2. CASE Done(h)
      BY <1>2, <3>2
    <3>3. CASE Refund(r, h[1], "leave") /\ Go(h, call)
      <4>1. Slots!RefundKey(h[1], Op("leave", r, h[1])) \in operations'
        BY <3>3 DEF Refund, Slots!RefundPartySlot, slotVars
      <4>2. call.room = r
        BY DEF Call
      <4> HIDE DEF call
      <4>3. OthersWait(h) /\ calls'[h] = call
        BY <3>3, OthersGoOn
      <4>4. LeavesOn(h)
        BY <4>1, <4>2, <4>3 DEF LeavesOn
      <4> QED BY <1>1, <4>3, <4>4
    <3> QED BY <2>4, <3>1, <3>2, <3>3 DEF LeaveRefund
  <2>5. CASE LeaveResume(h)
    <3>1. PICK r : r = calls[h].room
      OBVIOUS
    <3>2. ASSUME NEW others, Go(h, Call("leave.others", r, h[1], others)) PROVE LeavesRefunded'
      <4> DEFINE call == Call("leave.others", r, h[1], others)
      <4>1. call.room = r
        BY DEF Call
      <4>2. Go(h, call)
        BY <3>2
      <4> HIDE DEF call
      <4>3. OthersWait(h) /\ calls'[h] = call
        BY <4>2, OthersGoOn
      <4>4. LeavesOn(h)
        BY <2>5, <3>1, <4>1, <4>3 DEF LeavesOn, LeaveResume, Leaving
      <4> QED BY <1>1, <4>3, <4>4
    <3> QED BY <1>2, <1>3, <2>5, <3>1, <3>2 DEF LeaveResume
  <2>6. CASE LeaveOthers(h)
    <3>1. ASSUME NEW todo, Go(h, [calls[h] EXCEPT !.todo = todo]) PROVE LeavesRefunded'
      <4> DEFINE call == [calls[h] EXCEPT !.todo = todo]
      <4>1. call.room = calls[h].room
        BY <2>6 DEF TypeOK, CallState, LeaveOthers, Idle, Steps
      <4>2. Go(h, call)
        BY <3>1
      <4> HIDE DEF call
      <4>3. OthersWait(h) /\ calls'[h] = call
        BY <4>2, OthersGoOn
      <4>4. LeavesOn(h)
        BY <2>6, <4>1, <4>3 DEF LeavesOn, LeaveOthers, Leaving
      <4> QED BY <1>1, <4>3, <4>4
    <3>2. \/ Done(h)
          \/ DropMember(h, calls[h].room, rooms[calls[h].room])
          \/ \E todo : Go(h, [calls[h] EXCEPT !.todo = todo])
      BY <2>6 DEF LeaveOthers
    <3> QED BY <1>2, <1>3, <3>1, <3>2
  <2> QED BY <1>5, <2>1, <2>2, <2>3, <2>4, <2>5, <2>6 DEF Continuations
<1>6. CASE \/ \E p \in Player : Disconnect(p) \/ Connect(p) \/ LateConnect(p)
           \/ \E r \in Room, p \in Player :
                \/ DisconnectRefund(r, p) \/ ReconnectExpiry(r, p)
                \/ \E by \in {"timer", "connect"} : ExpiredRemoval(r, p, by)
           \/ \E r \in Room : FinishExpedition(r) \/ FinalizeRoom(r)
  <2>1. UNCHANGED calls
    BY <1>6 DEF Disconnect, Connect, LateConnect, DisconnectRefund, ReconnectExpiry,
       ExpiredRemoval, FinishExpedition, FinalizeRoom
  <2> QED BY <1>1, <2>1
<1>7. CASE UNCHANGED vars
  BY <1>1, <1>7 DEF vars
<1> QED BY <1>4, <1>5, <1>6, <1>7 DEF Next

(* A created room stays created, and none comes back to the lobby.         *)
LEMMA LobbyComesFirst ==
  ASSUME TypeOK, [Next]_vars, NEW r \in Room, rooms[r].phase # "UNUSED"
  PROVE  rooms'[r].phase # "UNUSED" /\ (rooms'[r].phase = "LOBBY" => rooms[r].phase = "LOBBY")
<1>1. CASE PhasesCalm
  BY <1>1 DEF PhasesCalm, PhaseCalm
<1>2. ASSUME NEW h \in Handler, StartCommit(h)
      PROVE  rooms'[r].phase # "UNUSED" /\ (rooms'[r].phase = "LOBBY" => rooms[r].phase = "LOBBY")
  <2>1. PICK o \in Room : o = calls[h].room
    BY <1>2, StartCommitRooms
  <2> DEFINE room == Started(rooms[o])
  <2>2. UNCHANGED rooms \/ rooms' = [rooms EXCEPT ![o] = room]
    BY <1>2, <2>1, StartCommitRooms
  <2>3. room.phase = IF rooms[o].phase \in {"UNUSED", "CLOSED"} THEN rooms[o].phase ELSE "RUNNING"
    BY StartedIsRoom DEF TypeOK
  <2> HIDE DEF room
  <2> QED BY <2>2, <2>3 DEF TypeOK
<1> QED BY <1>1, <1>2, StepsAreCalm

(* A live reservation is in a room that was created and, in the lobby, has *)
(* someone to answer for it.                                               *)
SeatIsAnswered(s) ==
  Slots!Live(s) =>
    /\ slots[s].room \in Room /\ slots[s].applicant \in Player
    /\ rooms[slots[s].room].phase # "UNUSED"
    /\ rooms[slots[s].room].phase = "LOBBY" => Answered(slots[s].room, slots[s].applicant)

Owned == LeavesRefunded /\ \A s \in SlotId : SeatIsAnswered(s)

(* A failure or a refund of a seat is not forgotten.                       *)
LEMMA AnsweredLasts ==
  ASSUME failed \subseteq failed', operations \subseteq operations', NEW r, NEW p,
         InLobby(r), StillAnswered(r, p), Answered(r, p)
  PROVE  Answered(r, p)'
<1>1. SeatFailed(r, p) => SeatFailed(r, p)'
  BY DEF SeatFailed, Op
<1>2. SeatRefunded(r, p) => SeatRefunded(r, p)'
  BY DEF SeatRefunded, Slots!RefundKey, Op
<1> QED BY <1>1, <1>2 DEF Answered, StillAnswered

(* A seat that stays live keeps its answer.                                *)
LEMMA SeatKeepsAnswer ==
  ASSUME TypeOK, LeavesRefunded, operations \subseteq operations', failed \subseteq failed',
         [Next]_vars, ~ Restart, NEW s \in SlotId, SeatIsAnswered(s), SeatLasts(s)
  PROVE  SeatIsAnswered(s)'
<1>1. PICK r \in Room, p \in Player : r = slots[s].room /\ p = slots[s].applicant
  BY DEF SeatIsAnswered, SeatLasts
<1>2. /\ rooms[r].phase # "UNUSED" /\ (rooms[r].phase = "LOBBY" => Answered(r, p))
      /\ r = slots'[s].room /\ p = slots'[s].applicant
  BY <1>1 DEF SeatIsAnswered, SeatLasts
<1>3. rooms'[r].phase # "UNUSED" /\ (rooms'[r].phase = "LOBBY" => rooms[r].phase = "LOBBY")
  BY <1>2, LobbyComesFirst
<1>4. StillAnswered(r, p)
  BY StepsAnswer
<1>5. rooms'[r].phase = "LOBBY" => Answered(r, p)'
  BY <1>2, <1>3, <1>4, AnsweredLasts DEF InLobby
<1>6. ASSUME rooms'[r].phase = "LOBBY" PROVE Answered(slots[s].room, slots[s].applicant)'
  BY <1>2, <1>5, <1>6 DEF Answered, Answerable, SeatFailed, SeatRefunded, Slots!RefundKey, Op
<1> QED BY <1>2, <1>3, <1>6 DEF SeatIsAnswered

(* A seat that is reserved is answered for by the applicant list.          *)
LEMMA NewSeatIsAnswered ==
  ASSUME TypeOK, Party, [Next]_vars, NEW h \in Handler, ApplyReserve(h), NEW s \in SlotId,
         NEW r \in Room, NEW p \in Player, r = calls[h].room,
         slots'[s].room = r, slots'[s].applicant = p, Listed(r, p)'
  PROVE  SeatIsAnswered(s)'
<1>1. rooms[r].phase # "UNUSED"
  <2>1. calls[h] # Idle
    BY WaitingCall DEF TypeOK, ApplyReserve
  <2> QED BY <2>1 DEF Party, CallsHaveRooms
<1>2. rooms'[r].phase # "UNUSED"
  BY <1>1, LobbyComesFirst
<1>3. Answerable(slots[s].room, slots[s].applicant)'
  BY DEF Answerable, Listed
<1> QED BY <1>2, <1>3 DEF SeatIsAnswered, Answered

(* Every step keeps the seats owned.                                       *)
LEMMA NextOwned == TypeOK /\ Party /\ Marked /\ Owned /\ [Next]_vars => Owned'
<1> SUFFICES ASSUME TypeOK, Party, Marked, Owned, [Next]_vars PROVE Owned'
  OBVIOUS
<1>1. SlotsTyped /\ LeavesRefunded /\ operations \subseteq operations'
  BY NextIsSlotStep, KeysStay DEF Marked, Owned
<1>2. CASE Restart
  <2>1. \A s \in SlotId : ~ Slots!Live(s)'
    BY <1>1, <1>2, CleanupSeatsLast DEF Restart
  <2>2. \A s \in SlotId : SeatIsAnswered(s)'
    BY <2>1 DEF SeatIsAnswered
  <2>3. LeavesRefunded'
    BY <1>2 DEF Restart, LeavesRefunded, Idle
  <2> QED BY <2>2, <2>3 DEF Owned
<1>3. CASE ~ Restart
  <2>1. LeavesRefunded' /\ failed \subseteq failed'
    BY <1>1, <1>3, StepsKeepLeaves, StepsKeepFailures
  <2>2. ASSUME NEW s \in SlotId, SeatLasts(s) PROVE SeatIsAnswered(s)'
    BY <1>1, <1>3, <2>1, <2>2, SeatKeepsAnswer DEF Owned
  <2>3. ASSUME NEW s \in SlotId, Slots!Live(s)' PROVE SeatIsAnswered(s)'
    <3>1. CASE \A h \in Handler : ~ ApplyReserve(h)
      BY <1>1, <2>2, <2>3, <3>1, StepsKeepSeats DEF SeatsLast
    <3>2. ASSUME NEW h \in Handler, ApplyReserve(h) PROVE SeatIsAnswered(s)'
      BY <1>1, <2>2, <2>3, <3>2, ReserveSeats, NewSeatIsAnswered
    <3> QED BY <3>1, <3>2
  <2>4. \A s \in SlotId : SeatIsAnswered(s)'
    BY <2>3 DEF SeatIsAnswered
  <2> QED BY <2>1, <2>4 DEF Owned
<1> QED BY <1>2, <1>3

(* The answers from the initial state on.                                  *)
LEMMA OwnedAlways == Spec => []Owned
<1>1. Init => Owned
  BY DEF Init, Slots!Init, Owned, LeavesRefunded, SeatIsAnswered, Slots!Live, Slots!Used, Idle
<1> QED BY <1>1, NextOwned, LobbyTypeCorrect, PartyAlways, MarkedAlways, PTL DEF Spec

(* Whatever fails and however the handlers overlap: coins held for a seat  *)
(* of a room in the lobby have someone to answer for them, unless a call   *)
(* about that seat failed or a refund of it was recorded before.           *)
THEOREM LobbyCoinsAnswered == Spec => []LobbyCoinsAreAnswered
<1>1. Owned => LobbyCoinsAreAnswered
  BY DEF Owned, SeatIsAnswered, Answered, LobbyCoinsAreAnswered
<1> QED BY <1>1, OwnedAlways, PTL
=============================================================================
