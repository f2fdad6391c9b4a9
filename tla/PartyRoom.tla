----------------------------- MODULE PartyRoom -----------------------------
(***************************************************************************)
(* The party lobby of RoomManager on top of the party-slot ledger of       *)
(* EconomyService: applying, reviewing, leaving, readiness, the paid       *)
(* START, disconnects and their grace period, and the restart.             *)
(*                                                                         *)
(* The server is one process whose message handlers are async functions:   *)
(* each runs alone up to its next await, and any other handler may run     *)
(* while it waits for the repository.  A handler is therefore a chain of   *)
(* steps.  The messages of one socket are handled one after another, those *)
(* of two sockets of a player are not: a player who reconnects has its new *)
(* messages handled while the last ones of the replaced socket still wait. *)
(* The step the messages of a socket wait to take is calls[h], h naming    *)
(* the player and the socket; disconnects and expiry timers start handlers *)
(* of their own (refunds, expiring).  A repository transaction and the     *)
(* synchronous code that follows it up to the next await are one step; the *)
(* transaction may fail, which ends the handler there.                     *)
(*                                                                         *)
(* Payloads, presence, broadcasts and telemetry are left out, and so are   *)
(* the slotOffers, which are only shown.  What happens between START and   *)
(* the terminal outcome is RiftExpedition; here a started room is RUNNING  *)
(* (COMBAT or POST_ENCOUNTER), then FINISHED (FINISHED or FAILED) while    *)
(* loot is extracted, then finalized.                                      *)
(***************************************************************************)
EXTENDS Integers, FiniteSets

CONSTANTS
  Player, SlotId, Offer, InitialCoins, OneRowPerSeat, NoSlot, NoMarker,
  NoLeader,       \* the leader of a room not yet created or gone
  Handler,        \* pairs of a player and a number, one per socket whose
                  \* messages are handled; bounds what overlaps of a player
  MaxRooms,       \* rooms ever created; names the bound of the room ids
  MaxPartySize,   \* MAX_PARTY_SIZE
  MinPartySize,   \* minPartySize
  SlotOffers,     \* the slot offers applications are made with, 0 included
  Messages,       \* the client messages and events of this environment
  MayFail         \* the reasons whose repository calls fail in it

MessageKinds == {"CREATE_PARTY", "APPLY_TO_PARTY", "CANCEL_APPLICATION",
  "ACCEPT_APPLICATION", "REJECT_APPLICATION", "LEAVE_PARTY", "SET_READY",
  "UNSET_READY", "SELECT_RIFT_FLOOR", "START_EXPEDITION", "disconnect", "expiry", "finish", "restart"}

(* The operation ids RoomManager passes: a client's id for each            *)
(* application, and for the rest a string made of the reason, room and     *)
(* player, the same each time.                                             *)
ReasonKinds == {"accept", "cancel-application", "reject", "accepted-elsewhere",
  "leave", "leader-left", "disband", "start-reject", "disconnect-application", "expired"}

ASSUME MessagesAssumption == Messages \subseteq MessageKinds /\ MayFail \subseteq ReasonKinds
ASSUME SlotOffersAssumption == SlotOffers \subseteq Offer \cup {0}
ASSUME PartySizeAssumption ==
  MaxPartySize \in Nat \ {0} /\ MinPartySize \in Nat /\ MaxRooms \in Nat
ASSUME PlayerAssumption == IsFiniteSet(Player) /\ NoLeader \notin Player
ASSUME HandlerAssumption == Handler \subseteq Player \X Nat /\ IsFiniteSet(Handler)

Room == 1 .. MaxRooms

ApplyId == 1 .. Cardinality(SlotId)

SeatOp == [reason : ReasonKinds, room : Room, player : Player]

OpId == SeatOp \cup [reason : {"apply"}, room : ApplyId, player : Player]

Op(reason, r, p) == [reason |-> reason, room |-> r, player |-> p]

VARIABLES
  coins, reserved, slots, operations, ledger, marker,  \* see PartySlots
  online,    \* players with a peer
  rooms,     \* the rooms, see RoomState
  calls,     \* the handler of each socket that waits for the repository
  refunds,   \* disconnect-application refunds under way
  timers,    \* the reconnect timers that have not fired
  expiring,  \* removals of expired lobby members under way
  failed,    \* history: the repository calls that failed since the start
  overlap    \* history: the most acceptances of a room under way when
             \* another one began

Slots == INSTANCE PartySlots

ASSUME MarkerAssumption ==
  NoMarker \notin Slots!MarkerRecord /\ NoSlot \notin Slots!SlotRecord

slotVars == <<coins, reserved, slots, operations, ledger, marker>>
peerVars == <<online, refunds, timers, expiring>>
history == <<failed, overlap>>
vars == <<slotVars, peerVars, history, rooms, calls>>

-----------------------------------------------------------------------------
RoomPhase == {"UNUSED", "LOBBY", "RUNNING", "FINISHED", "CLOSED"}

(* A room: `conn' are the members with connected = true, `away' those with *)
(* a disconnectedAt time, `apps' the applicants, `seen' those that each    *)
(* running loop over the applications has come to.                         *)
RoomState == [phase : RoomPhase, leader : Player \cup {NoLeader}, members : SUBSET Player,
              ready : SUBSET Player, conn : SUBSET Player, away : SUBSET Player,
              apps : SUBSET Player, seen : SUBSET (Handler \X Player)]

Idle == [at |-> "idle"]
Call(at, r, who, todo) == [at |-> at, room |-> r, who |-> who, todo |-> todo]

Steps == {"cancel.refund", "accept.commit", "reject.refund", "leave.refund",
  "leave.resume", "leave.others", "disband", "floor.read", "start.read", "start.reject",
  "start.prepare", "start.commit"}

(* todo is the offer of an application, the other room an acceptance has   *)
(* come to, else the players still to deal with.                           *)
CallState == {Idle}
  \cup [at : {"apply.reserve"}, room : Room, who : Player, todo : Offer \cup {0}]
  \cup [at : {"accept.elsewhere"}, room : Room, who : Player, todo : Room]
  \cup [at : Steps, room : Room, who : Player, todo : SUBSET Player]

(* The rooms in the rooms map: created and not deleted.                    *)
Open(r) == rooms[r].phase \notin {"UNUSED", "CLOSED"}

(* findMemberRoom: the oldest room the player is a member of.              *)
RoomsOf(p) == {r \in Room : Open(r) /\ p \in rooms[r].members}
IsRoomOf(r, p) == r \in RoomsOf(p) /\ \A o \in RoomsOf(p) : r <= o

(* The socket has handled its messages so far.  Its player need only have  *)
(* some peer: the queued messages of a replaced socket are handled too.    *)
Free(h) == h[1] \in online /\ calls[h] = Idle

Go(h, call) == calls' = [calls EXCEPT ![h] = call]
Done(h) == Go(h, Idle)

(* The acceptances of room r under way.                                    *)
Accepting(r) == {h \in Handler : calls[h].at = "accept.commit" /\ calls[h].room = r}

Refund(r, p, reason) ==
  /\ \/ Slots!RefundPartySlot(r, p, Op(reason, r, p))
     \/ Slots!RefundKey(p, Op(reason, r, p)) \in operations /\ UNCHANGED slotVars
  /\ UNCHANGED failed

Fail(r, p, reason) == failed' = failed \cup {Op(reason, r, p)} /\ UNCHANGED slotVars

(* The repository call fails, and what follows it in the handler is lost.  *)
Failing(r, p, reason) == reason \in MayFail /\ Fail(r, p, reason)

(* id numbers p's next paid application.                                   *)
IsNextApply(id, p) ==
  \A used \in 1 .. id - 1 : Slots!ReserveKey(p, Op("apply", used, p)) \in operations

(* room without the application of p; if p applies again, the loops over   *)
(* the live Map come to it again.                                          *)
Withdrawn(room, p) == [room EXCEPT !.apps = @ \ {p}, !.seen = @ \ (Handler \X {p})]

(* Bug: the loop starts over after each refund.                            *)
UnvisitedAgain(h, room) == room.apps

(* The applicants the loop of h has not come to, in any order here; room   *)
(* when it has come to q, and when it is over.                             *)
Unvisited(h, room) == {q \in room.apps : <<h, q>> \notin room.seen}
Visited(h, q, room) == [room EXCEPT !.seen = @ \cup {<<h, q>>}]
Looped(h, room) == [room EXCEPT !.seen = @ \ ({h} \X Player)]

(* room with member p removed, and the deleted or newly led room when p    *)
(* was the last or the leader.  The next leader is the first remaining     *)
(* member in joining order, here any of them.                              *)
Without(room, p) ==
  [room EXCEPT !.members = @ \ {p}, !.ready = @ \ {p}, !.conn = @ \ {p}, !.away = @ \ {p}]

Successors(room, p) ==
  LET rest == room.members \ {p}
  IN  IF room.leader = p /\ rest # {} THEN rest ELSE {room.leader}

-----------------------------------------------------------------------------
NoRoom == [phase |-> "UNUSED", leader |-> NoLeader, members |-> {}, ready |-> {},
           conn |-> {}, away |-> {}, apps |-> {}, seen |-> {}]

Init ==
  /\ Slots!Init
  /\ online = Player
  /\ rooms = [r \in Room |-> NoRoom]
  /\ calls = [h \in Handler |-> Idle]
  /\ refunds = {} /\ timers = {} /\ expiring = {}
  /\ failed = {} /\ overlap = [r \in Room |-> 0]

CreateParty(h) ==
  /\ "CREATE_PARTY" \in Messages
  /\ Free(h) /\ RoomsOf(h[1]) = {}
  /\ \E r \in Room :
       /\ rooms[r].phase = "UNUSED" /\ \A o \in 1 .. r - 1 : rooms[o].phase # "UNUSED"
       /\ rooms' = [rooms EXCEPT ![r] = [NoRoom EXCEPT !.phase = "LOBBY",
                      !.leader = h[1], !.members = {h[1]}, !.conn = {h[1]}]]
  /\ UNCHANGED <<slotVars, peerVars, history, calls>>

(* applyToParty: the checks, the reservation naming the leader of now, and *)
(* the entry into the applications, whatever the room has become.          *)
ApplyToParty(h, r, offer) ==
  /\ "APPLY_TO_PARTY" \in Messages
  /\ Free(h) /\ RoomsOf(h[1]) = {}
  /\ rooms[r].phase = "LOBBY"
  /\ Cardinality(rooms[r].members) < MaxPartySize
  /\ Go(h, Call("apply.reserve", r, rooms[r].leader, offer))
  /\ UNCHANGED <<slotVars, peerVars, history, rooms>>

(* The reservation may repeat an id of the client's, which is not reserved *)
(* again but entered, or it may be refused or fail.                        *)
ApplyReserve(h) ==
  LET c == calls[h]
      p == h[1]
      Enter == rooms' = [rooms EXCEPT ![c.room].apps = @ \cup {p}]
  IN
  /\ c.at = "apply.reserve"
  /\ \/ c.todo = 0 /\ Enter /\ UNCHANGED slotVars
     \/ /\ c.todo # 0 /\ Enter
        /\ \E id \in ApplyId :
             \/ /\ IsNextApply(id, p)
                /\ Slots!ReservePartySlot(c.room, p, c.who, c.todo, Op("apply", id, p))
             \/ /\ Slots!ReserveKey(p, Op("apply", id, p)) \in operations
                /\ UNCHANGED slotVars
     \/ c.todo # 0 /\ UNCHANGED <<slotVars, rooms>>
  /\ Done(h)
  /\ UNCHANGED <<peerVars, history>>

CancelApplication(h, r) ==
  /\ "CANCEL_APPLICATION" \in Messages
  /\ Free(h) /\ Open(r) /\ h[1] \in rooms[r].apps
  /\ rooms' = [rooms EXCEPT ![r] = Withdrawn(@, h[1])]
  /\ Go(h, Call("cancel.refund", r, h[1], {}))
  /\ UNCHANGED <<slotVars, peerVars, history>>

CancelRefund(h) ==
  LET c == calls[h] IN
  /\ c.at = "cancel.refund"
  /\ Refund(c.room, c.who, "cancel-application") \/ Failing(c.room, c.who, "cancel-application")
  /\ Done(h)
  /\ UNCHANGED <<peerVars, overlap, rooms>>

(* An acceptance of room r begins beside those under way.                  *)
CountOverlap(r) ==
  LET now == Cardinality(Accepting(r))
  IN  overlap' = [overlap EXCEPT ![r] = IF @ > now THEN @ ELSE now]

(* Bug: the size of the party is not checked when the leader accepts.      *)
ReviewUnsized(h, p, accept) ==
  \E r \in Room :
    /\ Free(h) /\ IsRoomOf(r, h[1]) /\ rooms[r].leader = h[1]
    /\ rooms[r].phase = "LOBBY"
    /\ p \in rooms[r].apps
    /\ rooms' = [rooms EXCEPT ![r] = Withdrawn(@, p)]
    /\ \/ /\ accept /\ "ACCEPT_APPLICATION" \in Messages
          /\ Go(h, Call("accept.commit", r, p, {})) /\ CountOverlap(r)
       \/ /\ ~ accept /\ "REJECT_APPLICATION" \in Messages
          /\ Go(h, Call("reject.refund", r, p, {})) /\ UNCHANGED overlap
    /\ UNCHANGED <<slotVars, peerVars, failed>>

(* reviewApplication: the checks and the removal of the application.       *)
ReviewApplication(h, p, accept) ==
  \E r \in Room :
    /\ Free(h) /\ IsRoomOf(r, h[1]) /\ rooms[r].leader = h[1]
    /\ rooms[r].phase = "LOBBY"
    /\ p \in rooms[r].apps
    /\ rooms' = [rooms EXCEPT ![r] = Withdrawn(@, p)]
    /\ \/ /\ accept /\ "ACCEPT_APPLICATION" \in Messages
          /\ Cardinality(rooms[r].members) < MaxPartySize
          /\ Go(h, Call("accept.commit", r, p, {})) /\ CountOverlap(r)
       \/ /\ ~ accept /\ "REJECT_APPLICATION" \in Messages
          /\ Go(h, Call("reject.refund", r, p, {})) /\ UNCHANGED overlap
    /\ UNCHANGED <<slotVars, peerVars, failed>>

(* Bug: a rejection does not refund.                                       *)
RejectUnrefunded(h) ==
  /\ calls[h].at = "reject.refund"
  /\ Done(h)
  /\ UNCHANGED <<slotVars, peerVars, history, rooms>>

RejectRefund(h) ==
  LET c == calls[h] IN
  /\ c.at = "reject.refund"
  /\ Refund(c.room, c.who, "reject") \/ Failing(c.room, c.who, "reject")
  /\ Done(h)
  /\ UNCHANGED <<peerVars, overlap, rooms>>

(* The rooms are visited in the order of their creation: the application   *)
(* of p in the next other one that has it is deleted before its refund is  *)
(* awaited.                                                                *)
Elsewhere(r, p, last) == {o \in Room : o > last /\ o # r /\ Open(o) /\ p \in rooms[o].apps}

NextElsewhere(h, r, p, last, joined) ==
  LET others == Elsewhere(r, p, last) IN
  \/ others = {} /\ rooms' = joined /\ Done(h)
  \/ \E o \in others :
       /\ \A other \in others : o <= other
       /\ rooms' = [joined EXCEPT ![o] = Withdrawn(@, p)]
       /\ Go(h, Call("accept.elsewhere", r, p, o))

(* After the acceptance the applicant becomes a member, whatever the room  *)
(* has become, connected if it has a peer now, with no disconnect time     *)
(* either way.  An acceptance that names another leader fails as one that  *)
(* the repository loses does: the application is gone.                     *)
AcceptCommit(h) ==
  LET c == calls[h]
      p == c.who
      op == Op("accept", c.room, p)
      joined == [rooms EXCEPT ![c.room].members = @ \cup {p}, ![c.room].ready = @ \ {p},
                   ![c.room].conn = IF p \in online THEN @ \cup {p} ELSE @ \ {p},
                   ![c.room].away = @ \ {p}]
  IN
  /\ c.at = "accept.commit"
  /\ \/ /\ \/ Slots!AcceptPartySlot(c.room, p, h[1], op)
           \/ Slots!AcceptKey(h[1], op) \in operations /\ UNCHANGED slotVars
        /\ NextElsewhere(h, c.room, p, 0, joined)
        /\ UNCHANGED failed
     \/ /\ \/ Failing(c.room, p, "accept")
           \/ /\ Slots!AcceptKey(h[1], op) \notin operations
              /\ \E s \in Slots!Used : /\ Slots!For(s, c.room, p)
                                       /\ slots[s].status = "PRE_START"
                                       /\ slots[s].leader # h[1]
              /\ Fail(c.room, p, "accept")
        /\ Done(h) /\ UNCHANGED rooms
  /\ UNCHANGED <<peerVars, overlap>>

AcceptElsewhere(h) ==
  LET c == calls[h] IN
  /\ c.at = "accept.elsewhere"
  /\ \/ /\ Refund(c.todo, c.who, "accepted-elsewhere")
        /\ NextElsewhere(h, c.room, c.who, c.todo, rooms)
     \/ Failing(c.todo, c.who, "accepted-elsewhere") /\ Done(h) /\ UNCHANGED rooms
  /\ UNCHANGED <<peerVars, overlap>>

-----------------------------------------------------------------------------
(* The applicants of the emptied room r are refunded one after another,    *)
(* those who apply meanwhile included; then the room is deleted.           *)
NextDisband(h, r, room) ==
  \/ \E q \in Unvisited(h, room) :
       /\ rooms' = [rooms EXCEPT ![r] = Visited(h, q, room)]
       /\ Go(h, Call("disband", r, q, {}))
  \/ /\ Unvisited(h, room) = {}
     /\ rooms' = [rooms EXCEPT ![r] = [Looped(h, room) EXCEPT !.phase = "CLOSED"]]
     /\ Done(h)

(* Bug: the leader is replaced before it is asked whether anyone is left.  *)
DropMemberThenAsk(h, r, room) ==
  LET left == [Without(room, h[1]) EXCEPT !.leader =
                 IF room.leader = h[1] /\ room.members = {h[1]} THEN NoLeader ELSE @]
  IN
  \/ /\ left.members # {} /\ Done(h)
     /\ \E l \in Successors(room, h[1]) : rooms' = [rooms EXCEPT ![r] = [left EXCEPT !.leader = l]]
  \/ left.members = {} /\ NextDisband(h, r, left)

(* The end of leaveParty, room being what the steps before left: the       *)
(* member goes, and an emptied room is disbanded.                          *)
DropMember(h, r, room) ==
  LET left == Without(room, h[1]) IN
  \/ /\ left.members # {} /\ Done(h)
     /\ \E l \in Successors(room, h[1]) : rooms' = [rooms EXCEPT ![r] = [left EXCEPT !.leader = l]]
  \/ left.members = {} /\ NextDisband(h, r, left)

LeaveParty(h) ==
  \E r \in Room :
    /\ "LEAVE_PARTY" \in Messages
    /\ Free(h) /\ IsRoomOf(r, h[1])
    /\ \/ /\ rooms[r].phase = "LOBBY"
          /\ Go(h, Call("leave.refund", r, h[1], {})) /\ UNCHANGED rooms
       \/ /\ rooms[r].phase = "FINISHED" /\ DropMember(h, r, rooms[r])
    /\ UNCHANGED <<slotVars, peerVars, history>>

LeaveRefund(h) ==
  LET c == calls[h] IN
  /\ c.at = "leave.refund"
  /\ \/ Refund(c.room, h[1], "leave") /\ Go(h, Call("leave.resume", c.room, h[1], {}))
     \/ Failing(c.room, h[1], "leave") /\ Done(h)
  /\ UNCHANGED <<peerVars, overlap, rooms>>

(* After the character state is sent: a leader still in the lobby refunds  *)
(* everyone else first.  If the state cannot be read, it stays.            *)
LeaveResume(h) ==
  LET c == calls[h]
      room == rooms[c.room]
      others == (room.members \cup room.apps) \ {h[1]}
  IN
  /\ c.at = "leave.resume"
  /\ \/ IF room.phase = "LOBBY" /\ room.leader = h[1] /\ others # {}
        THEN Go(h, Call("leave.others", c.room, h[1], others)) /\ UNCHANGED rooms
        ELSE DropMember(h, c.room, room)
     \/ Done(h) /\ UNCHANGED rooms
  /\ UNCHANGED <<slotVars, peerVars, history>>

(* One of the others is refunded; when none is left the leader goes.       *)
LeaveOthers(h) ==
  LET c == calls[h] IN
  /\ c.at = "leave.others"
  /\ \E q \in c.todo :
       \/ /\ Refund(c.room, q, "leader-left")
          /\ IF c.todo = {q} THEN DropMember(h, c.room, rooms[c.room])
             ELSE Go(h, [c EXCEPT !.todo = @ \ {q}]) /\ UNCHANGED rooms
       \/ Failing(c.room, q, "leader-left") /\ Done(h) /\ UNCHANGED rooms
  /\ UNCHANGED <<peerVars, overlap>>

(* A refund that fails ends the loop, and the emptied room stays.          *)
Disband(h) ==
  LET c == calls[h] IN
  /\ c.at = "disband"
  /\ \/ Refund(c.room, c.who, "disband") /\ NextDisband(h, c.room, rooms[c.room])
     \/ /\ Failing(c.room, c.who, "disband") /\ Done(h)
        /\ rooms' = [rooms EXCEPT ![c.room] = Looped(h, @)]
  /\ UNCHANGED <<peerVars, overlap>>

SetReady(h, ready) ==
  \E r \in Room :
    /\ (IF ready THEN "SET_READY" ELSE "UNSET_READY") \in Messages
    /\ Free(h) /\ IsRoomOf(r, h[1]) /\ rooms[r].phase = "LOBBY"
    /\ rooms' = [rooms EXCEPT ![r].ready = IF ready THEN @ \cup {h[1]} ELSE @ \ {h[1]}]
    /\ UNCHANGED <<slotVars, peerVars, history, calls>>

(* selectRiftFloor, before and after the leader's progress is read: a new  *)
(* floor makes everyone unready.  Which floor it is, is left out.          *)
SelectRiftFloor(h) ==
  \E r \in Room :
    /\ "SELECT_RIFT_FLOOR" \in Messages
    /\ Free(h) /\ IsRoomOf(r, h[1]) /\ rooms[r].leader = h[1]
    /\ rooms[r].phase = "LOBBY"
    /\ Go(h, Call("floor.read", r, h[1], {}))
    /\ UNCHANGED <<slotVars, peerVars, history, rooms>>

FloorRead(h) ==
  LET c == calls[h] IN
  /\ c.at = "floor.read"
  /\ \/ rooms' = [rooms EXCEPT ![c.room].ready = @ \ rooms[c.room].members]
     \/ UNCHANGED rooms
  /\ Done(h)
  /\ UNCHANGED <<slotVars, peerVars, history>>

-----------------------------------------------------------------------------
Connected(r) == \A p \in rooms[r].members : p \in rooms[r].conn /\ p \in online

(* startExpedition up to its first await.                                  *)
StartExpedition(h) ==
  \E r \in Room :
    /\ "START_EXPEDITION" \in Messages
    /\ Free(h) /\ IsRoomOf(r, h[1]) /\ rooms[r].leader = h[1]
    /\ rooms[r].phase = "LOBBY"
    /\ Cardinality(rooms[r].members) >= MinPartySize
    /\ Connected(r)
    /\ rooms[r].members \subseteq rooms[r].ready
    /\ Go(h, Call("start.read", r, h[1], {}))
    /\ UNCHANGED <<slotVars, peerVars, history, rooms>>

(* Each applicant is refunded, those who apply meanwhile included; then    *)
(* the connections, and only they, are checked again.                      *)
NextReject(h, r) ==
  \/ \E q \in Unvisited(h, rooms[r]) :
       /\ rooms' = [rooms EXCEPT ![r] = Visited(h, q, @)]
       /\ Go(h, Call("start.reject", r, q, {}))
  \/ /\ Unvisited(h, rooms[r]) = {}
     /\ rooms' = [rooms EXCEPT ![r] = Looped(h, @)]
     /\ IF Connected(r) THEN Go(h, Call("start.prepare", r, h[1], {})) ELSE Done(h)

(* A member who has not unlocked the floor, or a failing read, ends START. *)
StartRead(h) ==
  LET c == calls[h] IN
  /\ c.at = "start.read"
  /\ NextReject(h, c.room) \/ (Done(h) /\ UNCHANGED rooms)
  /\ UNCHANGED <<slotVars, peerVars, history>>

StartReject(h) ==
  LET c == calls[h] IN
  /\ c.at = "start.reject"
  /\ \/ Refund(c.room, c.who, "start-reject") /\ NextReject(h, c.room)
     \/ /\ Failing(c.room, c.who, "start-reject") /\ Done(h)
        /\ rooms' = [rooms EXCEPT ![c.room] = Looped(h, @)]
  /\ UNCHANGED <<peerVars, overlap>>

(* Bug: the room is activated before the paid START commits.               *)
PrepareActivates(h) ==
  LET c == calls[h] IN
  /\ c.at = "start.prepare"
  /\ \/ /\ Go(h, Call("start.commit", c.room, h[1], rooms[c.room].members))
        /\ rooms' = [rooms EXCEPT ![c.room].phase = "RUNNING"]
     \/ Done(h) /\ UNCHANGED rooms
  /\ UNCHANGED <<slotVars, peerVars, history>>

(* The remaining reads are done and the members are those of now; or a     *)
(* read failed and START is over.                                          *)
StartPrepare(h) ==
  LET c == calls[h] IN
  /\ c.at = "start.prepare"
  /\ \/ Go(h, Call("start.commit", c.room, h[1], rooms[c.room].members))
     \/ Done(h)
  /\ UNCHANGED <<slotVars, peerVars, history, rooms>>

(* The settlement and the marker commit, or the marker of an earlier START *)
(* is found, and the room is activated, again in the latter case (had it   *)
(* been deleted meanwhile, it would stay out of the map); or the           *)
(* settlement throws and nothing changes.  A member who joined after the   *)
(* reads ends the handler here, before the first round and with the room   *)
(* activated, which is no other state.                                     *)
StartCommit(h) ==
  LET c == calls[h] IN
  /\ c.at = "start.commit"
  /\ \/ /\ \/ Slots!StartExpedition(c.room, h[1], c.todo)
           \/ Slots!StartKey(c.room) \in operations /\ UNCHANGED slotVars
        /\ rooms' = [rooms EXCEPT ![c.room].phase = IF Open(c.room) THEN "RUNNING" ELSE @,
                                  ![c.room].apps = {}, ![c.room].seen = {}]
     \/ UNCHANGED <<slotVars, rooms>>
  /\ Done(h)
  /\ UNCHANGED <<peerVars, history>>

(* The expedition ends (see RiftExpedition); loot is extracted while the   *)
(* room is FINISHED, then finalizeRoom deletes it.                         *)
FinishExpedition(r) ==
  /\ "finish" \in Messages
  /\ rooms[r].phase = "RUNNING"
  /\ rooms' = [rooms EXCEPT ![r].phase = "FINISHED"]
  /\ UNCHANGED <<slotVars, peerVars, history, calls>>

FinalizeRoom(r) ==
  /\ rooms[r].phase = "FINISHED"
  /\ rooms' = [rooms EXCEPT ![r] = [NoRoom EXCEPT !.phase = "CLOSED"]]
  /\ UNCHANGED <<slotVars, peerVars, history, calls>>

-----------------------------------------------------------------------------
(* disconnect: the applications of p are deleted in every room and each    *)
(* refund runs on its own; the membership is kept, marked away, and its    *)
(* timer starts.                                                           *)
Disconnect(p) ==
  LET applied == {r \in Room : Open(r) /\ p \in rooms[r].apps}
      mine == {r \in Room : IsRoomOf(r, p)}
      left(r) == IF r \in applied THEN Withdrawn(rooms[r], p) ELSE rooms[r]
  IN
  /\ "disconnect" \in Messages
  /\ p \in online
  /\ online' = online \ {p}
  /\ rooms' = [r \in Room |->
       IF r \in mine THEN [left(r) EXCEPT !.conn = @ \ {p}, !.away = @ \cup {p}] ELSE left(r)]
  /\ refunds' = refunds \cup (applied \X {p})
  /\ timers' = timers \cup (mine \X {p})
  /\ UNCHANGED <<slotVars, history, calls, expiring>>

(* Nothing waits for this refund: one that fails is only logged.           *)
DisconnectRefund(r, p) ==
  /\ <<r, p>> \in refunds
  /\ \/ Refund(r, p, "disconnect-application")
     \/ Failing(r, p, "disconnect-application")
  /\ refunds' = refunds \ {<<r, p>>}
  /\ UNCHANGED <<online, timers, expiring, overlap, rooms, calls>>

(* connectResolved within the grace period, which the timer still runs or  *)
(* has ended this millisecond: the membership is restored.  Later than     *)
(* that it is refused while a run goes on, and finalizes a finished room   *)
(* first (FinalizeRoom).                                                   *)
Connect(p) ==
  LET mine == {r \in Room : IsRoomOf(r, p)} IN
  /\ \A r \in mine : p \in rooms[r].away =>
       <<r, p>> \in timers \/ <<r, p, "timer">> \in expiring
  /\ online' = online \cup {p}
  /\ rooms' = [r \in Room |->
       IF r \in mine THEN [rooms[r] EXCEPT !.conn = @ \cup {p}, !.away = @ \ {p}] ELSE rooms[r]]
  /\ timers' = timers \ (mine \X {p})
  /\ UNCHANGED <<slotVars, history, calls, refunds, expiring>>

(* connectResolved after the grace period of a lobby member, whether its   *)
(* timer has fired or is late: the removal comes first.                    *)
LateConnect(p) ==
  \E r \in Room :
    /\ "expiry" \in Messages
    /\ IsRoomOf(r, p) /\ rooms[r].phase = "LOBBY" /\ p \in rooms[r].away
    /\ expiring' = expiring \cup {<<r, p, "connect">>}
    /\ UNCHANGED <<slotVars, history, rooms, calls, online, refunds, timers>>


(* handleReconnectExpiry: the timer fires, once, and removes a member of a *)
(* lobby that is still away.                                               *)
ReconnectExpiry(r, p) ==
  /\ "expiry" \in Messages
  /\ <<r, p>> \in timers
  /\ timers' = timers \ {<<r, p>>}
  /\ expiring' = IF rooms[r].phase = "LOBBY" /\ p \in rooms[r].members \cap rooms[r].away
                 THEN expiring \cup {<<r, p, "timer">>} ELSE expiring
  /\ UNCHANGED <<slotVars, history, rooms, calls, online, refunds>>

(* removeExpiredLobbyMember after its refund: the member goes, back or not;*)
(* an emptied room is deleted, its applications with it.  A late connect   *)
(* then goes on, without a room.  If the refund fails the member stays,    *)
(* and its timer has been used up.                                         *)
ExpiredRemoval(r, p, by) ==
  LET left == Without(rooms[r], p) IN
  /\ <<r, p, by>> \in expiring
  /\ expiring' = expiring \ {<<r, p, by>>}
  /\ \/ /\ Refund(r, p, "expired")
        /\ \E l \in Successors(rooms[r], p) :
             rooms' = [rooms EXCEPT ![r] =
               IF left.members = {} THEN [left EXCEPT !.phase = "CLOSED"]
               ELSE [left EXCEPT !.leader = l]]
        /\ online' = IF by = "connect" THEN online \cup {p} ELSE online
     \/ Failing(r, p, "expired") /\ UNCHANGED <<rooms, online>>
  /\ UNCHANGED <<overlap, calls, refunds, timers>>

(* The process stops and starts again: rooms, peers and handlers are gone  *)
(* and the orphaned reservations are refunded before anyone connects.      *)
Restart ==
  /\ "restart" \in Messages
  /\ Slots!CleanupOrphanedPartySlots
  /\ rooms' = [r \in Room |->
       IF rooms[r].phase = "UNUSED" THEN NoRoom ELSE [NoRoom EXCEPT !.phase = "CLOSED"]]
  /\ calls' = [h \in Handler |-> Idle]
  /\ online' = {} /\ refunds' = {} /\ timers' = {} /\ expiring' = {}
  /\ failed' = {} /\ overlap' = [r \in Room |-> 0]

Handlers(h) ==
  \/ CreateParty(h)
  \/ \E r \in Room : CancelApplication(h, r)
  \/ \E r \in Room, offer \in SlotOffers : ApplyToParty(h, r, offer)
  \/ \E q \in Player, accept \in BOOLEAN : ReviewApplication(h, q, accept)
  \/ LeaveParty(h)
  \/ \E ready \in BOOLEAN : SetReady(h, ready)
  \/ SelectRiftFloor(h)
  \/ StartExpedition(h)

Continuations(h) ==
  /\ calls[h] # Idle
  /\ \/ ApplyReserve(h) \/ CancelRefund(h)
     \/ RejectRefund(h) \/ AcceptCommit(h) \/ AcceptElsewhere(h)
     \/ LeaveRefund(h) \/ LeaveResume(h) \/ LeaveOthers(h) \/ Disband(h)
     \/ FloorRead(h)
     \/ StartRead(h) \/ StartReject(h) \/ StartPrepare(h) \/ StartCommit(h)

Next ==
  \/ \E h \in Handler : Handlers(h) \/ Continuations(h)
  \/ \E p \in Player : Disconnect(p) \/ Connect(p) \/ LateConnect(p)
  \/ \E r \in Room, p \in Player :
       \/ DisconnectRefund(r, p) \/ ReconnectExpiry(r, p)
       \/ \E by \in {"timer", "connect"} : ExpiredRemoval(r, p, by)
  \/ \E r \in Room : FinishExpedition(r) \/ FinalizeRoom(r)
  \/ Restart

Spec == Init /\ [][Next]_vars

(* The repository answers every call or fails it, and the timers fire.     *)
Fairness ==
  /\ \A h \in Handler : WF_vars(Continuations(h))
  /\ \A r \in Room, p \in Player :
       /\ WF_vars(DisconnectRefund(r, p))
       /\ WF_vars(ReconnectExpiry(r, p))
       /\ \A by \in {"timer", "connect"} : WF_vars(ExpiredRemoval(r, p, by))

FairSpec == Spec /\ Fairness

-----------------------------------------------------------------------------
(* Type correctness of the lobby: an open room has a leader, and a handler *)
(* waits with the arguments of its step.                                   *)
TypeOK ==
  /\ online \subseteq Player
  /\ rooms \in [Room -> RoomState]
  /\ \A r \in Room : Open(r) => rooms[r].leader \in Player
  /\ calls \in [Handler -> CallState]
  /\ refunds \subseteq Room \X Player
  /\ timers \subseteq Room \X Player
  /\ expiring \subseteq Room \X Player \X {"timer", "connect"}
  /\ failed \subseteq SeatOp
  /\ overlap \in [Room -> Nat]

PartySizeIsBounded ==
  \A r \in Room : Cardinality(rooms[r].members) <= MaxPartySize + overlap[r]

LeaderIsMember ==
  \A r \in Room : Open(r) =>
    \/ rooms[r].leader \in rooms[r].members
    \/ \E h \in Handler : calls[h].at = "disband" /\ calls[h].room = r
    \/ \E q \in Player : Op("disband", r, q) \in failed

(* The size of a party is checked before the acceptance is awaited and the *)
(* member is added after it: a party exceeds MAX_PARTY_SIZE at most by the *)
(* acceptances that overlapped another one, which takes two sockets of its *)
(* leader, and without them never.  Whoever leaves or expires, an open     *)
(* room is led by one of its members: only one that is being disbanded, or *)
(* whose disbanding failed, has none.                                      *)
PartyIsSound == PartySizeIsBounded /\ LeaderIsMember

(* START is all or nothing across memory and the repository, whatever      *)
(* acceptance, leave or second START overlaps it: a room is in a run only  *)
(* with its marker written, a room in the lobby has neither marker nor     *)
(* payment, and what was paid was paid to the leader the marker names by   *)
(* members it names.                                                       *)
StartIsMarked ==
  /\ \A r \in Room :
       /\ rooms[r].phase \in {"RUNNING", "FINISHED"} => marker[r] # NoMarker
       /\ rooms[r].phase = "LOBBY" => marker[r] = NoMarker
  /\ \A s \in Slots!Used : slots[s].status = "SETTLED" =>
       LET m == marker[slots[s].room]
       IN  m # NoMarker /\ slots[s].leader = m.leader /\ slots[s].applicant \in m.members

(* Every repository transaction the lobby makes is one of PartySlots: what *)
(* is proved of the reservations there holds under all these handlers.     *)
RefinesPartySlots == Slots!Spec

(* Who answers for a live reservation of p in room r: the applicant list,  *)
(* the party, or a handler that is about to accept or refund it.           *)
Answerable(r, p) ==
  \/ p \in rooms[r].apps \cup rooms[r].members
  \/ <<r, p>> \in refunds
  \/ \E h \in Handler :
       \/ /\ calls[h].at \in {"cancel.refund", "reject.refund", "accept.commit"}
          /\ calls[h].room = r /\ calls[h].who = p
       \/ calls[h].at = "accept.elsewhere" /\ calls[h].who = p /\ calls[h].todo = r

(* A call about the seat of p in r failed, or its refund was already done. *)
SeatFailed(r, p) == \E reason \in ReasonKinds : Op(reason, r, p) \in failed
SeatRefunded(r, p) ==
  \E reason \in ReasonKinds : Slots!RefundKey(p, Op(reason, r, p)) \in operations

(* No coins are held for a seat nobody answers for: what the tests of      *)
(* EconomyService promise before START.  The code does not keep it.        *)
HeldCoinsHaveAnOwner ==
  \A s \in SlotId : Slots!Live(s) => Answerable(slots[s].room, slots[s].applicant)

(* What it keeps: while the room is in the lobby, under every interleaving *)
(* of applications, reviews, leaves, disconnects and loops over the        *)
(* applicants, a seat loses its owner only with a repository call that     *)
(* failed, or when it is reserved after a refund under the same key.       *)
LobbyCoinsAreAnswered ==
  \A s \in SlotId : Slots!Live(s) =>
    LET r == slots[s].room
        p == slots[s].applicant
    IN  rooms[r].phase = "LOBBY" /\ ~ SeatFailed(r, p) /\ ~ SeatRefunded(r, p)
          => Answerable(r, p)

NobodyApplies == \A h \in Handler : calls[h].at # "apply.reserve"

(* Every message handler returns, none waits for another, once no more     *)
(* applications come in: the loops over the applicants of a disbanded or   *)
(* starting room go on as long as applicants enter.                        *)
HandlersReturn ==
  <>[]NobodyApplies => \A h \in Handler : calls[h] # Idle ~> calls[h] = Idle

AwayMemberIsRemoved ==
  \A r \in Room, p \in Player :
    rooms[r].phase = "LOBBY" /\ p \in rooms[r].members \cap rooms[r].away
      ~> \/ p \notin rooms[r].members \cap rooms[r].away
         \/ rooms[r].phase # "LOBBY" \/ Op("expired", r, p) \in failed

EmptyRoomIsDeleted ==
  <>[]NobodyApplies => \A r \in Room :
    rooms[r].phase # "UNUSED" /\ rooms[r].members = {}
      ~> rooms[r].phase = "CLOSED" \/ \E q \in Player : Op("disband", r, q) \in failed


=============================================================================
