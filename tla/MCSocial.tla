------------------------------ MODULE MCSocial ------------------------------
(***************************************************************************)
(* Model checking of Chat, Guild and Friends together.                     *)
(***************************************************************************)
EXTENDS Chat, TLC

CONSTANTS alice, bob, carol, e1, e2, e3, g1, g2, op1, s1, s2, iron, ring, MaxTime, MaxRequests

MCPurse == [p \in Player |-> IF p = bob THEN 0 ELSE 1]
MCGrants == {{}, Right}
MCRateLimit == [GLOBAL |-> 2, GUILD |-> 1, PRIVATE |-> 1]
MCEntries ==
  [p \in Player |-> [e \in EntryId |->
     CASE p = alice /\ e = e1 -> [item |-> iron, quantity |-> 2]
       [] p = bob /\ e = e2 -> [item |-> ring, quantity |-> 1]
       [] OTHER -> NoEntry]]

ChatIsIdle ==
  /\ time = 1 /\ sends = {} /\ histories = {} /\ operations = {}
  /\ \A p \in Player, c \in Channel : lastSent[p][c] = -RateLimit[c]
  /\ \A p \in Player, k \in Key : reads[p][k] = 0
NoFriends == friendRequests = {} /\ friendships = {}
Requests == Cardinality(applications) + Cardinality(invites)
Changed == {g \in GuildId : granted[g] # DefaultRights}

(* The three components are explored one at a time, and the chat together  *)
(* with the membership of a guild and a block: requests, ranks and storage *)
(* are done with before somebody chats.                                    *)
Joining == carried = InitialEntries /\ Changed = {} /\ Requests <= MaxRequests
Storing ==
  /\ Cardinality(Guilds) <= 1 /\ Requests <= 1 /\ member[carol] = NoGuild
  /\ Requests = 1 => Changed = {} \/ carried = InitialEntries
  /\ \A g \in Changed : \E r \in {"OFFICER", "RECRUIT"}, rights \in Grants :
       granted[g] = [DefaultRights EXCEPT ![r] = rights]
GuildFocus == ChatIsIdle /\ NoFriends /\ blocks = {} /\ (Joining \/ Storing)
FriendsFocus == ChatIsIdle /\ Guilds = {} /\ carried = InitialEntries /\ purse = InitialPurse
Talk(id, to) ==
  \/ id[1] = bob /\ to \in {"GLOBAL", "GUILD", alice}
  \/ id[1] = carol /\ to = "GLOBAL"
TalkOver(channel) ==
  /\ \A s \in sends : Talk(s.id, s.to) /\ ChannelOf(s.to) = channel
  /\ \A h \in histories : h.player = alice /\ h.key[1] = channel
  /\ \A m \in messages : m.key[1] = channel
  /\ \A p \in Player, c \in Channel \ {channel} : lastSent[p][c] = -RateLimit[c]
  /\ \A k \in Key : k[1] # channel => reads[alice][k] = 0
ChatFocus ==
  /\ NoFriends /\ blocks \subseteq {<<alice, bob>>} /\ Cardinality(Guilds) <= 1 /\ Requests = 0
  /\ carried = InitialEntries /\ Changed = {} /\ member[carol] = NoGuild
  /\ member[bob] # NoGuild => member[bob].rank # "OFFICER"
  /\ \A s \in sends : s.id[1] = carol => s.socket = s1
  /\ \/ purse = InitialPurse /\ TalkOver("PRIVATE")
     \/ purse = InitialPurse /\ blocks = {} /\ TalkOver("GLOBAL")
     \/ blocks = {} /\ TalkOver("GUILD")

Bound ==
  /\ GuildFocus \/ FriendsFocus \/ ChatFocus
  /\ time <= MaxTime /\ Cardinality(messages) <= 2
  /\ Cardinality(sends) <= 2 /\ Cardinality(histories) <= 2

Symmetry == Permutations(GuildId)

=============================================================================
