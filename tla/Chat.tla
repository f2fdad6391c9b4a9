-------------------------------- MODULE Chat --------------------------------
(***************************************************************************)
(* The persistent chat of ChatService, composed with the guilds and blocks *)
(* it asks for permission.  SEND_CHAT looks for the message of its         *)
(* operation id and consumes the rate limit before its transaction; a      *)
(* history is a snapshot, and a later transaction marks it read at the     *)
(* time of that transaction.  The calls of one player may overlap: those   *)
(* of a socket that was replaced are still under way.                      *)
(*                                                                         *)
(* Messages are a set: what is old and what is late is decided by their    *)
(* times, and by their random ids where those are the same.  A             *)
(* conversation is its pair of players, of which there is one.  Texts,     *)
(* names and cursors are left out, and what is pushed to the recipients.   *)
(***************************************************************************)
EXTENDS Guild

CONSTANTS
  OperationId,   \* operation ids a client draws for its messages
  Socket,        \* the sockets of a player that may have calls under way
  RateLimit,     \* CHAT_RATE_LIMIT_MS, a time per channel
  Retention,     \* GLOBAL_CHAT_RETENTION
  PageSize       \* CHAT_HISTORY_PAGE_SIZE

VARIABLES
  friendRequests, friendships, blocks,
  messages,      \* chatMessages
  operations,    \* the operation keys of SEND_CHAT
  lastSent,      \* the limiter's time of each player and channel
  reads,         \* chatReads: lastReadAt of each player and channel key
  sends,         \* the sends before their transaction
  histories,     \* the histories read but not yet marked
  seen,          \* the messages each player was shown
  time

INSTANCE Friends

chatVars == <<messages, operations, lastSent, reads, sends, histories, seen, time>>
relations == <<friendRequests, friendships, blocks>>
vars == <<guildVars, relations, chatVars>>

Channel == {"GLOBAL", "GUILD", "PRIVATE"}
Destination == {"GLOBAL", "GUILD"} \cup Player
ChannelOf(to) == IF to \in Player THEN "PRIVATE" ELSE to
Global == <<"GLOBAL">>
GuildKey(g) == <<"GUILD", g>>
PrivateKey(p, q) == <<"PRIVATE", {p, q}>>
Key ==
  {Global} \cup {GuildKey(g) : g \in GuildId}
    \cup {PrivateKey(pair[1], pair[2]) : pair \in {x \in Player \X Player : x[1] # x[2]}}
MessageId == Player \X OperationId
Message == [id : MessageId, key : Key, at : Nat]

ASSUME ChatAssumption ==
  RateLimit \in [Channel -> Nat] /\ Retention \in Nat \ {0} /\ PageSize \in Nat \ {0}

Known(id) == \E m \in messages : m.id = id
MessagesOf(key) == {m \in messages : m.key = key}
Reads(p, key) ==
  CASE key[1] = "GLOBAL" -> TRUE
    [] key[1] = "GUILD" -> InGuild(p, key[2])
    [] key[1] = "PRIVATE" -> p \in key[2] /\ MessagesOf(key) # {}

(* Bug: the transaction does not know its operation.                       *)
NeverApplied(id) == FALSE

(* Bug: a history is read up to its latest message when it was taken.      *)
LatestShown(h) ==
  LET times == {m.at : m \in {n \in messages : n.id \in h.shown}}
  IN IF times = {} THEN 0 ELSE CHOOSE t \in times : \A u \in times : u <= t

-----------------------------------------------------------------------------
ChatInit ==
  /\ messages = {} /\ operations = {}
  /\ lastSent = [p \in Player |-> [c \in Channel |-> -RateLimit[c]]]
  /\ reads = [p \in Player |-> [k \in Key |-> 0]]
  /\ sends = {} /\ histories = {}
  /\ seen = [p \in Player |-> {}]
  /\ time = 1

(* A retry of a stored message gets it back and is no step.                *)
Send(p, op, to, socket) ==
  LET channel == ChannelOf(to) IN
  /\ ~ Known(<<p, op>>)
  /\ time - lastSent[p][channel] >= RateLimit[channel]
  /\ lastSent' = [lastSent EXCEPT ![p][channel] = time]
  /\ sends' = sends \cup {[id |-> <<p, op>>, to |-> to, socket |-> socket]}
  /\ UNCHANGED <<messages, operations, reads, histories, seen, time>>

KeyOf(p, to) ==
  CASE to = "GLOBAL" -> Global
    [] to = "GUILD" -> GuildKey(GuildOf(p))
    [] OTHER -> PrivateKey(p, to)

Allowed(p, to) ==
  /\ to = "GUILD" => member[p] # NoGuild
  /\ to \in Player => p # to /\ ~ Blocked(p, to)

(* The n oldest of some messages, in any order where the times are equal.  *)
Oldest(some, n) ==
  {old \in SUBSET some :
     Cardinality(old) = n /\ \A m \in old, l \in some \ old : m.at <= l.at}
Excess(n, limit) == IF n > limit THEN n - limit ELSE 0

(* The memory repository drops the oldest global messages beyond the       *)
(* retention; persistSocial only ever adds messages.                       *)
Dropped(key) ==
  {{}} \cup
    IF key = Global
    THEN Oldest(MessagesOf(Global), Excess(Cardinality(MessagesOf(Global)) + 1, Retention))
    ELSE {}

Applied(id) == id \in operations

(* What the rate limit has consumed is spent, whatever comes of the send.  *)
StoreMessage(s) ==
  LET p == s.id[1] IN
  /\ s \in sends /\ sends' = sends \ {s}
  /\ IF Allowed(p, s.to) /\ ~ Applied(s.id)
     THEN /\ operations' = operations \cup {s.id}
          /\ \E old \in Dropped(KeyOf(p, s.to)) :
               messages' = (messages \ old)
                 \cup {[id |-> s.id, key |-> KeyOf(p, s.to), at |-> time]}
     ELSE UNCHANGED <<operations, messages>>
  /\ UNCHANGED <<lastSent, reads, histories, seen, time>>

(* The latest messages of a channel, as many as go on a page.              *)
Pages(key) ==
  LET all == MessagesOf(key)
  IN {all \ old : old \in Oldest(all, Excess(Cardinality(all), PageSize))}

TakeHistory(p, key) ==
  /\ Reads(p, key)
  /\ \E page \in Pages(key) :
       histories' = histories \cup {[player |-> p, key |-> key, shown |-> {m.id : m \in page}]}
  /\ UNCHANGED <<messages, operations, lastSent, reads, sends, seen, time>>

ReadAt(h) == time

MarkRead(h) ==
  /\ h \in histories /\ histories' = histories \ {h}
  /\ reads' = [reads EXCEPT ![h.player][h.key] = ReadAt(h)]
  /\ seen' = [seen EXCEPT ![h.player] = @ \cup h.shown]
  /\ UNCHANGED <<messages, operations, lastSent, sends, time>>

Tick == time' = time + 1 /\ UNCHANGED <<messages, operations, lastSent, reads, sends, histories, seen>>

(* The server's process ends: its calls and the limiter's memory are gone. *)
Restart ==
  /\ sends' = {} /\ histories' = {}
  /\ lastSent' = [p \in Player |-> [c \in Channel |-> -RateLimit[c]]]
  /\ UNCHANGED <<messages, operations, reads, seen, time>>

ChatNext ==
  \/ \E p \in Player, op \in OperationId, to \in Destination, socket \in Socket :
       Send(p, op, to, socket)
  \/ \E s \in sends : StoreMessage(s)
  \/ \E p \in Player, key \in Key : TakeHistory(p, key)
  \/ \E h \in histories : MarkRead(h)
  \/ Tick
  \/ Restart

-----------------------------------------------------------------------------
Init == GuildInit /\ FriendsInit /\ ChatInit

(* A guild takes its messages with it when it is disbanded.                *)
GuildStep ==
  /\ GuildNext
  /\ messages' = {m \in messages : m.key[1] = "GUILD" => leaderOf'[m.key[2]] # NoPlayer}
  /\ UNCHANGED <<relations, operations, lastSent, reads, sends, histories, seen, time>>

Next ==
  \/ GuildStep
  \/ FriendsNext /\ UNCHANGED <<guildVars, chatVars>>
  \/ ChatNext /\ UNCHANGED <<guildVars, relations>>

Spec == Init /\ [][Next]_vars

-----------------------------------------------------------------------------
(* Type correctness of all three components.                               *)
TypeOK ==
  /\ GuildTypeOK /\ FriendsTypeOK
  /\ messages \subseteq Message /\ operations \subseteq MessageId
  /\ lastSent \in [Player -> [Channel -> Int]]
  /\ reads \in [Player -> [Key -> Nat]]
  /\ sends \subseteq [id : MessageId, to : Destination, socket : Socket]
  /\ histories \subseteq [player : Player, key : Key, shown : SUBSET MessageId]
  /\ seen \in [Player -> SUBSET MessageId]
  /\ time \in Nat

(* A message is stored once, even when its client lost the answer and      *)
(* sends it again over a new socket while the first call is under way.     *)
SentOnce == \A m, n \in messages : m.id = n.id => m = n

(* A message that was shown is never counted as unread, whichever of the   *)
(* reader's overlapping histories is marked last.                          *)
ShownStaysRead ==
  \A p \in Player : \A m \in messages : m.id \in seen[p] => m.at <= reads[p][m.key]

=============================================================================
