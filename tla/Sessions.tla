------------------------------ MODULE Sessions ------------------------------
(***************************************************************************)
(* Login sessions and the WebSocket connections opened with them: what     *)
(* AuthService keeps in the AuthSession table, what attachWebSocket keeps  *)
(* per socket and the `peers` map of RoomManager.  An account has at most  *)
(* one character, so the account stands for the player.                    *)
(*                                                                         *)
(* A login's transaction runs at Read Committed and takes no lock, so two  *)
(* logins of one account interleave between its read and its writes.  The  *)
(* messages of one socket are handled one after the other; its 'close'     *)
(* event is not part of that queue and may come between any two steps.     *)
(***************************************************************************)
EXTENDS Integers, FiniteSets

CONSTANTS
  Account,       \* accounts, each with at most one character
  Connection,    \* WebSocket connections
  Request,       \* login requests that can be under way at once
  None,
  MaxSessions,   \* config.maxSessionsPerAccount
  Ttl,           \* config.sessionTtlSeconds
  MaxTime,       \* bound: ticks of the clock
  MaxIssued      \* bound: sessions ever issued

ASSUME SessionsAssumption ==
  /\ MaxSessions \in Nat \ {0} /\ Ttl \in Nat \ {0}
  /\ MaxTime \in Nat /\ MaxIssued \in Nat
  /\ IsFiniteSet(Request) /\ None \notin Account \cup Connection

VARIABLES
  time,
  sessions,      \* the AuthSession rows; ids are in the order of creation
  issued,        \* sessions issued so far
  logins,        \* the login transactions under way
  characters,    \* accounts that have a character
  sockets,       \* the state each connection's closure keeps
  peers,         \* RoomManager.peers: the connection a player is reached on
  shuttingDown   \* the process was told to end

server == <<sockets, peers, shuttingDown>>
vars == <<time, sessions, issued, logins, characters, server>>

Session == [id : Nat \ {0}, account : Account, expiresAt : Nat, revoked : BOOLEAN]

Idle == [account |-> None]
Free == [stage |-> "free", account |-> None, open |-> FALSE, closing |-> FALSE]

Init ==
  /\ time = 0 /\ sessions = {} /\ issued = 0
  /\ logins = [r \in Request |-> Idle]
  /\ characters = {}
  /\ sockets = [c \in Connection |-> Free]
  /\ peers = [a \in Account |-> None] /\ shuttingDown = FALSE

Ended(s, at) == s.revoked \/ s.expiresAt <= at
Live == {s \in sessions : ~Ended(s, time)}
LiveOf(a) == {s \in Live : s.account = a}
Ids(rows) == {s.id : s \in rows}

\* The place of a session among the live ones, the latest first.
PlaceOf(s, live) == Cardinality({t \in live : t.id >= s.id})

\* Wrong on purpose: without a place for the new session.
OverflowAfterwards(live) == Ids({s \in live : PlaceOf(s, live) > MaxSessions})

\* The sessions a login revokes to make room: the oldest of the live ones.
Overflow(live) == Ids({s \in live : PlaceOf(s, live) >= MaxSessions})

-----------------------------------------------------------------------------
(* AuthService *)

\* issueSession up to its reads: the rows it deletes and those it will revoke.
ReadActive(r, a) ==
  /\ logins[r] = Idle
  /\ issued + Cardinality({q \in Request : logins[q] # Idle}) < MaxIssued
  /\ logins' = [logins EXCEPT ![r] =
       [account |-> a, at |-> time, doomed |-> Overflow(LiveOf(a)),
        dropped |-> Ids({s \in sessions \ Live : s.account = a})]]
  /\ UNCHANGED <<time, sessions, issued, characters, server>>

\* The rest of issueSession, with its commit.
CommitLogin(r) ==
  LET login == logins[r]
      kept == {s \in sessions : s.id \notin login.dropped}
      revoked == {[s EXCEPT !.revoked = @ \/ s.id \in login.doomed] : s \in kept}
      new == [id |-> issued + 1, account |-> login.account,
              expiresAt |-> login.at + Ttl, revoked |-> FALSE]
  IN  /\ login # Idle
      /\ issued' = issued + 1
      /\ sessions' = revoked \cup {new}
      /\ logins' = [logins EXCEPT ![r] = Idle]
      /\ UNCHANGED <<time, characters, server>>

\* validateSession: the account of a live session.
Valid(s) == ~Ended(s, time)

\* POST /auth/logout: revokeSession.  Sockets opened with the session stay open.
Logout(s) ==
  /\ s \in sessions /\ ~s.revoked
  /\ sessions' = (sessions \ {s}) \cup {[s EXCEPT !.revoked = TRUE]}
  /\ UNCHANGED <<time, issued, logins, characters, server>>

Cleanup ==
  /\ Live # sessions
  /\ sessions' = Live
  /\ UNCHANGED <<time, issued, logins, characters, server>>

\* POST /auth/character: authenticateAccount with a setup; a second one finds
\* the character and changes nothing.
CreateCharacter(s) ==
  /\ Valid(s) /\ s.account \notin characters
  /\ characters' = characters \cup {s.account}
  /\ UNCHANGED <<time, sessions, issued, logins, server>>

Tick ==
  /\ time < MaxTime /\ time' = time + 1
  /\ UNCHANGED <<sessions, issued, logins, characters, server>>

-----------------------------------------------------------------------------
(* attachWebSocket and RoomManager.connectResolved *)

AccountsUnchanged == UNCHANGED <<time, sessions, issued, logins, characters>>
SocketStep == AccountsUnchanged /\ UNCHANGED shuttingDown

\* The upgrade of a request and the 'connection' event.
Connect(c) ==
  /\ ~shuttingDown /\ sockets[c].stage = "free"
  /\ sockets' = [sockets EXCEPT ![c] = [Free EXCEPT !.stage = "new", !.open = TRUE]]
  /\ SocketStep /\ UNCHANGED peers

\* Wrong on purpose: a session is enough.
WithoutCharacter(s) == Valid(s)

\* The session is live and its account has a character.
MayConnect(s) == Valid(s) /\ s.account \in characters

\* HELLO up to the await of the account.  A refused session is an ERROR only.
Hello(c, s) ==
  /\ sockets[c].open /\ sockets[c].stage = "new"
  /\ MayConnect(s)
  /\ sockets' = [sockets EXCEPT ![c].stage = "validated", ![c].account = s.account]
  /\ SocketStep /\ UNCHANGED peers

\* The grace period is over while the run goes on: connect returns null.
Refuse(c) ==
  /\ sockets[c].stage = "validated"
  /\ sockets' = [sockets EXCEPT ![c].stage = "new", ![c].closing = @ \/ sockets[c].open]
  /\ SocketStep /\ UNCHANGED peers

\* The peer another connection of the player is replaced on is closed.
Replaced(previous, c) ==
  IF previous \in Connection \ {c}
  THEN [sockets EXCEPT ![previous].closing = sockets[previous].open, ![c].stage = "greeting"]
  ELSE [sockets EXCEPT ![c].stage = "greeting"]

\* The part of connectResolved between its awaits; nothing asks whether the
\* socket is still open.
Register(c) ==
  LET a == sockets[c].account
  IN  /\ sockets[c].stage = "validated"
      /\ sockets' = Replaced(peers[a], c)
      /\ peers' = [peers EXCEPT ![a] = c]
      /\ SocketStep

\* connect returns: from here the 'close' event knows the player.
Welcome(c) ==
  /\ sockets[c].stage = "greeting"
  /\ sockets' = [sockets EXCEPT ![c].stage = "ready"]
  /\ SocketStep /\ UNCHANGED peers

\* An awaited read fails: the client gets INTERNAL_ERROR and may say HELLO
\* again, and a peer already registered stays.
ConnectFails(c) ==
  /\ sockets[c].stage \in {"validated", "greeting"}
  /\ sockets' = [sockets EXCEPT ![c].stage = "new"]
  /\ SocketStep /\ UNCHANGED peers

\* The server starts a close: no HELLO in time, a flood or a large message.
Reject(c) ==
  /\ sockets[c].open /\ ~sockets[c].closing
  /\ sockets' = [sockets EXCEPT ![c].closing = TRUE]
  /\ SocketStep /\ UNCHANGED peers

\* Wrong on purpose: whichever connection the player is on now.
DisconnectedAnyway(a, c) == [peers EXCEPT ![a] = None]

\* RoomManager.disconnect, of the peers map.
Disconnected(a, c) == IF peers[a] = c THEN [peers EXCEPT ![a] = None] ELSE peers

\* The 'close' event: the client left, the heartbeat failed or a close ended.
Close(c) ==
  /\ sockets[c].open
  /\ sockets' = [sockets EXCEPT ![c].open = FALSE, ![c].closing = FALSE]
  /\ peers' = IF sockets[c].stage = "ready" THEN Disconnected(sockets[c].account, c) ELSE peers
  /\ SocketStep

\* A closed connection nobody refers to is collected; its slot is used again.
Forget(c) ==
  /\ ~sockets[c].open /\ sockets[c].stage \in {"new", "ready"}
  /\ \A a \in Account : peers[a] # c
  /\ sockets' = [sockets EXCEPT ![c] = Free]
  /\ SocketStep /\ UNCHANGED peers

\* SIGTERM: no connection is accepted any more and every open one is closed,
\* while the messages already queued are still handled.
Shutdown ==
  /\ ~shuttingDown /\ shuttingDown' = TRUE
  /\ sockets' = [c \in Connection |-> [sockets[c] EXCEPT !.closing = sockets[c].open]]
  /\ AccountsUnchanged /\ UNCHANGED peers

\* The process ends, by itself or in a crash, and starts again: what is stored
\* stays, but for the sessions the startup cleans up.
Restart ==
  /\ sessions' = Live
  /\ logins' = [r \in Request |-> Idle]
  /\ sockets' = [c \in Connection |-> Free]
  /\ peers' = [a \in Account |-> None]
  /\ shuttingDown' = FALSE
  /\ UNCHANGED <<time, issued, characters>>

Next ==
  \/ \E r \in Request, a \in Account : ReadActive(r, a)
  \/ \E r \in Request : CommitLogin(r)
  \/ \E s \in sessions : Logout(s) \/ CreateCharacter(s)
  \/ Cleanup
  \/ Tick
  \/ Shutdown
  \/ Restart
  \/ \E c \in Connection, s \in sessions : Hello(c, s)
  \/ \E c \in Connection :
       \/ Connect(c) \/ Refuse(c) \/ Register(c) \/ Welcome(c)
       \/ ConnectFails(c) \/ Reject(c) \/ Close(c) \/ Forget(c)

Spec == Init /\ [][Next]_vars

-----------------------------------------------------------------------------
Stages == {"free", "new", "validated", "greeting", "ready"}
Socket == [stage : Stages, account : Account \cup {None}, open : BOOLEAN, closing : BOOLEAN]
Login == [account : Account, at : Nat, doomed : SUBSET Nat, dropped : SUBSET Nat]

\* The values the state takes; the ids of rows are distinct, and only a
\* connection that said HELLO with a live session has an account.
TypeOK ==
  /\ time \in Nat /\ issued \in Nat
  /\ sessions \subseteq Session
  /\ \A s, t \in sessions : s.id = t.id => s = t
  /\ \A s \in sessions : s.id <= issued
  /\ logins \in [Request -> Login \cup {Idle}]
  /\ characters \subseteq Account
  /\ sockets \in [Connection -> Socket]
  /\ peers \in [Account -> Connection \cup {None}] /\ shuttingDown \in BOOLEAN
  /\ \A c \in Connection :
       /\ sockets[c].closing => sockets[c].open
       /\ sockets[c].stage \in {"validated", "greeting", "ready"} => sockets[c].account \in characters

\* A player who was welcomed on a connection that is open and not being closed
\* is reached on that very connection: the late 'close' event of the connection
\* it replaced, a second HELLO and a failed greeting do not take it off.
\* (connectResolved, disconnect and the 'close' handler.)
WelcomedIsReached ==
  \A c \in Connection :
    LET s == sockets[c]
    IN  s.open /\ s.stage = "ready" /\ ~s.closing => peers[s.account] = c

\* An account has no more live sessions than the limit and one for each further
\* login that can run at the same time: issueSession does not lock the account,
\* so overlapping logins revoke the same rows, but the next one makes up for it.
SessionsAreLimited ==
  \A a \in Account : Cardinality(LiveOf(a)) <= MaxSessions + Cardinality(Request) - 1
=============================================================================
