---------------------------- MODULE PlayerProofs ----------------------------
(***************************************************************************)
(* The player: how it is reached, and what it owns.                        *)
(*                                                                         *)
(* For every number of accounts, connections and login requests: a player  *)
(* who was welcomed on an open connection is reached on it, and however    *)
(* logins overlap, their number bounds the sessions that stay live.        *)
(*                                                                         *)
(* For every catalogue of items, recipes, Rifts and activities: what a     *)
(* profile holds is what the operations applied to it add up to, floors    *)
(* open in order, and a job is paid out once.  The profile is four parts   *)
(* with variables of their own (goods, Rifts, jobs, career); a step is     *)
(* about one of them, and a job's pay about two.                           *)
(***************************************************************************)
EXTENDS Sessions, PlayerState, FiniteSumsProofs


(* A connection that was registered is the player's peer, from then on and *)
(* not only once it is welcomed, as long as nobody is closing it.          *)
Registered ==
  \A c \in Connection :
    LET s == sockets[c]
    IN  s.open /\ s.stage \in {"greeting", "ready"} /\ ~s.closing => peers[s.account] = c

(* The parts of TypeOK about the rows and about the sockets.               *)
RowsOK ==
  /\ time \in Nat /\ issued \in Nat
  /\ sessions \subseteq Session
  /\ \A s, t \in sessions : s.id = t.id => s = t
  /\ \A s \in sessions : s.id <= issued
  /\ logins \in [Request -> Login \cup {Idle}]
  /\ characters \subseteq Account

SocketOK(s) ==
  /\ s \in Socket
  /\ s.closing => s.open
  /\ s.stage \in {"validated", "greeting", "ready"} => s.account \in characters

SocketsOK ==
  /\ sockets \in [Connection -> Socket]
  /\ peers \in [Account -> Connection \cup {None}] /\ shuttingDown \in BOOLEAN
  /\ \A c \in Connection : SocketOK(sockets[c])

LEMMA TypeParts == TypeOK <=> RowsOK /\ SocketsOK
BY DEF TypeOK, RowsOK, SocketsOK, SocketOK

LEMMA FreeSocket == SocketOK(Free) /\ Free \in Socket
BY DEF SocketOK, Free, Socket, Stages

-----------------------------------------------------------------------------
(* The rows: logins that overlap, logout, cleanup and the clock.           *)
LEMMA LiveRows == Live \subseteq sessions
BY DEF Live

LEMMA IdsAreNumbers ==
  ASSUME RowsOK, NEW rows \in SUBSET sessions
  PROVE  Ids(rows) \subseteq Nat
BY DEF Ids, RowsOK, Session

LEMMA ReadActiveRows ==
  ASSUME RowsOK, NEW r \in Request, NEW a \in Account, ReadActive(r, a)
  PROVE  RowsOK'
<1>1. Overflow(LiveOf(a)) \subseteq Nat
  BY LiveRows, IdsAreNumbers DEF Overflow, LiveOf
<1>2. Ids({s \in sessions \ Live : s.account = a}) \subseteq Nat
  BY IdsAreNumbers
<1>3. [account |-> a, at |-> time, doomed |-> Overflow(LiveOf(a)),
       dropped |-> Ids({s \in sessions \ Live : s.account = a})] \in Login
  BY <1>1, <1>2 DEF Login, RowsOK
<1> QED
  BY <1>3 DEF ReadActive, RowsOK

LEMMA CommitLoginRows ==
  ASSUME RowsOK, NEW r \in Request, CommitLogin(r)
  PROVE  RowsOK'
<1> DEFINE login == logins[r]
           kept == {s \in sessions : s.id \notin login.dropped}
           Revoked(s) == [s EXCEPT !.revoked = @ \/ s.id \in login.doomed]
           new == [id |-> issued + 1, account |-> login.account,
                   expiresAt |-> login.at + Ttl, revoked |-> FALSE]
<1>1. login \in Login
  BY DEF CommitLogin, RowsOK
<1>2. new \in Session
  BY <1>1, SessionsAssumption DEF Login, Session, RowsOK
<1>3. ASSUME NEW s \in kept
      PROVE  /\ Revoked(s) \in Session /\ Revoked(s).id = s.id
             /\ s.id <= issued /\ s.id \in Nat
  BY DEF RowsOK, Session
<1>4. sessions' = {Revoked(s) : s \in kept} \cup {new} /\ issued' = issued + 1
  BY DEF CommitLogin
<1>5. issued \in Nat /\ new.id = issued + 1
  BY DEF RowsOK
<1>6. \A s, t \in kept : s.id = t.id => s = t
  BY DEF RowsOK
<1> HIDE DEF new, kept, Revoked, login
<1>7. sessions' \subseteq Session /\ \A s \in sessions' : s.id <= issued'
  BY <1>2, <1>3, <1>4, <1>5
<1>8. \A s, t \in sessions' : s.id = t.id => s = t
  BY <1>3, <1>4, <1>5, <1>6
<1> QED
  BY <1>7, <1>8, <1>5, <1>4 DEF CommitLogin, RowsOK

LEMMA LogoutRows ==
  ASSUME RowsOK, NEW s \in sessions, Logout(s)
  PROVE  RowsOK'
<1> DEFINE t == [s EXCEPT !.revoked = TRUE]
<1>1. s \in Session /\ t \in Session /\ t.id = s.id
  BY DEF RowsOK, Session
<1>2. sessions' = (sessions \ {s}) \cup {t}
  BY DEF Logout
<1> HIDE DEF t
<1> QED
  BY <1>1, <1>2 DEF Logout, RowsOK

-----------------------------------------------------------------------------
(* A step that changes one socket and leaves the peers alone.              *)
LEMMA OneSocketSteps ==
  ASSUME SocketsOK, NEW c \in Connection, NEW s, SocketOK(s),
         sockets' = [sockets EXCEPT ![c] = s], UNCHANGED <<peers, shuttingDown, characters>>
  PROVE  SocketsOK'
BY DEF SocketsOK, SocketOK

(* It keeps the registered connections where s is none, or was one.        *)
LEMMA OneSocketRegistered ==
  ASSUME SocketsOK, Registered, NEW c \in Connection, NEW s,
         sockets' = [sockets EXCEPT ![c] = s], UNCHANGED peers,
         s.open /\ s.stage \in {"greeting", "ready"} /\ ~s.closing =>
           /\ sockets[c].open /\ sockets[c].stage \in {"greeting", "ready"} /\ ~sockets[c].closing
           /\ s.account = sockets[c].account
  PROVE  Registered'
BY DEF SocketsOK, Registered

-----------------------------------------------------------------------------
(* The steps that touch one socket only.  None of them registers it.       *)
LEMMA OneSocket ==
  ASSUME SocketsOK, Registered, NEW c \in Connection, NEW s, SocketOK(s),
         sockets' = [sockets EXCEPT ![c] = s], UNCHANGED <<peers, shuttingDown, characters>>,
         s.open /\ s.stage \in {"greeting", "ready"} /\ ~s.closing =>
           /\ sockets[c].open /\ sockets[c].stage \in {"greeting", "ready"} /\ ~sockets[c].closing
           /\ s.account = sockets[c].account
  PROVE  SocketsOK' /\ Registered'
BY OneSocketSteps, OneSocketRegistered

LEMMA SocketSteps ==
  ASSUME SocketsOK, Registered, NEW c \in Connection,
         Connect(c) \/ Refuse(c) \/ Welcome(c) \/ ConnectFails(c) \/ Reject(c) \/ Forget(c)
  PROVE  SocketsOK' /\ Registered'
<1> DEFINE old == sockets[c]
<1>0. /\ sockets \in [Connection -> Socket] /\ SocketOK(old)
      /\ old = [stage |-> old.stage, account |-> old.account, open |-> old.open, closing |-> old.closing]
  BY DEF SocketsOK, Socket
<1>1. CASE Connect(c)
  <2> DEFINE new == [Free EXCEPT !.stage = "new", !.open = TRUE]
  <2>1. SocketOK(new) /\ new.stage = "new"
    BY DEF SocketOK, Socket, Stages, Free
  <2>2. sockets' = [sockets EXCEPT ![c] = new] /\ UNCHANGED <<peers, shuttingDown, characters>>
    BY <1>1 DEF Connect, SocketStep, AccountsUnchanged
  <2> HIDE DEF new
  <2> QED  BY <2>1, <2>2, OneSocket
<1>2. CASE Refuse(c)
  <2> DEFINE new == [old EXCEPT !.stage = "new", !.closing = @ \/ old.open]
  <2>1. SocketOK(new) /\ new.stage = "new"
    BY <1>0, <1>2 DEF SocketOK, Socket, Stages, Refuse
  <2>2. sockets' = [sockets EXCEPT ![c] = new] /\ UNCHANGED <<peers, shuttingDown, characters>>
    BY <1>0, <1>2 DEF Refuse, SocketStep, AccountsUnchanged
  <2> HIDE DEF new
  <2> QED  BY <2>1, <2>2, OneSocket
<1>3. CASE Welcome(c)
  <2> DEFINE new == [old EXCEPT !.stage = "ready"]
  <2>1. /\ SocketOK(new) /\ new.account = old.account /\ old.stage = "greeting"
        /\ new.open = old.open /\ new.closing = old.closing
    BY <1>0, <1>3 DEF SocketOK, Socket, Stages, Welcome
  <2>2. sockets' = [sockets EXCEPT ![c] = new] /\ UNCHANGED <<peers, shuttingDown, characters>>
    BY <1>0, <1>3 DEF Welcome, SocketStep, AccountsUnchanged
  <2> HIDE DEF new
  <2> QED  BY <2>1, <2>2, OneSocket
<1>4. CASE ConnectFails(c)
  <2> DEFINE new == [old EXCEPT !.stage = "new"]
  <2>1. SocketOK(new) /\ new.stage = "new"
    BY <1>0, <1>4 DEF SocketOK, Socket, Stages, ConnectFails
  <2>2. sockets' = [sockets EXCEPT ![c] = new] /\ UNCHANGED <<peers, shuttingDown, characters>>
    BY <1>0, <1>4 DEF ConnectFails, SocketStep, AccountsUnchanged
  <2> HIDE DEF new
  <2> QED  BY <2>1, <2>2, OneSocket
<1>5. CASE Reject(c)
  <2> DEFINE new == [old EXCEPT !.closing = TRUE]
  <2>1. SocketOK(new) /\ new.closing
    BY <1>0, <1>5 DEF SocketOK, Socket, Stages, Reject
  <2>2. sockets' = [sockets EXCEPT ![c] = new] /\ UNCHANGED <<peers, shuttingDown, characters>>
    BY <1>0, <1>5 DEF Reject, SocketStep, AccountsUnchanged
  <2> HIDE DEF new
  <2> QED  BY <2>1, <2>2, OneSocket
<1>6. CASE Forget(c)
  <2>1. sockets' = [sockets EXCEPT ![c] = Free] /\ UNCHANGED <<peers, shuttingDown, characters>>
    BY <1>6 DEF Forget, SocketStep, AccountsUnchanged
  <2>2. Free.stage = "free"
    BY DEF Free
  <2> QED  BY <2>1, <2>2, FreeSocket, OneSocket
<1> QED
  BY <1>1, <1>2, <1>3, <1>4, <1>5, <1>6

LEMMA HelloStep ==
  ASSUME RowsOK, SocketsOK, Registered, NEW c \in Connection, NEW s \in sessions, Hello(c, s)
  PROVE  SocketsOK' /\ Registered'
<1> DEFINE old == sockets[c]
           new == [old EXCEPT !.stage = "validated", !.account = s.account]
<1>1. SocketOK(old) /\ old \in Socket /\ s.account \in Account /\ s.account \in characters
  BY DEF SocketsOK, RowsOK, Session, Hello, MayConnect
<1>2. SocketOK(new) /\ new.stage = "validated"
  BY <1>1 DEF SocketOK, Socket, Stages
<1>3. sockets' = [sockets EXCEPT ![c] = new] /\ UNCHANGED <<peers, shuttingDown, characters>>
  BY DEF Hello, SocketStep, AccountsUnchanged, SocketsOK
<1> HIDE DEF new
<1> QED
  BY <1>2, <1>3, OneSocket

-----------------------------------------------------------------------------
(* Registration closes the connection the player was reached on before, so *)
(* the new one is the only registered connection of the player.            *)
LEMMA RegisterStep ==
  ASSUME RowsOK, SocketsOK, Registered, NEW c \in Connection, Register(c)
  PROVE  SocketsOK' /\ Registered'
<1> DEFINE a == sockets[c].account
           previous == peers[a]
<1>1. /\ sockets \in [Connection -> Socket] /\ peers \in [Account -> Connection \cup {None}]
      /\ \A d \in Connection : SocketOK(sockets[d])
  BY DEF SocketsOK
<1>2. a \in Account /\ a \in characters
  BY <1>1 DEF Register, SocketOK, RowsOK
<1>3. sockets' = Replaced(previous, c) /\ peers' = [peers EXCEPT ![a] = c]
  BY DEF Register
<1>4. UNCHANGED <<shuttingDown, characters>>
  BY DEF Register, SocketStep, AccountsUnchanged
<1>5. sockets' \in [Connection -> Socket] /\ sockets'[c] = [sockets[c] EXCEPT !.stage = "greeting"]
  BY <1>1, <1>3 DEF Replaced, Socket, Stages
<1>6. ASSUME NEW d \in Connection \ {c}
      PROVE  sockets'[d] = IF d = previous THEN [sockets[d] EXCEPT !.closing = sockets[d].open]
                                          ELSE sockets[d]
  BY <1>1, <1>3 DEF Replaced
<1>7. SocketsOK'
  <2>1. peers' \in [Account -> Connection \cup {None}] /\ shuttingDown' \in BOOLEAN
    BY <1>1, <1>3, <1>4 DEF SocketsOK
  <2>2. SocketOK(sockets[c])' /\ \A d \in Connection \ {c} : SocketOK(sockets[d])'
    BY <1>1, <1>2, <1>4, <1>5, <1>6 DEF SocketOK, Socket, Stages
  <2> QED  BY <1>5, <2>1, <2>2 DEF SocketsOK
<1>8. Registered'
  <2> SUFFICES ASSUME NEW d \in Connection, sockets'[d].open,
                      sockets'[d].stage \in {"greeting", "ready"}, ~sockets'[d].closing
               PROVE  peers'[sockets'[d].account] = d
    BY DEF Registered
  <2>1. CASE d = c
    BY <2>1, <1>1, <1>2, <1>3, <1>5 DEF Socket
  <2>2. CASE d # c
    <3>0. sockets[d] \in Socket /\ d \in Connection \ {c}
      BY <2>2, <1>1
    <3>1. d # previous /\ sockets'[d] = sockets[d]
      <4>1. CASE d = previous
        <5>1. sockets'[d] = [sockets[d] EXCEPT !.closing = sockets[d].open]
          BY <3>0, <4>1, <1>6
        <5>2. sockets'[d].closing = sockets[d].open /\ sockets'[d].open = sockets[d].open
          BY <3>0, <5>1 DEF Socket
        <5> QED  BY <5>2
      <4>2. CASE d # previous
        BY <3>0, <4>2, <1>6
      <4> QED  BY <4>1, <4>2
    <3>2. peers[sockets[d].account] = d /\ sockets[d].account \in Account
      BY <3>1, <1>1 DEF Registered, SocketOK, RowsOK
    <3> QED  BY <3>1, <3>2, <1>1, <1>3
  <2> QED  BY <2>1, <2>2
<1> QED
  BY <1>7, <1>8

(* The close of a connection takes the player off it, and off no other.    *)
LEMMA CloseStep ==
  ASSUME RowsOK, SocketsOK, Registered, NEW c \in Connection, Close(c)
  PROVE  SocketsOK' /\ Registered'
<1> DEFINE a == sockets[c].account
           new == [sockets[c] EXCEPT !.open = FALSE, !.closing = FALSE]
<1>1. /\ sockets \in [Connection -> Socket] /\ peers \in [Account -> Connection \cup {None}]
      /\ \A d \in Connection : SocketOK(sockets[d])
  BY DEF SocketsOK
<1>2. sockets' = [sockets EXCEPT ![c] = new] /\ UNCHANGED <<shuttingDown, characters>>
  BY <1>1 DEF Close, SocketStep, AccountsUnchanged
<1>3. SocketOK(new) /\ ~new.open /\ new \in Socket
  BY <1>1 DEF SocketOK, Socket
<1>4. \/ peers' = peers
      \/ a \in Account /\ peers[a] = c /\ peers' = [peers EXCEPT ![a] = None]
  BY <1>1 DEF Close, Disconnected, SocketOK, RowsOK
<1> HIDE DEF new, a
<1>5. SocketsOK'
  BY <1>1, <1>2, <1>3, <1>4 DEF SocketsOK, SocketOK
<1>6. Registered'
  <2> SUFFICES ASSUME NEW d \in Connection, sockets'[d].open,
                      sockets'[d].stage \in {"greeting", "ready"}, ~sockets'[d].closing
               PROVE  peers'[sockets'[d].account] = d
    BY DEF Registered
  <2>1. d # c /\ sockets'[d] = sockets[d]
    BY <1>1, <1>2, <1>3
  <2>2. peers[sockets[d].account] = d
    BY <2>1 DEF Registered
  <2>3. sockets[d].account \in Account
    BY <2>1, <1>1 DEF SocketOK, RowsOK
  <2> QED  BY <2>1, <2>2, <2>3, <1>1, <1>4
<1> QED
  BY <1>5, <1>6

(* A shutdown closes every connection, a restart has none.                 *)
LEMMA ShutdownStep ==
  ASSUME SocketsOK, Shutdown
  PROVE  SocketsOK' /\ Registered'
<1>1. \A c \in Connection : SocketOK(sockets[c])
  BY DEF SocketsOK
<1>2. /\ sockets' = [c \in Connection |-> [sockets[c] EXCEPT !.closing = sockets[c].open]]
      /\ shuttingDown' = TRUE /\ UNCHANGED <<peers, characters>>
  BY DEF Shutdown, AccountsUnchanged
<1>3. ASSUME NEW c \in Connection
      PROVE  SocketOK(sockets[c])' /\ sockets'[c] \in Socket /\ sockets'[c].closing = sockets'[c].open
  BY <1>1, <1>2 DEF SocketOK, Socket
<1>4. sockets' \in [Connection -> Socket]
  BY <1>2, <1>3
<1> QED
  BY <1>2, <1>3, <1>4 DEF SocketsOK, Registered

LEMMA Disconnect ==
  ASSUME sockets' = [c \in Connection |-> Free], peers' = [a \in Account |-> None],
         shuttingDown' = FALSE
  PROVE  SocketsOK' /\ Registered'
BY FreeSocket DEF SocketsOK, SocketOK, Registered, Free

-----------------------------------------------------------------------------
LEMMA RowsStep ==
  ASSUME RowsOK, [Next]_vars
  PROVE  RowsOK'
<1>1. CASE \E r \in Request, a \in Account : ReadActive(r, a)
  BY <1>1, ReadActiveRows
<1>2. CASE \E r \in Request : CommitLogin(r)
  BY <1>2, CommitLoginRows
<1>3. CASE \E s \in sessions : Logout(s)
  BY <1>3, LogoutRows
<1>4. CASE \E s \in sessions : CreateCharacter(s)
  BY <1>4 DEF CreateCharacter, RowsOK, Session
<1>5. CASE Cleanup
  BY <1>5, LiveRows DEF Cleanup, RowsOK
<1>6. CASE Tick
  BY <1>6 DEF Tick, RowsOK
<1>7. CASE Restart
  BY <1>7, LiveRows DEF Restart, RowsOK
<1>8. CASE UNCHANGED <<time, sessions, issued, logins, characters>>
  BY <1>8 DEF RowsOK
<1>9. \/ Shutdown \/ \E c \in Connection, s \in sessions : Hello(c, s)
      \/ \E c \in Connection :
           \/ Connect(c) \/ Refuse(c) \/ Register(c) \/ Welcome(c)
           \/ ConnectFails(c) \/ Reject(c) \/ Close(c) \/ Forget(c)
      \/ UNCHANGED vars
      => UNCHANGED <<time, sessions, issued, logins, characters>>
  BY DEF Shutdown, Hello, Connect, Refuse, Register, Welcome, ConnectFails, Reject, Close,
         Forget, SocketStep, AccountsUnchanged, vars
<1> QED
  BY <1>1, <1>2, <1>3, <1>4, <1>5, <1>6, <1>7, <1>8, <1>9 DEF Next

LEMMA SocketsStep ==
  ASSUME RowsOK, SocketsOK, Registered, [Next]_vars
  PROVE  SocketsOK' /\ Registered'
<1>1. CASE \E c \in Connection :
             Connect(c) \/ Refuse(c) \/ Welcome(c) \/ ConnectFails(c) \/ Reject(c) \/ Forget(c)
  BY <1>1, SocketSteps
<1>2. CASE \E c \in Connection, s \in sessions : Hello(c, s)
  BY <1>2, HelloStep
<1>3. CASE \E c \in Connection : Register(c)
  BY <1>3, RegisterStep
<1>4. CASE \E c \in Connection : Close(c)
  BY <1>4, CloseStep
<1>5. CASE Shutdown
  BY <1>5, ShutdownStep
<1>6. CASE Restart
  BY <1>6, Disconnect DEF Restart
<1>7. CASE UNCHANGED server /\ characters \subseteq characters'
  BY <1>7 DEF server, SocketsOK, SocketOK, Registered
<1>8. \/ \E r \in Request, a \in Account : ReadActive(r, a)
      \/ \E r \in Request : CommitLogin(r)
      \/ \E s \in sessions : Logout(s) \/ CreateCharacter(s)
      \/ Cleanup \/ Tick \/ UNCHANGED vars
      => UNCHANGED server /\ characters \subseteq characters'
  BY DEF ReadActive, CommitLogin, Logout, CreateCharacter, Cleanup, Tick, vars, server
<1> QED
  BY <1>1, <1>2, <1>3, <1>4, <1>5, <1>6, <1>7, <1>8 DEF Next

LEMMA Start ==
  ASSUME Init
  PROVE  RowsOK /\ SocketsOK /\ Registered
<1>1. RowsOK
  BY DEF Init, RowsOK
<1>2. SocketsOK /\ Registered
  BY FreeSocket DEF Init, SocketsOK, SocketOK, Registered, Free
<1> QED
  BY <1>1, <1>2

(* The rows, the sockets and who is registered where, in every reachable   *)
(* state: the invariant two of the theorems below are read off.            *)
THEOREM ConnectionsInvariant == Spec => [](RowsOK /\ SocketsOK /\ Registered)
<1>1. Init => RowsOK /\ SocketsOK /\ Registered
  BY Start
<1>2. RowsOK /\ SocketsOK /\ Registered /\ [Next]_vars => (RowsOK /\ SocketsOK /\ Registered)'
  BY RowsStep, SocketsStep
<1> QED
  BY <1>1, <1>2, PTL DEF Spec

(* The tables of sessions and sockets keep their types, ids stay distinct, *)
(* and only players with a character get past HELLO.                       *)
THEOREM SessionsTypeCorrect == Spec => []TypeOK
<1>1. RowsOK /\ SocketsOK => TypeOK
  BY TypeParts
<1> QED
  BY <1>1, ConnectionsInvariant, PTL

(* A welcomed player is reached on the connection that welcomed it.        *)
THEOREM WelcomedReached == Spec => []WelcomedIsReached
<1>1. Registered => WelcomedIsReached
  BY DEF Registered, WelcomedIsReached
<1> QED
  BY <1>1, ConnectionsInvariant, PTL

-----------------------------------------------------------------------------
(* How many sessions an account has.  Each login under way spares the live *)
(* rows it has not read as superfluous.  One that has just read spares     *)
(* fewer than MaxSessions, and every commit in between adds one row at     *)
(* most to what it spares; but a committing login also revokes what it has *)
(* read, so it takes a login that is j commits late to make another one    *)
(* j + 1 late, and the late ones run out.                                  *)
Spared(a, q) == {s \in LiveOf(a) : s.id \notin logins[q].doomed}
UnderWay(a) == {q \in Request : logins[q] # Idle /\ logins[q].account = a}
Late(a, j) == {q \in UnderWay(a) : Cardinality(Spared(a, q)) >= MaxSessions - 1 + j}

FewAreLate(a) ==
  \A j \in 1..Cardinality(Request) : Cardinality(Late(a, j)) <= Cardinality(Request) - j

Crowd ==
  /\ IsFiniteSet(sessions)
  /\ \A a \in Account : FewAreLate(a)
  /\ SessionsAreLimited

(* The rows a login does not read as superfluous are fewer than the limit. *)
LEMMA PlacesAreFew ==
  ASSUME NEW live, IsFiniteSet(live), \A s \in live : s.id \in Nat,
         NEW K \in SUBSET live, \A s \in K : PlaceOf(s, live) < MaxSessions
  PROVE  Cardinality(K) <= MaxSessions - 1
<1>1. CASE K = {}
  BY <1>1, FS_EmptySet, SessionsAssumption
<1>2. CASE K # {}
  <2>1. PICK n \in Ids(K) : \A m \in Ids(K) : <<m, n>> \notin OpToRel(<, Nat)
    <3>1. Ids(K) \subseteq Nat /\ Ids(K) # {}
      BY <1>2 DEF Ids
    <3> QED
      BY <3>1, NatLessThanWellFounded, WFMin
  <2>2. PICK s \in K : n = s.id
    BY <2>1 DEF Ids
  <2>3. ASSUME NEW t \in K PROVE t.id >= s.id
    <3>1. t.id \in Ids(K) /\ t.id \in Nat /\ s.id \in Nat
      BY DEF Ids
    <3>2. <<t.id, s.id>> \notin OpToRel(<, Nat)
      BY <2>1, <2>2, <3>1
    <3> QED
      BY <3>1, <3>2 DEF OpToRel
  <2>4. K \subseteq {t \in live : t.id >= s.id}
    BY <2>3
  <2>5. IsFiniteSet({t \in live : t.id >= s.id})
    BY FS_Subset
  <2>6. Cardinality(K) <= PlaceOf(s, live) /\ Cardinality(K) \in Nat /\ PlaceOf(s, live) \in Nat
    BY <2>4, <2>5, FS_Subset, FS_CardinalityType DEF PlaceOf
  <2> QED
    BY <2>6, SessionsAssumption
<1> QED
  BY <1>1, <1>2

LEMMA LiveAreFinite ==
  ASSUME IsFiniteSet(sessions), NEW a
  PROVE  IsFiniteSet(LiveOf(a)) /\ Cardinality(LiveOf(a)) \in Nat
<1>1. LiveOf(a) \subseteq sessions
  BY LiveRows DEF LiveOf
<1> QED
  BY <1>1, FS_Subset, FS_CardinalityType

LEMMA SparedAreFinite ==
  ASSUME IsFiniteSet(sessions), NEW a, NEW q
  PROVE  IsFiniteSet(Spared(a, q)) /\ Cardinality(Spared(a, q)) \in Nat
<1>1. Spared(a, q) \subseteq LiveOf(a)
  BY DEF Spared
<1> QED
  BY <1>1, LiveAreFinite, FS_Subset, FS_CardinalityType

LEMMA OneMore ==
  ASSUME NEW S, IsFiniteSet(S), NEW x
  PROVE  /\ IsFiniteSet(S \cup {x}) /\ Cardinality(S \cup {x}) \in Nat
         /\ Cardinality(S \cup {x}) <= Cardinality(S) + 1
<1>1. Cardinality(S) \in Nat
  BY FS_CardinalityType
<1>2. /\ IsFiniteSet(S \cup {x})
      /\ Cardinality(S \cup {x}) = IF x \in S THEN Cardinality(S) ELSE Cardinality(S) + 1
  BY FS_AddElement
<1> QED
  BY <1>1, <1>2

LEMMA LateAreFinite ==
  ASSUME NEW a, NEW j
  PROVE  /\ IsFiniteSet(Late(a, j)) /\ Cardinality(Late(a, j)) \in Nat
         /\ Cardinality(Request) \in Nat
<1>1. Late(a, j) \subseteq Request
  BY DEF Late, UnderWay
<1> QED
  BY <1>1, SessionsAssumption, FS_Subset, FS_CardinalityType

(* A step that adds no live row, and no login but ones that just read.     *)
LEMMA NoNewRow ==
  ASSUME IsFiniteSet(sessions), NEW a \in Account, FewAreLate(a),
         LiveOf(a)' \subseteq LiveOf(a),
         \A q \in Request : \/ logins'[q] = logins[q]
                            \/ q \notin UnderWay(a)'
                            \/ Cardinality(Spared(a, q)') <= MaxSessions - 1
  PROVE  FewAreLate(a)'
<1>1. ASSUME NEW j \in 1..Cardinality(Request)
      PROVE  Cardinality(Late(a, j)') <= Cardinality(Request) - j
  <2>1. ASSUME NEW q \in Late(a, j)'
        PROVE  q \in Late(a, j)
    <3>1. /\ q \in Request /\ q \in UnderWay(a)'
          /\ Cardinality(Spared(a, q)') >= MaxSessions - 1 + j
      BY DEF Late, UnderWay
    <3>2. Spared(a, q)' \subseteq LiveOf(a)'
      BY DEF Spared
    <3>3. IsFiniteSet(Spared(a, q)') /\ Cardinality(Spared(a, q)') \in Nat
      BY <3>2, LiveAreFinite, FS_Subset, FS_CardinalityType
    <3>4. logins'[q] = logins[q]
      BY <3>1, <3>3, SessionsAssumption
    <3>5. Spared(a, q)' \subseteq Spared(a, q)
      BY <3>4 DEF Spared
    <3>6. Cardinality(Spared(a, q)') <= Cardinality(Spared(a, q)) /\ Cardinality(Spared(a, q)) \in Nat
      BY <3>5, SparedAreFinite, FS_Subset
    <3>7. q \in UnderWay(a)
      BY <3>1, <3>4 DEF UnderWay
    <3> QED
      BY <3>1, <3>3, <3>6, <3>7, SessionsAssumption DEF Late
  <2>2. Cardinality(Late(a, j)') <= Cardinality(Late(a, j)) /\ Cardinality(Late(a, j)') \in Nat
    BY <2>1, LateAreFinite, FS_Subset, FS_CardinalityType
  <2>3. Cardinality(Late(a, j)) <= Cardinality(Request) - j
    BY DEF FewAreLate
  <2> QED
    BY <2>2, <2>3, LateAreFinite
<1> QED
  BY <1>1 DEF FewAreLate

LEMMA NoNewRows ==
  ASSUME Crowd, sessions' \in SUBSET sessions \/ IsFiniteSet(sessions'),
         \A a \in Account : LiveOf(a)' \subseteq LiveOf(a),
         \A a \in Account, q \in Request :
            \/ logins'[q] = logins[q]
            \/ q \notin UnderWay(a)'
            \/ Cardinality(Spared(a, q)') <= MaxSessions - 1
  PROVE  Crowd'
<1>1. IsFiniteSet(sessions')
  BY FS_Subset DEF Crowd
<1>2. \A a \in Account : FewAreLate(a)'
  BY NoNewRow DEF Crowd
<1>3. ASSUME NEW a \in Account
      PROVE  Cardinality(LiveOf(a)') <= MaxSessions + Cardinality(Request) - 1
  <2>1. /\ Cardinality(LiveOf(a)') <= Cardinality(LiveOf(a))
        /\ Cardinality(LiveOf(a)') \in Nat /\ Cardinality(LiveOf(a)) \in Nat
    BY LiveAreFinite, FS_Subset, FS_CardinalityType DEF Crowd
  <2>2. Cardinality(Request) \in Nat
    BY SessionsAssumption, FS_CardinalityType
  <2> QED
    BY <2>1, <2>2, SessionsAssumption DEF Crowd, SessionsAreLimited
<1> QED
  BY <1>1, <1>2, <1>3 DEF Crowd, SessionsAreLimited

(* A login that has just read spares fewer rows than the limit.            *)
LEMMA ReadActiveCrowd ==
  ASSUME RowsOK, Crowd, NEW r \in Request, NEW a \in Account, ReadActive(r, a)
  PROVE  Crowd'
<1>1. /\ UNCHANGED <<sessions, time>> /\ logins \in [Request -> Login \cup {Idle}]
      /\ \A q \in Request \ {r} : logins'[q] = logins[q]
      /\ logins'[r].account = a /\ logins'[r].doomed = Overflow(LiveOf(a))
  BY DEF ReadActive, RowsOK
<1>2. \A b \in Account : LiveOf(b)' = LiveOf(b)
  BY <1>1 DEF LiveOf, Live, Ended
<1>3. \A b \in Account \ {a} : r \notin UnderWay(b)'
  BY <1>1 DEF UnderWay
<1>4. Cardinality(Spared(a, r)') <= MaxSessions - 1
  <2>1. Spared(a, r)' = {s \in LiveOf(a) : s.id \notin Overflow(LiveOf(a))}
    BY <1>1, <1>2 DEF Spared
  <2>2. IsFiniteSet(LiveOf(a)) /\ \A s \in LiveOf(a) : s.id \in Nat
    BY LiveAreFinite, LiveRows DEF Crowd, RowsOK, Session, LiveOf
  <2>3. ASSUME NEW s \in Spared(a, r)'
        PROVE  s \in LiveOf(a) /\ PlaceOf(s, LiveOf(a)) < MaxSessions
    <3>1. s \in LiveOf(a) /\ s.id \notin Overflow(LiveOf(a))
      BY <2>1
    <3>2. ~ (PlaceOf(s, LiveOf(a)) >= MaxSessions)
      BY <3>1 DEF Overflow, Ids
    <3>3. PlaceOf(s, LiveOf(a)) \in Nat
      BY <2>2, FS_Subset, FS_CardinalityType DEF PlaceOf
    <3> QED
      BY <3>1, <3>2, <3>3, SessionsAssumption
  <2>4. Spared(a, r)' \in SUBSET LiveOf(a)
    BY <2>3
  <2> HIDE DEF Spared
  <2> QED
    BY <2>2, <2>3, <2>4, PlacesAreFew
<1>5. \A b \in Account, q \in Request :
            \/ logins'[q] = logins[q]
            \/ q \notin UnderWay(b)'
            \/ Cardinality(Spared(b, q)') <= MaxSessions - 1
  BY <1>1, <1>3, <1>4
<1>6. sessions' \in SUBSET sessions /\ \A b \in Account : LiveOf(b)' \subseteq LiveOf(b)
  BY <1>1, <1>2
<1> QED
  BY <1>5, <1>6, NoNewRows

(* What a commit leaves of the live rows of its account: those the login   *)
(* spares, and the new one; of the other accounts', no more than before.   *)
LEMMA CommitLeaves ==
  ASSUME RowsOK, IsFiniteSet(sessions), NEW r \in Request, CommitLogin(r),
         NEW a, a = logins[r].account
  PROVE  /\ IsFiniteSet(sessions')
         /\ \A b \in Account \ {a} : LiveOf(b)' \subseteq LiveOf(b)
         /\ \E new : LiveOf(a)' \subseteq Spared(a, r) \cup {new}
<1> DEFINE login == logins[r]
           kept == {s \in sessions : s.id \notin login.dropped}
           Revoked(s) == [s EXCEPT !.revoked = @ \/ s.id \in login.doomed]
           new == [id |-> issued + 1, account |-> login.account,
                   expiresAt |-> login.at + Ttl, revoked |-> FALSE]
<1>1. sessions' = {Revoked(s) : s \in kept} \cup {new} /\ time' = time
  BY DEF CommitLogin
<1>2. ASSUME NEW s \in kept, ~ Revoked(s).revoked
      PROVE  Revoked(s) = s /\ s.id \notin login.doomed
  <2>1. s \in Session
    BY DEF RowsOK
  <2>2. ~ s.revoked /\ s.id \notin login.doomed
    BY <1>2, <2>1 DEF Session
  <2>3. Revoked(s) = s
    BY <2>1, <2>2 DEF Session
  <2> QED
    BY <2>2, <2>3
<1>3. new.account = a /\ login.account = a
  OBVIOUS
<1>4. IsFiniteSet({Revoked(s) : s \in kept})
  <2>1. IsFiniteSet(kept)
    BY FS_Subset
  <2> HIDE DEF kept
  <2>2. PICK f : f = [s \in kept |-> Revoked(s)]
    OBVIOUS
  <2>3. f \in Surjection(kept, {Revoked(s) : s \in kept})
    BY <2>2 DEF Surjection
  <2> QED
    BY <2>1, <2>3, FS_Surjection
<1> HIDE DEF kept, Revoked, new, login
<1>5. IsFiniteSet(sessions')
  BY <1>1, <1>4, FS_AddElement
<1>6. ASSUME NEW b, NEW s \in LiveOf(b)'
      PROVE  \/ s = new
             \/ s \in LiveOf(b) /\ s.id \notin login.doomed
  <2>1. s \in sessions' /\ ~ s.revoked /\ ~ (s.expiresAt <= time) /\ s.account = b
    BY <1>1 DEF LiveOf, Live, Ended
  <2>2. CASE s # new
    <3>1. PICK t \in kept : s = Revoked(t)
      BY <1>1, <2>1, <2>2
    <3>2. s = t /\ t.id \notin login.doomed /\ t \in sessions
      BY <1>2, <2>1, <3>1 DEF kept
    <3> QED
      BY <2>1, <3>2 DEF LiveOf, Live, Ended
  <2> QED
    BY <2>2
<1>7. \A b \in Account \ {a} : LiveOf(b)' \subseteq LiveOf(b)
  <2> SUFFICES ASSUME NEW b \in Account \ {a}, NEW s \in LiveOf(b)'
               PROVE  s \in LiveOf(b)
    OBVIOUS
  <2>1. s.account = b
    BY DEF LiveOf
  <2> QED
    BY <1>3, <1>6, <2>1
<1>8. LiveOf(a)' \subseteq Spared(a, r) \cup {new}
  <2> SUFFICES ASSUME NEW s \in LiveOf(a)', s # new
               PROVE  s \in Spared(a, r)
    OBVIOUS
  <2>1. s \in LiveOf(a) /\ s.id \notin login.doomed
    BY <1>6
  <2> QED
    BY <2>1 DEF Spared, login
<1> QED
  BY <1>5, <1>7, <1>8 DEF login

LEMMA CommitLoginCrowd ==
  ASSUME RowsOK, Crowd, NEW r \in Request, CommitLogin(r)
  PROVE  Crowd'
<1>1. PICK a : a = logins[r].account
  OBVIOUS
<1>2. /\ IsFiniteSet(sessions) /\ IsFiniteSet(sessions')
      /\ \A b \in Account \ {a} : LiveOf(b)' \subseteq LiveOf(b)
  BY <1>1, CommitLeaves DEF Crowd
<1>3. PICK new : LiveOf(a)' \subseteq Spared(a, r) \cup {new}
  BY <1>1, <1>2, CommitLeaves
<1>4. /\ logins \in [Request -> Login \cup {Idle}] /\ logins[r] # Idle
      /\ logins' = [logins EXCEPT ![r] = Idle]
  BY DEF CommitLogin, RowsOK
<1>5. a \in Account /\ r \in UnderWay(a)
  BY <1>1, <1>4 DEF Login, UnderWay
<1>6. \A b : r \notin UnderWay(b)'
  BY <1>4 DEF UnderWay
<1>7. \A q \in Request \ {r} : logins'[q] = logins[q]
  BY <1>4
<1> DEFINE R == Cardinality(Request)
           n == Cardinality(Spared(a, r))
<1>8. R \in Nat /\ n \in Nat /\ R >= 1
  BY <1>2, SessionsAssumption, SparedAreFinite, FS_CardinalityType, FS_EmptySet
<1>9. n <= MaxSessions + R - 2
  <2>1. Cardinality(Late(a, R)) <= 0
    BY <1>5, <1>8 DEF Crowd, FewAreLate
  <2>2. Late(a, R) = {}
    BY <2>1, LateAreFinite, FS_EmptySet
  <2>3. ~ (n >= MaxSessions - 1 + R)
    BY <1>5, <2>2 DEF Late
  <2> QED
    BY <1>8, <2>3, SessionsAssumption
<1>10. \A b \in Account \ {a} : FewAreLate(b)'
  <2> SUFFICES ASSUME NEW b \in Account \ {a} PROVE FewAreLate(b)'
    OBVIOUS
  <2>1. FewAreLate(b) /\ LiveOf(b)' \subseteq LiveOf(b)
    BY <1>2 DEF Crowd
  <2>2. \A q \in Request : logins'[q] = logins[q] \/ q \notin UnderWay(b)'
    BY <1>6, <1>7
  <2> QED
    BY <1>2, <2>1, <2>2, NoNewRow
<1>11. FewAreLate(a)'
  <2> SUFFICES ASSUME NEW j \in 1..R
               PROVE  Cardinality(Late(a, j)') <= R - j
    BY DEF FewAreLate
  <2>1. ASSUME NEW q \in Late(a, j)'
        PROVE  /\ q \in UnderWay(a) \ {r}
               /\ n >= MaxSessions - 1 + (j - 1)
               /\ Cardinality(Spared(a, q)) >= MaxSessions - 1 + (j - 1)
    <3>1. /\ q \in Request \ {r} /\ q \in UnderWay(a) /\ logins'[q] = logins[q]
          /\ Cardinality(Spared(a, q)') >= MaxSessions - 1 + j
      BY <1>6, <1>7 DEF Late, UnderWay
    <3>2. Spared(a, q)' \subseteq Spared(a, r) \cup {new} /\ Spared(a, q)' \subseteq Spared(a, q) \cup {new}
      BY <1>3, <3>1 DEF Spared
    <3>3. /\ Cardinality(Spared(a, q)') <= n + 1
          /\ Cardinality(Spared(a, q)') <= Cardinality(Spared(a, q)) + 1
          /\ Cardinality(Spared(a, q)) \in Nat /\ Cardinality(Spared(a, q)') \in Nat
      <4>1. ASSUME NEW S, IsFiniteSet(S), Spared(a, q)' \subseteq S \cup {new}
            PROVE  Cardinality(Spared(a, q)') <= Cardinality(S) + 1 /\ Cardinality(Spared(a, q)') \in Nat
        <5>1. IsFiniteSet(S \cup {new}) /\ Cardinality(S \cup {new}) <= Cardinality(S) + 1
          BY <4>1, OneMore
        <5> QED
          BY <4>1, <5>1, FS_Subset, FS_CardinalityType
      <4> HIDE DEF Spared
      <4> QED
        BY <1>2, <3>2, <4>1, SparedAreFinite
    <3> QED
      BY <1>8, <3>1, <3>3, SessionsAssumption
  <2>2. IsFiniteSet(Request) /\ Late(a, j)' \subseteq Request \ {r}
    BY <2>1, SessionsAssumption DEF UnderWay
  <2>3. CASE j = 1
    <3>1. IsFiniteSet(Request \ {r}) /\ Cardinality(Request \ {r}) = R - 1
      BY <2>2, FS_RemoveElement
    <3> QED
      BY <2>2, <2>3, <3>1, FS_Subset
  <2>4. CASE j # 1 /\ Late(a, j)' = {}
    BY <1>8, <2>4, FS_EmptySet
  <2>5. CASE j # 1 /\ Late(a, j)' # {}
    <3> DEFINE i == j - 1
    <3>1. i \in 1..R /\ i \in Nat
      BY <1>8, <2>5
    <3>2. Late(a, j)' \subseteq Late(a, i) \ {r} /\ r \in Late(a, i)
      BY <1>5, <2>1, <2>5 DEF Late, UnderWay
    <3>3. IsFiniteSet(Late(a, i)) /\ Cardinality(Late(a, i)) <= R - i
      BY <1>5, <3>1, LateAreFinite DEF Crowd, FewAreLate
    <3>4. Cardinality(Late(a, i) \ {r}) = Cardinality(Late(a, i)) - 1 /\ IsFiniteSet(Late(a, i) \ {r})
      BY <3>2, <3>3, FS_RemoveElement
    <3>5. Cardinality(Late(a, j)') <= Cardinality(Late(a, i) \ {r})
      BY <3>2, <3>4, FS_Subset
    <3>6. Cardinality(Late(a, j)') \in Nat /\ Cardinality(Late(a, i)) \in Nat
      BY <3>2, <3>3, <3>4, FS_Subset, FS_CardinalityType
    <3> QED
      BY <1>8, <3>3, <3>4, <3>5, <3>6
  <2> QED
    BY <2>3, <2>4, <2>5
<1>12. ASSUME NEW b \in Account
       PROVE  Cardinality(LiveOf(b)') <= MaxSessions + R - 1
  <2>1. CASE b = a
    <3>1. IsFiniteSet(Spared(a, r) \cup {new}) /\ Cardinality(Spared(a, r) \cup {new}) <= n + 1
      BY <1>2, SparedAreFinite, OneMore
    <3>2. /\ Cardinality(LiveOf(a)') <= Cardinality(Spared(a, r) \cup {new})
          /\ Cardinality(LiveOf(a)') \in Nat /\ Cardinality(Spared(a, r) \cup {new}) \in Nat
      BY <1>3, <3>1, FS_Subset, FS_CardinalityType
    <3>3. Cardinality(LiveOf(a)') <= MaxSessions + R - 1
      BY <1>8, <1>9, <3>1, <3>2, SessionsAssumption
    <3> QED
      BY <2>1, <3>3
  <2>2. CASE b # a
    <3>1. /\ Cardinality(LiveOf(b)') <= Cardinality(LiveOf(b))
          /\ Cardinality(LiveOf(b)') \in Nat /\ Cardinality(LiveOf(b)) \in Nat
      BY <1>2, <2>2, LiveAreFinite, FS_Subset, FS_CardinalityType
    <3> QED
      BY <1>8, <3>1, SessionsAssumption DEF Crowd, SessionsAreLimited
  <2> QED
    BY <2>1, <2>2
<1>13. \A b \in Account : FewAreLate(b)'
  BY <1>10, <1>11
<1> QED
  BY <1>2, <1>12, <1>13 DEF Crowd, SessionsAreLimited

LEMMA CrowdStep ==
  ASSUME RowsOK, Crowd, [Next]_vars
  PROVE  Crowd'
<1>1. CASE \E r \in Request, a \in Account : ReadActive(r, a)
  BY <1>1, ReadActiveCrowd
<1>2. CASE \E r \in Request : CommitLogin(r)
  BY <1>2, CommitLoginCrowd
<1>3. ASSUME NEW s \in sessions, Logout(s)
      PROVE  Crowd'
  <2>1. PICK t : t = [s EXCEPT !.revoked = TRUE]
    OBVIOUS
  <2>2. sessions' = (sessions \ {s}) \cup {t} /\ t.revoked /\ UNCHANGED <<logins, time>>
    BY <1>3, <2>1 DEF Logout, RowsOK, Session
  <2>3. IsFiniteSet(sessions')
    BY <2>2, FS_RemoveElement, FS_AddElement DEF Crowd
  <2>4. \A a \in Account : LiveOf(a)' \subseteq LiveOf(a)
    BY <2>2 DEF LiveOf, Live, Ended
  <2> QED
    BY <2>2, <2>3, <2>4, NoNewRows
<1>4. CASE Cleanup \/ Restart
  <2>1. sessions' = Live /\ time' = time /\ sessions' \in SUBSET sessions
    BY <1>4, LiveRows DEF Cleanup, Restart
  <2>2. \A a \in Account : LiveOf(a)' \subseteq LiveOf(a)
    BY <2>1 DEF LiveOf, Live, Ended
  <2>3. \A q \in Request : logins'[q] = logins[q] \/ logins'[q] = Idle
    BY <1>4 DEF Cleanup, Restart
  <2>4. \A a \in Account, q \in Request : logins'[q] = logins[q] \/ q \notin UnderWay(a)'
    BY <2>3 DEF UnderWay
  <2> QED
    BY <2>1, <2>2, <2>4, NoNewRows
<1>5. CASE Tick
  <2>1. UNCHANGED <<sessions, logins>> /\ time' = time + 1
    BY <1>5 DEF Tick
  <2>2. \A s \in sessions : Ended(s, time) => Ended(s, time')
    BY <2>1 DEF Ended, RowsOK, Session
  <2>3. \A a \in Account : LiveOf(a)' \subseteq LiveOf(a)
    BY <2>1, <2>2 DEF LiveOf, Live, Ended
  <2> QED
    BY <2>1, <2>3, NoNewRows
<1>6. CASE UNCHANGED <<time, sessions, logins>>
  <2>1. \A a \in Account : LiveOf(a)' \subseteq LiveOf(a)
    BY <1>6 DEF LiveOf, Live, Ended
  <2> QED
    BY <1>6, <2>1, NoNewRows
<1>7. \/ Shutdown \/ \E c \in Connection, s \in sessions : Hello(c, s)
      \/ \E c \in Connection :
           \/ Connect(c) \/ Refuse(c) \/ Register(c) \/ Welcome(c)
           \/ ConnectFails(c) \/ Reject(c) \/ Close(c) \/ Forget(c)
      \/ \E s \in sessions : CreateCharacter(s)
      \/ UNCHANGED vars
      => UNCHANGED <<time, sessions, logins>>
  BY DEF Shutdown, Hello, Connect, Refuse, Register, Welcome, ConnectFails, Reject, Close,
         Forget, CreateCharacter, SocketStep, AccountsUnchanged, vars
<1> QED
  BY <1>1, <1>2, <1>3, <1>4, <1>5, <1>6, <1>7 DEF Next

(* However the logins of an account overlap, and whichever of them the     *)
(* logout, the clock, a cleanup or a restart falls between, the account    *)
(* has at most the limit and one session for each further login at once.   *)
THEOREM SessionsAlwaysLimited == Spec => []SessionsAreLimited
<1>1. Init => Crowd
  <2> SUFFICES ASSUME Init PROVE Crowd
    OBVIOUS
  <2>1. IsFiniteSet(sessions) /\ \A a : LiveOf(a) = {} /\ UnderWay(a) = {}
    BY FS_EmptySet DEF Init, LiveOf, Live, UnderWay
  <2>2. \A a, j : Cardinality(Late(a, j)) = 0 /\ Cardinality(LiveOf(a)) = 0
    BY <2>1, FS_EmptySet DEF Late
  <2>3. Cardinality(Request) \in Nat
    BY SessionsAssumption, FS_CardinalityType
  <2> QED
    BY <2>1, <2>2, <2>3, SessionsAssumption DEF Crowd, FewAreLate, SessionsAreLimited
<1>2. RowsOK /\ Crowd /\ [Next]_vars => Crowd'
  BY CrowdStep
<1>3. Crowd => SessionsAreLimited
  BY DEF Crowd
<1>4. Spec => []RowsOK
  BY ConnectionsInvariant, PTL
<1> QED
  BY <1>1, <1>2, <1>3, <1>4, PTL DEF Spec


-----------------------------------------------------------------------------
(* Entries.                                                                *)
Places == [EntryId -> Entry \cup {NoEntry}]
Bags == [Item -> Nat]

LEMMA EntryFields ==
  ASSUME NEW place \in Places, NEW e \in EntryId
  PROVE  /\ e \in Held(place) <=> place[e] # NoEntry
         /\ e \in Held(place) => /\ place[e] \in Entry /\ place[e].item \in Item
                                 /\ place[e].quantity \in Nat \ {0}
BY DEF Places, Held, Entry

LEMMA EntryMade ==
  ASSUME NEW i \in Item, NEW q \in Nat \ {0}
  PROVE  /\ [item |-> i, quantity |-> q] \in Entry
         /\ [item |-> i, quantity |-> q] # NoEntry
BY GoodsAssumption DEF Entry

LEMMA EntryResized ==
  ASSUME NEW entry \in Entry, NEW q \in Nat \ {0}, NEW r, r = [entry EXCEPT !.quantity = q]
  PROVE  r \in Entry /\ r # NoEntry /\ r.item = entry.item /\ r.quantity = q
<1>1. r \in Entry /\ r.item = entry.item /\ r.quantity = q
  BY DEF Entry
<1> QED
  BY <1>1, GoodsAssumption

LEMMA SomeFields ==
  ASSUME NEW i \in Item, NEW q \in Int
  PROVE  /\ Some(i, q) \in [Item -> Int]
         /\ q \in Nat => Some(i, q) \in Bags
         /\ \A k \in Item : Some(i, q)[k] = IF k = i THEN q ELSE 0
BY DEF Some, Nothing, Bags

(* What is left of an entry is smaller, or nothing.                        *)
LEMMA LeftOfEntry ==
  ASSUME NEW entry \in Entry, NEW q \in Nat, NEW r, r = Left(entry, q)
  PROVE  /\ r \in Entry \cup {NoEntry}
         /\ entry.quantity > q => r # NoEntry /\ r.item = entry.item
                                  /\ r.quantity = entry.quantity - q
         /\ entry.quantity <= q => r = NoEntry
<1>0. entry.quantity \in Nat \ {0}
  BY DEF Entry
<1>1. CASE entry.quantity > q
  <2>1. r = [entry EXCEPT !.quantity = entry.quantity - q]
    BY <1>1 DEF Left
  <2>2. entry.quantity - q \in Nat \ {0}
    BY <1>0, <1>1
  <2> QED
    BY <1>0, <1>1, <2>1, <2>2, EntryResized
<1>2. CASE entry.quantity <= q
  BY <1>0, <1>2 DEF Left
<1> QED
  BY <1>0, <1>1, <1>2

(* What is left of a place when a bag is taken from it, entry by entry.    *)
LEMMA WithoutFields ==
  ASSUME NEW place \in Places, NEW bag \in Bags
  PROVE  /\ Without(place, bag) \in Places
         /\ \A e \in EntryId :
              LET r == Without(place, bag)[e] IN
              /\ place[e] = NoEntry => r = NoEntry
              /\ place[e] # NoEntry =>
                   LET q == bag[place[e].item] IN
                   /\ place[e].quantity > q => r # NoEntry /\ r.item = place[e].item
                                               /\ r.quantity = place[e].quantity - q
                   /\ place[e].quantity <= q => r = NoEntry
<1> DEFINE r(e) == Without(place, bag)[e]
<1>1. ASSUME NEW e \in EntryId, place[e] = NoEntry
      PROVE  r(e) = NoEntry
  BY <1>1 DEF Without, Held
<1>2. ASSUME NEW e \in EntryId, place[e] # NoEntry
      PROVE  LET q == bag[place[e].item] IN
             /\ r(e) \in Entry \cup {NoEntry}
             /\ place[e].quantity > q => r(e) # NoEntry /\ r(e).item = place[e].item
                                         /\ r(e).quantity = place[e].quantity - q
             /\ place[e].quantity <= q => r(e) = NoEntry
  <2>1. place[e] \in Entry /\ place[e].item \in Item
    BY <1>2, EntryFields
  <2>2. bag[place[e].item] \in Nat
    BY <2>1 DEF Bags
  <2>3. r(e) = Left(place[e], bag[place[e].item])
    BY <1>2 DEF Without, Held
  <2> HIDE DEF r
  <2> QED
    BY <2>1, <2>2, <2>3, LeftOfEntry
<1>3. Without(place, bag) \in Places
  BY <1>1, <1>2 DEF Without, Places
<1> QED
  BY <1>1, <1>2, <1>3

(* The entries that take what is added.                                    *)
LEMMA IdsFields ==
  ASSUME NEW place \in Places, NEW bag \in Bags, NEW pool \in SUBSET EntryId,
         NEW ids \in NewIds(place, bag, pool)
  PROVE  /\ DOMAIN ids = NewKinds(place, bag) /\ NewKinds(place, bag) \subseteq Item
         /\ \A i \in DOMAIN ids : /\ ids[i] \in pool /\ ids[i] \in EntryId
                                  /\ bag[i] \in Nat \ {0} /\ StackIn(place, i) = {}
         /\ \A i, j \in DOMAIN ids : ids[i] = ids[j] => i = j
BY DEF NewIds, NewKinds, Bags

LEMMA WithFields ==
  ASSUME NEW place \in Places, NEW bag \in Bags, NEW pool \in SUBSET EntryId,
         NEW ids \in NewIds(place, bag, pool)
  PROVE  /\ With(place, bag, ids) \in Places
         /\ \A i \in DOMAIN ids :
              With(place, bag, ids)[ids[i]] = [item |-> i, quantity |-> bag[i]]
         /\ \A e \in EntryId : (\A i \in DOMAIN ids : ids[i] # e) =>
              LET r == With(place, bag, ids)[e] IN
              /\ place[e] = NoEntry => r = NoEntry
              /\ place[e] # NoEntry =>
                   /\ r # NoEntry /\ r.item = place[e].item
                   /\ r.quantity = place[e].quantity
                        + IF place[e].item \in Stackable THEN bag[place[e].item] ELSE 0
<1> DEFINE W == With(place, bag, ids)
<1>1. ASSUME NEW i \in DOMAIN ids
      PROVE  W[ids[i]] = [item |-> i, quantity |-> bag[i]] /\ ids[i] \in EntryId
  <2>1. ids[i] \in EntryId /\ \A j \in DOMAIN ids : ids[j] = ids[i] => j = i
    BY IdsFields
  <2>2. (CHOOSE k \in DOMAIN ids : ids[k] = ids[i]) = i
    BY <2>1
  <2> QED
    BY <2>1, <2>2 DEF With
<1>2. ASSUME NEW i \in DOMAIN ids
      PROVE  W[ids[i]] \in Entry
  <2>1. i \in Item /\ bag[i] \in Nat \ {0}
    BY IdsFields
  <2> QED
    BY <1>1, <2>1, EntryMade
<1>3. ASSUME NEW e \in EntryId, \A i \in DOMAIN ids : ids[i] # e, place[e] = NoEntry
      PROVE  W[e] = NoEntry
  BY <1>3 DEF With, Held
<1>4. ASSUME NEW e \in EntryId, \A i \in DOMAIN ids : ids[i] # e, place[e] # NoEntry
      PROVE  /\ W[e] \in Entry /\ W[e] # NoEntry /\ W[e].item = place[e].item
             /\ W[e].quantity = place[e].quantity
                  + IF place[e].item \in Stackable THEN bag[place[e].item] ELSE 0
  <2>1. e \in Held(place) /\ place[e] \in Entry /\ place[e].item \in Item
         /\ place[e].quantity \in Nat \ {0}
    BY <1>4, EntryFields
  <2>2. e \in StackIn(place, place[e].item) <=> place[e].item \in Stackable
    BY <2>1 DEF StackIn
  <2>3. bag[place[e].item] \in Nat
    BY <2>1 DEF Bags
  <2>4. CASE place[e].item \in Stackable
    <3>1. W[e] = [place[e] EXCEPT !.quantity = place[e].quantity + bag[place[e].item]]
      BY <1>4, <2>1, <2>2, <2>4 DEF With
    <3>2. place[e].quantity + bag[place[e].item] \in Nat \ {0}
      BY <2>1, <2>3
    <3> HIDE DEF W
    <3> QED
      BY <2>1, <2>4, <3>1, <3>2, EntryResized
  <2>5. CASE place[e].item \notin Stackable
    <3>1. W[e] = place[e]
      BY <1>4, <2>1, <2>2, <2>5 DEF With
    <3> QED
      BY <1>4, <2>1, <2>5, <3>1
  <2> QED
    BY <2>4, <2>5
<1>5. W \in Places
  <2>1. \A e \in EntryId : W[e] \in Entry \cup {NoEntry}
    BY <1>1, <1>2, <1>3, <1>4
  <2> QED
    BY <2>1 DEF With, Places
<1> QED
  BY <1>1, <1>3, <1>4, <1>5

-----------------------------------------------------------------------------
(* Levels.                                                                 *)

(* A non-empty set of naturals below a limit has a largest member.         *)
LEMMA Largest ==
  ASSUME NEW limit \in Nat, NEW S, S # {}, \A l \in S : l \in Nat /\ l <= limit
  PROVE  \E l \in S : \A k \in S : k <= l
<1> DEFINE T == {limit - l : l \in S}
<1>1. T \subseteq Nat /\ T # {}
  OBVIOUS
<1>2. PICK t \in T : \A u \in T : ~ (<<u, t>> \in OpToRel(<, Nat))
  BY <1>1, NatLessThanWellFounded, WFMin
<1>3. \A u \in T : u >= t
  <2> HIDE DEF T
  <2> SUFFICES ASSUME NEW u \in T
               PROVE  u >= t
    OBVIOUS
  <2>1. t \in Nat /\ u \in Nat
    BY <1>1
  <2>2. <<u, t>> \notin OpToRel(<, Nat)
    BY <1>2
  <2> QED
    BY <2>1, <2>2 DEF OpToRel
<1>4. PICK l \in S : t = limit - l
  OBVIOUS
<1>5. \A k \in S : k <= l
  <2> SUFFICES ASSUME NEW k \in S
               PROVE  k <= l
    OBVIOUS
  <2>1. limit - k \in T
    OBVIOUS
  <2>2. limit - k >= t
    BY <1>3, <2>1
  <2> HIDE DEF T
  <2> QED
    BY <1>4, <2>2
<1> QED
  BY <1>5

(* The experience a rise takes, level by level.                            *)
LEMMA PriceLaw ==
  ASSUME NEW required, NEW from \in Nat, NEW to \in Nat, from <= to,
         \A l \in from..(to - 1) : required[l] \in Nat
  PROVE  /\ Price(required, from, to) \in Nat
         /\ Price(required, from, from) = 0
         /\ from < to =>
              Price(required, from, to) = Price(required, from, to - 1) + required[to - 1]
<1>1. IsFiniteSet(from..(to - 1)) /\ IsFiniteSet(from..(from - 1))
  BY FS_Interval
<1>2. SumOver(required, from..(to - 1)) \in Nat
  BY <1>1, SumOfNaturals
<1>3. SumOver(required, from..(from - 1)) = 0
  <2>1. \A l \in from..(from - 1) : required[l] = 0
    OBVIOUS
  <2> QED
    BY <1>1, <2>1, SumZero
<1>4. ASSUME from < to
      PROVE  SumOver(required, from..(to - 1))
               = SumOver(required, from..(to - 2)) + required[to - 1]
  <2>1. to - 1 \in from..(to - 1) /\ (from..(to - 1)) \ {to - 1} = from..(to - 2)
    BY <1>4
  <2>2. \A l \in from..(to - 1) : required[l] \in Int
    OBVIOUS
  <2>3. SumOver(required, from..(to - 1))
          = required[to - 1] + SumOver(required, (from..(to - 1)) \ {to - 1})
    BY <1>1, <2>1, <2>2, SumLaw
  <2>4. SumOver(required, from..(to - 2)) \in Int
    <3>1. IsFiniteSet(from..(to - 2))
      BY FS_Interval
    <3>2. \A l \in from..(to - 2) : required[l] \in Int
      BY <2>2
    <3> QED
      BY <3>1, <3>2, SumLaw
  <2>5. required[to - 1] \in Nat
    BY <2>1
  <2>6. SumOver(required, (from..(to - 1)) \ {to - 1}) = SumOver(required, from..(to - 2))
    BY <2>1
  <2> DEFINE before == SumOver(required, from..(to - 2))
             last == required[to - 1]
  <2>7. SumOver(required, from..(to - 1)) = last + before
    BY <2>3, <2>6
  <2>8. last \in Int /\ before \in Int
    BY <2>4, <2>5
  <2> HIDE DEF before, last
  <2>9. last + before = before + last
    BY <2>8
  <2> QED
    BY <2>7, <2>9 DEF before, last
<1>5. (to - 1) - 1 = to - 2
  OBVIOUS
<1> QED
  BY <1>2, <1>3, <1>4, <1>5 DEF Price

(* A rise takes at least one experience for a level where each costs one.  *)
LEMMA PriceAtLeastOne ==
  ASSUME NEW required, NEW from \in Nat, NEW to \in Nat, from <= to,
         \A l \in from..(to - 1) : required[l] \in Nat \ {0}
  PROVE  Price(required, from, to) >= to - from
<1> DEFINE Bad == {t \in from..to : ~ (Price(required, from, t) >= t - from)}
<1>1. SUFFICES ASSUME Bad # {} PROVE FALSE
  OBVIOUS
<1>2. Bad \subseteq Nat
  OBVIOUS
<1>3. PICK t \in Bad : \A u \in Bad : ~ (<<u, t>> \in OpToRel(<, Nat))
  BY <1>1, <1>2, NatLessThanWellFounded, WFMin
<1>4. t \in from..to /\ t \in Nat /\ ~ (Price(required, from, t) >= t - from)
  OBVIOUS
<1>5. \A l \in from..(t - 1) : required[l] \in Nat \ {0}
  BY <1>4
<1>6. /\ Price(required, from, from) = 0
      /\ from < t => Price(required, from, t) = Price(required, from, t - 1) + required[t - 1]
  BY <1>4, <1>5, PriceLaw
<1>7. t # from
  BY <1>4, <1>6
<1>8. t - 1 \in from..to /\ t - 1 \in Nat /\ from <= t - 1
  BY <1>4, <1>7
<1>9. \A l \in from..((t - 1) - 1) : required[l] \in Nat \ {0}
  BY <1>4
<1>10. Price(required, from, t - 1) \in Nat
  BY <1>8, <1>9, PriceLaw
<1>11. t - 1 \notin Bad
  <2> HIDE DEF Bad
  <2>1. t - 1 < t
    BY <1>4
  <2> QED
    BY <1>2, <1>3, <1>4, <1>8, <2>1 DEF OpToRel
<1>12. Price(required, from, t - 1) >= (t - 1) - from
  BY <1>8, <1>11
<1>13. required[t - 1] \in Nat \ {0}
  BY <1>5, <1>8
<1> QED
  BY <1>4, <1>6, <1>7, <1>10, <1>12, <1>13

(* Rising: one gains the levels one can pay for, keeps what is left, and   *)
(* cannot pay for another.                                                 *)
LEMMA Rise ==
  ASSUME NEW m \in [level : Nat \ {0}, xp : Nat], NEW required, NEW limit \in Nat,
         m.level <= limit,
         \A l \in m.level..(limit - 1) : required[l] \in Nat,
         NEW risen, risen = LevelledUp(m, required, limit)
  PROVE  /\ risen \in [level : Nat \ {0}, xp : Nat]
         /\ risen.level \in m.level..limit
         /\ risen.level < limit => risen.xp < required[risen.level]
         /\ risen.xp = m.xp - Price(required, m.level, risen.level)
<1> DEFINE reached == {l \in m.level..limit : Price(required, m.level, l) <= m.xp}
           level == CHOOSE l \in reached : \A k \in reached : k <= l
<1>0. m.level \in Nat \ {0} /\ m.xp \in Nat
  OBVIOUS
<1>1. m.level \in reached
  <2>1. \A l \in m.level..(m.level - 1) : required[l] \in Nat
    BY <1>0
  <2>2. Price(required, m.level, m.level) = 0
    BY <1>0, <2>1, PriceLaw
  <2> QED
    BY <1>0, <2>2
<1>2. level \in reached /\ \A k \in reached : k <= level
  <2>1. \A l \in reached : l \in Nat /\ l <= limit
    BY <1>0
  <2>2. reached # {}
    BY <1>1
  <2> HIDE DEF reached
  <2>3. \E l \in reached : \A k \in reached : k <= l
    BY <2>1, <2>2, Largest
  <2> QED
    BY <2>3
<1>3. risen = [level |-> level, xp |-> m.xp - Price(required, m.level, level)]
  BY DEF LevelledUp
<1> HIDE DEF level
<1>4. level \in m.level..limit /\ level \in Nat \ {0}
      /\ Price(required, m.level, level) <= m.xp
  BY <1>0, <1>2
<1>5. \A l \in m.level..(level - 1) : required[l] \in Nat
  BY <1>0, <1>4
<1>6. Price(required, m.level, level) \in Nat
  BY <1>0, <1>4, <1>5, PriceLaw
<1>7. ASSUME level < limit
      PROVE  m.xp - Price(required, m.level, level) < required[level]
  <2>1. level + 1 \in m.level..limit /\ level + 1 \in Nat /\ m.level < level + 1
    BY <1>0, <1>4, <1>7
  <2>2. \A l \in m.level..((level + 1) - 1) : required[l] \in Nat
    BY <1>0, <1>4, <1>7
  <2>3. (level + 1) - 1 = level
    BY <1>4
  <2>4. Price(required, m.level, level + 1)
          = Price(required, m.level, level) + required[level]
        /\ Price(required, m.level, level + 1) \in Nat
    <3> DEFINE next == level + 1
    <3>1. next \in Nat /\ m.level \in Nat /\ m.level < next /\ m.level <= next
      BY <1>0, <2>1
    <3>2. \A l \in m.level..(next - 1) : required[l] \in Nat
      BY <2>2
    <3>3. next - 1 = level
      BY <2>3
    <3> HIDE DEF next
    <3>4. /\ Price(required, m.level, next) \in Nat
          /\ Price(required, m.level, next)
               = Price(required, m.level, next - 1) + required[next - 1]
      BY <3>1, <3>2, PriceLaw
    <3> QED
      BY <3>3, <3>4 DEF next
  <2>5. level + 1 \notin reached
    BY <1>2, <1>4
  <2>6. ~ (Price(required, m.level, level + 1) <= m.xp)
    BY <2>1, <2>5
  <2>7. required[level] \in Nat
    BY <1>0, <1>4, <1>7
  <2> QED
    BY <1>0, <1>6, <2>4, <2>6, <2>7
<1>8. m.xp - Price(required, m.level, level) \in Nat
  BY <1>0, <1>4, <1>6
<1> HIDE DEF reached
<1> QED
  BY <1>3, <1>4, <1>7, <1>8

(* Where every level costs something, the limit of a reward is no limit.   *)
LEMMA RiseWithoutLimit ==
  ASSUME NEW m \in [level : Nat \ {0}, xp : Nat], NEW required,
         \A l \in Nat \ {0} : required[l] \in Nat \ {0},
         NEW risen, risen = LevelledUp(m, required, m.level + m.xp)
  PROVE  /\ risen \in [level : Nat \ {0}, xp : Nat]
         /\ risen.xp < required[risen.level]
<1>0. m.level \in Nat \ {0} /\ m.xp \in Nat /\ m.level + m.xp \in Nat
      /\ m.level <= m.level + m.xp
  OBVIOUS
<1>1. \A l \in m.level..((m.level + m.xp) - 1) : required[l] \in Nat \ {0}
  BY <1>0
<1>2. /\ risen \in [level : Nat \ {0}, xp : Nat]
      /\ risen.level \in m.level..(m.level + m.xp)
      /\ risen.level < m.level + m.xp => risen.xp < required[risen.level]
      /\ risen.xp = m.xp - Price(required, m.level, risen.level)
  <2>1. \A l \in m.level..((m.level + m.xp) - 1) : required[l] \in Nat
    BY <1>1
  <2> QED
    BY <1>0, <2>1, Rise
<1>3. CASE risen.level = m.level + m.xp
  <2>1. Price(required, m.level, m.level + m.xp) >= (m.level + m.xp) - m.level
    BY <1>0, <1>1, PriceAtLeastOne
  <2>2. \A l \in m.level..((m.level + m.xp) - 1) : required[l] \in Nat
    BY <1>1
  <2>3. Price(required, m.level, m.level + m.xp) \in Nat
    BY <1>0, <2>2, PriceLaw
  <2>4. risen.xp <= 0
    BY <1>0, <1>2, <1>3, <2>1, <2>3
  <2>5. required[risen.level] \in Nat \ {0}
    BY <1>0, <1>3
  <2> QED
    BY <1>2, <2>4, <2>5
<1> QED
  BY <1>0, <1>2, <1>3

-----------------------------------------------------------------------------
(* The share of an expedition's loot that is kept.                         *)
LEMMA PercentOf == \A n, percent \in Nat : (n * percent) \div 100 \in Nat
<1> SUFFICES ASSUME NEW n \in Nat, NEW percent \in Nat
             PROVE  (n * percent) \div 100 \in Nat
  OBVIOUS
<1>1. n * percent \in Nat
  OBVIOUS
<1>2. \A k \in Nat : k \div 100 \in Nat
  OBVIOUS
<1> QED
  BY <1>1, <1>2

LEMMA KeptIsBag ==
  ASSUME NEW loot \in Loot, NEW percent \in Retained
  PROVE  Kept(loot, percent) \in Bags
<1>0. percent \in 0..100 /\ loot.resources \in Bags /\ loot.recipes \in Seq(Recipe)
  BY GoodsAssumption DEF Bags
<1> DEFINE n == (Len(loot.recipes) * percent) \div 100
           recipes == SubSeq(loot.recipes, 1, n)
<1>1. n \in Nat
  <2>1. Len(loot.recipes) \in Nat /\ percent \in Nat
    BY <1>0
  <2> QED
    BY <2>1, PercentOf
<1>2. DOMAIN recipes = 1..n
  BY <1>0, <1>1
<1> HIDE DEF n
<1>3. \A i \in Item : Cardinality({k \in DOMAIN recipes : RecipeItem[recipes[k]] = i}) \in Nat
  <2> SUFFICES ASSUME NEW i \in Item
               PROVE  Cardinality({k \in DOMAIN recipes : RecipeItem[recipes[k]] = i}) \in Nat
    OBVIOUS
  <2>1. IsFiniteSet(1..n)
    BY <1>1, FS_Interval
  <2>2. {k \in DOMAIN recipes : RecipeItem[recipes[k]] = i} \subseteq 1..n
    BY <1>2
  <2>3. IsFiniteSet({k \in DOMAIN recipes : RecipeItem[recipes[k]] = i})
    BY <2>1, <2>2, FS_Subset
  <2> QED
    BY <2>3, FS_CardinalityType
<1>4. \A i \in Item : (loot.resources[i] * percent) \div 100 \in Nat
  <2>1. percent \in Nat /\ \A i \in Item : loot.resources[i] \in Nat
    BY <1>0 DEF Bags
  <2> QED
    BY <2>1, PercentOf
<1>5. \A i \in Item : Kept(loot, percent)[i]
        = (loot.resources[i] * percent) \div 100
            + Cardinality({k \in DOMAIN recipes : RecipeItem[recipes[k]] = i})
  BY DEF Kept, n
<1>6. \A i \in Item : Kept(loot, percent)[i] \in Nat
  <2> SUFFICES ASSUME NEW i \in Item
               PROVE  Kept(loot, percent)[i] \in Nat
    OBVIOUS
  <2> DEFINE share == (loot.resources[i] * percent) \div 100
             number == Cardinality({k \in DOMAIN recipes : RecipeItem[recipes[k]] = i})
  <2>1. share \in Nat /\ number \in Nat /\ Kept(loot, percent)[i] = share + number
    BY <1>3, <1>4, <1>5
  <2> HIDE DEF share, number
  <2> QED
    BY <2>1
<1>7. Kept(loot, percent) = [i \in Item |-> Kept(loot, percent)[i]]
  BY DEF Kept
<1> QED
  BY <1>6, <1>7 DEF Bags

-----------------------------------------------------------------------------
(* Counting the pieces of a kind in a place.                               *)
At(place, i) ==
  [e \in EntryId |->
    IF e \in Held(place) /\ place[e].item = i THEN place[e].quantity ELSE 0]

LEMMA CountIsSum ==
  ASSUME NEW place, NEW i
  PROVE  Count(place, i) = SumOver(At(place, i), EntryId)
BY DEF Count, At

LEMMA AtFields ==
  ASSUME NEW place \in Places, NEW i \in Item, NEW e \in EntryId
  PROVE  /\ At(place, i)[e] \in Nat /\ At(place, i)[e] \in Int
         /\ place[e] = NoEntry => At(place, i)[e] = 0
         /\ place[e] # NoEntry /\ place[e].item # i => At(place, i)[e] = 0
         /\ place[e] # NoEntry /\ place[e].item = i =>
              At(place, i)[e] = place[e].quantity /\ place[e].quantity \in Nat \ {0}
BY EntryFields DEF At

LEMMA CountType ==
  ASSUME NEW place \in Places, NEW i \in Item
  PROVE  Count(place, i) \in Nat
<1>1. \A e \in EntryId : At(place, i)[e] \in Nat
  BY AtFields
<1> QED
  BY <1>1, SumOfNaturals, GoodsAssumption, CountIsSum

(* Two places that differ in one entry alone, as far as the kind goes.     *)
LEMMA CountUpdate ==
  ASSUME NEW place \in Places, NEW other \in Places, NEW i \in Item, NEW e \in EntryId,
         \A d \in EntryId : d # e => At(other, i)[d] = At(place, i)[d]
  PROVE  Count(other, i) = Count(place, i) - At(place, i)[e] + At(other, i)[e]
<1>1. \A d \in EntryId : At(place, i)[d] \in Int /\ At(other, i)[d] \in Int
  BY AtFields
<1>2. IsFiniteSet(EntryId)
  BY GoodsAssumption
<1>3. SumOver(At(other, i), EntryId)
        = SumOver(At(place, i), EntryId) - At(place, i)[e] + At(other, i)[e]
  <2> DEFINE f == At(place, i)
             g == At(other, i)
  <2>1. \A y \in EntryId : f[y] \in Int /\ g[y] \in Int
    BY <1>1
  <2>2. \A y \in EntryId : y # e => g[y] = f[y]
    OBVIOUS
  <2> HIDE DEF f, g
  <2>3. SumOver(g, EntryId) = SumOver(f, EntryId) - f[e] + g[e]
    BY <1>2, <2>1, <2>2, SumUpdate
  <2> QED
    BY <2>3 DEF f, g
<1> QED
  BY <1>3, CountIsSum

LEMMA CountSame ==
  ASSUME NEW place \in Places, NEW other \in Places, NEW i \in Item,
         \A d \in EntryId : At(other, i)[d] = At(place, i)[d]
  PROVE  Count(other, i) = Count(place, i)
<1>1. \A d \in EntryId : At(place, i)[d] \in Int /\ At(place, i)[d] = At(other, i)[d]
  BY AtFields
<1>2. SumOver(At(place, i), EntryId) = SumOver(At(other, i), EntryId)
  BY <1>1, GoodsAssumption, SumCongruence
<1> QED
  BY <1>2, CountIsSum

LEMMA CountEmpty ==
  ASSUME NEW place \in Places, NEW i \in Item, \A d \in EntryId : At(place, i)[d] = 0
  PROVE  Count(place, i) = 0
BY GoodsAssumption, SumZero, CountIsSum

(* A stack holds all the pieces of its kind.                               *)
LEMMA CountStack ==
  ASSUME NEW place \in Places, Single(place), NEW i \in Stackable, Count(place, i) > 0
  PROVE  \E e \in EntryId :
           /\ place[e] # NoEntry /\ place[e].item = i
           /\ Count(place, i) = place[e].quantity
           /\ \A d \in EntryId : d # e => At(place, i)[d] = 0
<1>0. i \in Item
  BY GoodsAssumption
<1>1. PICK e \in EntryId : At(place, i)[e] # 0
  BY <1>0, CountEmpty
<1>2. place[e] # NoEntry /\ place[e].item = i /\ At(place, i)[e] = place[e].quantity
  BY <1>0, <1>1, AtFields
<1>3. \A d \in EntryId : d # e => At(place, i)[d] = 0
  <2> SUFFICES ASSUME NEW d \in EntryId, d # e
               PROVE  At(place, i)[d] = 0
    OBVIOUS
  <2>1. place[d] = NoEntry \/ place[d].item # i
    BY <1>2 DEF Single
  <2> QED
    BY <1>0, <2>1, AtFields
<1>4. SumOver(At(place, i), EntryId) = At(place, i)[e]
  <2> DEFINE f == At(place, i)
  <2>1. \A x \in EntryId : f[x] \in Int
    BY <1>0, AtFields
  <2>2. \A x \in EntryId \ {e} : f[x] = 0
    BY <1>3
  <2> HIDE DEF f
  <2>3. SumOver(f, EntryId) = f[e] + SumOver(f, EntryId \ {e})
    BY <2>1, SumLaw, GoodsAssumption
  <2>4. IsFiniteSet(EntryId \ {e})
    BY GoodsAssumption, FS_Subset
  <2>5. SumOver(f, EntryId \ {e}) = 0
    BY <2>2, <2>4, SumZero
  <2>6. f[e] \in Int
    BY <2>1
  <2> QED
    BY <2>3, <2>5, <2>6 DEF f
<1> QED
  BY <1>2, <1>3, <1>4, CountIsSum

(* A bag that is taken from a place that covers it is gone from it.        *)
LEMMA WithoutCounts ==
  ASSUME NEW place \in Places, Single(place), NEW bag \in Bags, Covers(place, bag),
         \A k \in Item : bag[k] > 0 => k \in Stackable,
         NEW i \in Item
  PROVE  Count(Without(place, bag), i) = Count(place, i) - bag[i]
<1> DEFINE rest == Without(place, bag)
<1>0. rest \in Places /\ bag[i] \in Nat /\ Count(place, i) \in Nat
  BY WithoutFields, CountType DEF Bags
<1>1. \A e \in EntryId :
        /\ place[e] = NoEntry => rest[e] = NoEntry
        /\ place[e] # NoEntry /\ rest[e] # NoEntry => rest[e].item = place[e].item
        /\ place[e] # NoEntry /\ place[e].item = i =>
             /\ place[e].quantity > bag[i] =>
                  rest[e] # NoEntry /\ rest[e].quantity = place[e].quantity - bag[i]
             /\ place[e].quantity <= bag[i] => rest[e] = NoEntry
  <2> SUFFICES ASSUME NEW e \in EntryId
               PROVE  /\ place[e] = NoEntry => rest[e] = NoEntry
                      /\ place[e] # NoEntry /\ rest[e] # NoEntry => rest[e].item = place[e].item
                      /\ place[e] # NoEntry /\ place[e].item = i =>
                           /\ place[e].quantity > bag[i] =>
                                rest[e] # NoEntry /\ rest[e].quantity = place[e].quantity - bag[i]
                           /\ place[e].quantity <= bag[i] => rest[e] = NoEntry
    OBVIOUS
  <2>1. place[e] # NoEntry => /\ place[e].quantity \in Nat /\ place[e].item \in Item
                              /\ bag[place[e].item] \in Nat
    BY EntryFields DEF Bags
  <2> HIDE DEF rest
  <2> QED
    BY <2>1, WithoutFields DEF rest
<1> HIDE DEF rest
<1>2. CASE bag[i] = 0
  <2>1. \A e \in EntryId : At(rest, i)[e] = At(place, i)[e]
    <3> SUFFICES ASSUME NEW e \in EntryId
                 PROVE  At(rest, i)[e] = At(place, i)[e]
      OBVIOUS
    <3>1. CASE place[e] = NoEntry
      BY <1>0, <1>1, <3>1, AtFields
    <3>2. CASE place[e] # NoEntry /\ place[e].item # i
      BY <1>0, <1>1, <3>2, AtFields
    <3>3. CASE place[e] # NoEntry /\ place[e].item = i
      <4>1. place[e].quantity \in Nat \ {0} /\ At(place, i)[e] = place[e].quantity
        BY <3>3, AtFields
      <4>2. rest[e] # NoEntry /\ rest[e].quantity = place[e].quantity /\ rest[e].item = i
        BY <1>1, <1>2, <3>3, <4>1
      <4> QED
        BY <1>0, <4>1, <4>2, AtFields
    <3> QED
      BY <3>1, <3>2, <3>3
  <2>2. Count(rest, i) = Count(place, i)
    BY <1>0, <2>1, CountSame
  <2> QED
    BY <1>0, <1>2, <2>2 DEF rest
<1>3. CASE bag[i] > 0
  <2>1. i \in Stackable /\ Count(place, i) >= bag[i]
    BY <1>3 DEF Covers
  <2>2. PICK e \in EntryId :
           /\ place[e] # NoEntry /\ place[e].item = i
           /\ Count(place, i) = place[e].quantity
           /\ \A d \in EntryId : d # e => At(place, i)[d] = 0
    <3>1. Count(place, i) > 0
      BY <1>0, <1>3, <2>1
    <3> QED
      BY <2>1, <3>1, CountStack
  <2>3. \A d \in EntryId : d # e => At(rest, i)[d] = At(place, i)[d]
    <3> SUFFICES ASSUME NEW d \in EntryId, d # e
                 PROVE  At(rest, i)[d] = At(place, i)[d]
      OBVIOUS
    <3>1. At(place, i)[d] = 0 /\ (place[d] = NoEntry \/ place[d].item # i)
      BY <2>2, AtFields
    <3> QED
      BY <1>0, <1>1, <3>1, AtFields
  <2>4. At(place, i)[e] = place[e].quantity /\ place[e].quantity \in Nat \ {0}
    BY <2>2, AtFields
  <2>5. At(rest, i)[e] = place[e].quantity - bag[i]
    <3>1. CASE place[e].quantity > bag[i]
      <4>1. rest[e] # NoEntry /\ rest[e].item = i /\ rest[e].quantity = place[e].quantity - bag[i]
        BY <1>1, <2>2, <3>1
      <4> QED
        BY <1>0, <4>1, AtFields
    <3>2. CASE place[e].quantity = bag[i]
      <4>1. rest[e] = NoEntry
        BY <1>0, <1>1, <2>2, <3>2
      <4>2. At(rest, i)[e] = 0
        BY <1>0, <4>1, AtFields
      <4> QED
        BY <1>0, <3>2, <4>2
    <3> QED
      BY <1>0, <2>1, <2>2, <2>4, <3>1, <3>2
  <2>6. Count(rest, i) = Count(place, i) - At(place, i)[e] + At(rest, i)[e]
    BY <1>0, <2>3, CountUpdate
  <2> QED
    BY <1>0, <2>2, <2>4, <2>5, <2>6 DEF rest
<1> QED
  BY <1>0, <1>2, <1>3

(* A bag that is added to a place is in it, in entries that were free.     *)
LEMMA WithCounts ==
  ASSUME NEW place \in Places, Single(place), NEW bag \in Bags, NEW pool \in SUBSET EntryId,
         NEW ids \in NewIds(place, bag, pool), pool \cap Held(place) = {},
         NEW i \in Item
  PROVE  Count(With(place, bag, ids), i) = Count(place, i) + bag[i]
<1> DEFINE more == With(place, bag, ids)
<1>0. more \in Places /\ bag[i] \in Nat /\ Count(place, i) \in Nat
  BY WithFields, CountType DEF Bags
<1>1. \A k \in DOMAIN ids :
        /\ ids[k] \in EntryId /\ place[ids[k]] = NoEntry /\ bag[k] \in Nat \ {0}
        /\ more[ids[k]] # NoEntry /\ more[ids[k]].item = k /\ more[ids[k]].quantity = bag[k]
  <2> SUFFICES ASSUME NEW k \in DOMAIN ids
               PROVE  /\ ids[k] \in EntryId /\ place[ids[k]] = NoEntry /\ bag[k] \in Nat \ {0}
                      /\ more[ids[k]] # NoEntry /\ more[ids[k]].item = k
                      /\ more[ids[k]].quantity = bag[k]
    OBVIOUS
  <2>1. ids[k] \in EntryId /\ ids[k] \in pool /\ k \in Item /\ bag[k] \in Nat \ {0}
    BY IdsFields
  <2>2. place[ids[k]] = NoEntry
    BY <2>1 DEF Held
  <2>3. more[ids[k]] = [item |-> k, quantity |-> bag[k]]
    BY WithFields
  <2> HIDE DEF more
  <2> QED
    BY <2>1, <2>2, <2>3, EntryMade
<1>2. \A e \in EntryId : (\A k \in DOMAIN ids : ids[k] # e) =>
        /\ place[e] = NoEntry => more[e] = NoEntry
        /\ place[e] # NoEntry =>
             /\ more[e] # NoEntry /\ more[e].item = place[e].item
             /\ more[e].quantity = place[e].quantity
                  + IF place[e].item \in Stackable THEN bag[place[e].item] ELSE 0
  BY WithFields
<1>3. \A k \in DOMAIN ids : StackIn(place, k) = {}
  BY IdsFields
<1> HIDE DEF more
<1>4. ASSUME NEW e \in EntryId,
             \/ \E k \in DOMAIN ids : k # i /\ ids[k] = e
             \/ (\A k \in DOMAIN ids : ids[k] # e) /\ (place[e] = NoEntry \/ place[e].item # i)
             \/ (\A k \in DOMAIN ids : ids[k] # e) /\ (bag[i] = 0 \/ i \notin Stackable)
      PROVE  At(more, i)[e] = At(place, i)[e]
  <2>1. CASE \E k \in DOMAIN ids : k # i /\ ids[k] = e
    BY <1>0, <1>1, <2>1, AtFields
  <2>2. CASE (\A k \in DOMAIN ids : ids[k] # e) /\ (place[e] = NoEntry \/ place[e].item # i)
    BY <1>0, <1>2, <2>2, AtFields
  <2>3. CASE /\ \A k \in DOMAIN ids : ids[k] # e
             /\ place[e] # NoEntry /\ place[e].item = i /\ (bag[i] = 0 \/ i \notin Stackable)
    <3>1. place[e].quantity \in Nat \ {0} /\ At(place, i)[e] = place[e].quantity
      BY <2>3, AtFields
    <3>2. more[e] # NoEntry /\ more[e].item = i /\ more[e].quantity = place[e].quantity
      BY <1>2, <2>3, <3>1
    <3> QED
      BY <1>0, <3>1, <3>2, AtFields
  <2> QED
    BY <1>4, <2>1, <2>2, <2>3
<1>5. DOMAIN ids = {k \in Item : bag[k] > 0 /\ StackIn(place, k) = {}}
  <2>1. DOMAIN ids = NewKinds(place, bag)
    BY IdsFields
  <2> QED
    BY <2>1 DEF NewKinds
<1>6. CASE bag[i] = 0
  <2>1. \A e \in EntryId : At(more, i)[e] = At(place, i)[e]
    <3> SUFFICES ASSUME NEW e \in EntryId
                 PROVE  At(more, i)[e] = At(place, i)[e]
      OBVIOUS
    <3>1. i \notin DOMAIN ids
      BY <1>5, <1>6
    <3> QED
      BY <1>4, <1>6, <3>1
  <2>2. Count(more, i) = Count(place, i)
    BY <1>0, <2>1, CountSame
  <2> QED
    BY <1>0, <1>6, <2>2 DEF more
<1>7. CASE bag[i] > 0 /\ StackIn(place, i) = {}
  <2>1. i \in DOMAIN ids
    BY <1>5, <1>7
  <2> DEFINE e == ids[i]
  <2>2. e \in EntryId /\ At(place, i)[e] = 0 /\ At(more, i)[e] = bag[i]
    BY <1>0, <1>1, <2>1, AtFields
  <2>3. \A d \in EntryId : d # e => At(more, i)[d] = At(place, i)[d]
    <3> SUFFICES ASSUME NEW d \in EntryId, d # e
                 PROVE  At(more, i)[d] = At(place, i)[d]
      OBVIOUS
    <3>1. d \in Held(place) /\ place[d].item = i => i \notin Stackable
      BY <1>7 DEF StackIn
    <3>2. d \in Held(place) <=> place[d] # NoEntry
      BY DEF Held
    <3> QED
      BY <1>4, <3>1, <3>2
  <2>4. Count(more, i) = Count(place, i) - At(place, i)[e] + At(more, i)[e]
    <3> HIDE DEF e
    <3> QED
      BY <1>0, <2>2, <2>3, CountUpdate
  <2> QED
    BY <1>0, <2>2, <2>4 DEF more
<1>8. CASE bag[i] > 0 /\ StackIn(place, i) # {}
  <2>1. PICK e \in StackIn(place, i) : TRUE
    BY <1>8
  <2>2. e \in EntryId /\ place[e] # NoEntry /\ place[e].item = i /\ i \in Stackable
    BY <2>1 DEF StackIn, Held
  <2>3. \A k \in DOMAIN ids : ids[k] # e
    BY <1>1, <2>2
  <2>4. i \notin DOMAIN ids
    BY <1>5, <1>8
  <2>5. At(place, i)[e] = place[e].quantity /\ place[e].quantity \in Nat
    BY <2>2, AtFields
  <2>6. At(more, i)[e] = place[e].quantity + bag[i]
    <3>1. more[e] # NoEntry /\ more[e].item = i /\ more[e].quantity = place[e].quantity + bag[i]
      BY <1>2, <2>2, <2>3
    <3> QED
      BY <1>0, <2>2, <3>1, AtFields
  <2>7. \A d \in EntryId : d # e => At(more, i)[d] = At(place, i)[d]
    <3> SUFFICES ASSUME NEW d \in EntryId, d # e
                 PROVE  At(more, i)[d] = At(place, i)[d]
      OBVIOUS
    <3>1. place[d] = NoEntry \/ place[d].item # i
      BY <2>2 DEF Single
    <3> QED
      BY <1>4, <2>4, <3>1
  <2>8. Count(more, i) = Count(place, i) - At(place, i)[e] + At(more, i)[e]
    BY <1>0, <2>2, <2>7, CountUpdate
  <2> QED
    BY <1>0, <2>5, <2>6, <2>8 DEF more
<1> QED
  BY <1>0, <1>6, <1>7, <1>8

-----------------------------------------------------------------------------
(* The goods.  What is owned is what the journal says, and every entry has *)
(* one place.                                                              *)
PlacesTyped ==
  /\ inventory \in Places /\ storage \in Places
  /\ equipment \in [Slot -> Worn \cup {NoEntry}]
  /\ learned \subseteq Recipe

JournalTyped ==
  /\ IsFiniteSet(DOMAIN journal)
  /\ \A key \in DOMAIN journal : journal[key] \in [Item -> Int]

Placed ==
  /\ Held(inventory) \cap Held(storage) = {}
  /\ \A s \in Slot : equipment[s] # NoEntry =>
       /\ s \in SlotsOf[equipment[s].item]
       /\ equipment[s].id \notin Held(inventory) \cup Held(storage)
       /\ \A t \in Slot \ {s} : equipment[t] # NoEntry => equipment[t].id # equipment[s].id
  /\ Single(inventory) /\ Single(storage)

Reconciled == \A i \in Item : Pieces(i) = Count(InitialInventory, i) + Journalled(i)

GoodsOK == PlacesTyped /\ JournalTyped /\ Placed /\ Reconciled

(* An operation adds its change to the journal.                            *)
LEMMA JournalAdds ==
  ASSUME JournalTyped, NEW key, NEW change \in [Item -> Int], Applied(key, change)
  PROVE  /\ JournalTyped'
         /\ \A i \in Item : Journalled(i) \in Int /\ Journalled(i)' = Journalled(i) + change[i]
<1> DEFINE D == DOMAIN journal
<1>1. key \notin D /\ IsFiniteSet(D)
  BY DEF Applied, Known, JournalTyped
<1>2. /\ DOMAIN journal' = D \cup {key} /\ journal'[key] = change
      /\ \A k \in D : journal'[k] = journal[k]
  BY <1>1 DEF Applied
<1>3. IsFiniteSet(D \cup {key})
  BY <1>1, FS_AddElement
<1>4. JournalTyped'
  BY <1>2, <1>3 DEF JournalTyped
<1>5. ASSUME NEW i \in Item
      PROVE  Journalled(i) \in Int /\ Journalled(i)' = Journalled(i) + change[i]
  <2> DEFINE f == [k \in D |-> journal[k][i]]
             g == [k \in D \cup {key} |-> journal'[k][i]]
  <2>1. \A k \in D : f[k] \in Int /\ g[k] = f[k]
    BY <1>2 DEF JournalTyped
  <2>2. g[key] = change[i] /\ change[i] \in Int
    BY <1>2
  <2>3. Journalled(i) = SumOver(f, D) /\ Journalled(i)' = SumOver(g, D \cup {key})
    BY <1>2 DEF Journalled
  <2>4. (D \cup {key}) \ {key} = D
    BY <1>1
  <2> HIDE DEF f, g, D
  <2>5. \A k \in D \cup {key} : g[k] \in Int
    BY <2>1, <2>2
  <2>6. SumOver(g, D \cup {key}) = g[key] + SumOver(g, (D \cup {key}) \ {key})
    BY <1>3, <2>5, SumLaw
  <2>7. \A k \in D : f[k] \in Int /\ f[k] = g[k]
    BY <2>1
  <2>8. SumOver(f, D) = SumOver(g, D)
    BY <1>1, <2>7, SumCongruence
  <2>9. SumOver(f, D) \in Int
    BY <1>1, <2>7, SumLaw
  <2>10. SumOver(g, D \cup {key}) = change[i] + SumOver(f, D)
    BY <2>2, <2>4, <2>6, <2>8
  <2>11. Journalled(i) \in Int
    BY <2>3, <2>9
  <2>12. Journalled(i)' = change[i] + Journalled(i)
    BY <2>3, <2>10
  <2>13. change[i] + Journalled(i) = Journalled(i) + change[i]
    BY <2>2, <2>11
  <2> QED
    BY <2>11, <2>12, <2>13
<1> QED
  BY <1>4, <1>5

(* An operation whose change is what it does to the pieces keeps the books.*)
LEMMA GoodsStep ==
  ASSUME GoodsOK, NEW key, NEW change \in [Item -> Int], Applied(key, change),
         PlacesTyped', Placed',
         \A i \in Item : Pieces(i)' = Pieces(i) + change[i]
  PROVE  GoodsOK'
<1>1. JournalTyped' /\ \A i \in Item : Journalled(i) \in Int
                                       /\ Journalled(i)' = Journalled(i) + change[i]
  BY JournalAdds DEF GoodsOK
<1>2. ASSUME NEW i \in Item
      PROVE  Pieces(i)' = Count(InitialInventory, i) + Journalled(i)'
  <2>1. Pieces(i) = Count(InitialInventory, i) + Journalled(i) /\ Pieces(i)' = Pieces(i) + change[i]
    BY DEF GoodsOK, Reconciled
  <2>2. InitialInventory \in Places
    BY GoodsAssumption DEF Places
  <2>3. Count(InitialInventory, i) \in Nat
    BY <2>2, CountType
  <2>4. change[i] \in Int
    OBVIOUS
  <2> QED
    BY <1>1, <2>1, <2>3, <2>4
<1> QED
  BY <1>1, <1>2 DEF GoodsOK, Reconciled

(* Steps that leave the goods alone.                                       *)
LEMMA GoodsUnchanged ==
  ASSUME GoodsOK, UNCHANGED <<places, learned, journal>>
  PROVE  GoodsOK'
BY DEF GoodsOK, PlacesTyped, JournalTyped, Placed, Reconciled, Pieces, Journalled, places

LEMMA PiecesType ==
  ASSUME PlacesTyped, NEW i \in Item
  PROVE  /\ Count(inventory, i) \in Nat /\ Count(storage, i) \in Nat
         /\ Cardinality({s \in Slot : equipment[s] # NoEntry /\ equipment[s].item = i}) \in Nat
<1>1. IsFiniteSet({s \in Slot : equipment[s] # NoEntry /\ equipment[s].item = i})
  BY GoodsAssumption, FS_Subset
<1> QED
  BY <1>1, FS_CardinalityType, CountType DEF PlacesTyped

LEMMA GoodsJournalled ==
  ASSUME GoodsOK, NEW key, Applied(key, Nothing), UNCHANGED <<places, learned>>
  PROVE  GoodsOK'
<1>1. Nothing \in [Item -> Int]
  BY DEF Nothing
<1>2. PlacesTyped' /\ Placed'
  BY DEF GoodsOK, PlacesTyped, Placed, places
<1>3. \A i \in Item : Pieces(i)' = Pieces(i) + Nothing[i]
  <2> SUFFICES ASSUME NEW i \in Item
               PROVE  Pieces(i)' = Pieces(i) + Nothing[i]
    OBVIOUS
  <2>1. Pieces(i)' = Pieces(i) /\ Nothing[i] = 0
    BY DEF Pieces, places, Nothing
  <2>2. Pieces(i) \in Int
    BY PiecesType DEF GoodsOK, Pieces
  <2> QED
    BY <2>1, <2>2
<1> QED
  BY <1>1, <1>2, <1>3, GoodsStep

-----------------------------------------------------------------------------
(* What is added to and taken from the inventory alone.                    *)
LEMMA WithoutIsSingle ==
  ASSUME NEW place \in Places, Single(place), NEW bag \in Bags
  PROVE  /\ Single(Without(place, bag))
         /\ Held(Without(place, bag)) \subseteq Held(place)
<1> DEFINE rest == Without(place, bag)
<1>1. \A e \in EntryId : rest[e] # NoEntry => place[e] # NoEntry /\ rest[e].item = place[e].item
  <2> SUFFICES ASSUME NEW e \in EntryId, rest[e] # NoEntry
               PROVE  place[e] # NoEntry /\ rest[e].item = place[e].item
    OBVIOUS
  <2>1. place[e] # NoEntry => /\ place[e].quantity \in Nat /\ place[e].item \in Item
                              /\ bag[place[e].item] \in Nat
    BY EntryFields DEF Bags
  <2> HIDE DEF rest
  <2> QED
    BY <2>1, WithoutFields DEF rest
<1> HIDE DEF rest
<1>2. Single(rest) /\ Held(rest) \subseteq Held(place)
  BY <1>1 DEF Single, Held
<1> QED
  BY <1>2 DEF rest

LEMMA WithIsSingle ==
  ASSUME NEW place \in Places, Single(place), NEW bag \in Bags, NEW pool \in SUBSET EntryId,
         NEW ids \in NewIds(place, bag, pool)
  PROVE  /\ Single(With(place, bag, ids))
         /\ Held(With(place, bag, ids)) \subseteq Held(place) \cup pool
<1> DEFINE more == With(place, bag, ids)
<1>1. \A k \in DOMAIN ids : /\ ids[k] \in EntryId /\ ids[k] \in pool
                            /\ more[ids[k]].item = k /\ StackIn(place, k) = {}
  <2> SUFFICES ASSUME NEW k \in DOMAIN ids
               PROVE  /\ ids[k] \in EntryId /\ ids[k] \in pool
                      /\ more[ids[k]].item = k /\ StackIn(place, k) = {}
    OBVIOUS
  <2>1. ids[k] \in EntryId /\ ids[k] \in pool /\ StackIn(place, k) = {}
    BY IdsFields
  <2>2. more[ids[k]] = [item |-> k, quantity |-> bag[k]]
    BY WithFields
  <2> QED
    BY <2>1, <2>2
<1>2. \A e \in EntryId : (\A k \in DOMAIN ids : ids[k] # e) =>
        /\ place[e] = NoEntry => more[e] = NoEntry
        /\ place[e] # NoEntry => more[e] # NoEntry /\ more[e].item = place[e].item
  BY WithFields
<1> HIDE DEF more
<1>3. Single(more)
  <2> SUFFICES ASSUME NEW d \in EntryId, NEW e \in EntryId,
                      more[d] # NoEntry, more[e] # NoEntry,
                      more[d].item \in Stackable, more[d].item = more[e].item
               PROVE  d = e
    BY DEF Single
  <2>1. ASSUME NEW x \in EntryId, NEW y \in EntryId, NEW k \in DOMAIN ids, ids[k] = x,
               more[y] # NoEntry, more[y].item = more[x].item, more[x].item \in Stackable
        PROVE  x = y
    <3>1. k \in Stackable /\ more[y].item = k
      BY <1>1, <2>1
    <3>2. CASE \E j \in DOMAIN ids : ids[j] = y
      BY <1>1, <2>1, <3>1, <3>2
    <3>3. CASE \A j \in DOMAIN ids : ids[j] # y
      <4>1. y \in Held(place) /\ place[y].item = k
        BY <1>2, <2>1, <3>1, <3>3 DEF Held
      <4>2. y \in StackIn(place, k)
        BY <3>1, <4>1 DEF StackIn
      <4> QED
        BY <1>1, <4>2
    <3> QED
      BY <3>2, <3>3
  <2>2. CASE \E k \in DOMAIN ids : ids[k] = d
    BY <2>1, <2>2
  <2>3. CASE \E k \in DOMAIN ids : ids[k] = e
    BY <2>1, <2>3
  <2>4. CASE (\A k \in DOMAIN ids : ids[k] # d) /\ (\A k \in DOMAIN ids : ids[k] # e)
    BY <1>2, <2>4 DEF Single
  <2> QED
    BY <2>2, <2>3, <2>4
<1>4. Held(more) \subseteq Held(place) \cup pool
  BY <1>1, <1>2 DEF Held
<1> QED
  BY <1>3, <1>4 DEF more

(* An inventory that gains free entries only stays apart from the others.  *)
LEMMA InventoryPlaced ==
  ASSUME PlacesTyped, Placed, UNCHANGED <<storage, equipment>>,
         Single(inventory'), Held(inventory)' \subseteq Held(inventory) \cup Fresh
  PROVE  Placed'
<1>1. /\ Fresh \cap Held(storage) = {}
      /\ \A s \in Slot : equipment[s] # NoEntry => equipment[s].id \notin Fresh
  BY DEF Fresh
<1> QED
  BY <1>1 DEF Placed, Held, Single

LEMMA InventoryStep ==
  ASSUME GoodsOK, NEW key, NEW change \in [Item -> Int], Applied(key, change),
         UNCHANGED <<storage, equipment>>, learned' \subseteq Recipe,
         inventory' \in Places, Single(inventory'),
         Held(inventory') \subseteq Held(inventory) \cup Fresh,
         \A i \in Item : Count(inventory', i) = Count(inventory, i) + change[i]
  PROVE  GoodsOK'
<1>1. PlacesTyped'
  BY DEF GoodsOK, PlacesTyped
<1>2. Placed'
  <2>1. Held(inventory)' \subseteq Held(inventory) \cup Fresh
    BY DEF Held
  <2> QED
    BY <2>1, InventoryPlaced DEF GoodsOK
<1>3. \A i \in Item : Pieces(i)' = Pieces(i) + change[i]
  <2> SUFFICES ASSUME NEW i \in Item
               PROVE  Pieces(i)' = Pieces(i) + change[i]
    OBVIOUS
  <2> DEFINE worn == Cardinality({s \in Slot : equipment[s] # NoEntry /\ equipment[s].item = i})
  <2>1. Count(inventory, i) \in Nat /\ Count(storage, i) \in Nat /\ worn \in Nat
    BY PiecesType DEF GoodsOK
  <2>2. /\ Pieces(i) = Count(inventory, i) + Count(storage, i) + worn
        /\ Pieces(i)' = Count(inventory', i) + Count(storage, i) + worn
    BY DEF Pieces, Count, Held
  <2>3. change[i] \in Int /\ Count(inventory', i) = Count(inventory, i) + change[i]
    OBVIOUS
  <2> HIDE DEF worn
  <2> QED
    BY <2>1, <2>2, <2>3
<1> QED
  BY <1>1, <1>2, <1>3, GoodsStep

LEMMA FreshIsFree ==
  /\ Fresh \subseteq EntryId
  /\ Fresh \cap Held(inventory) = {} /\ Fresh \cap Held(storage) = {}
  /\ \A s \in Slot : equipment[s] # NoEntry => equipment[s].id \notin Fresh
BY DEF Fresh

LEMMA TakeOne ==
  ASSUME GoodsOK, NEW i \in Stackable, Covers(inventory, Some(i, 1)),
         NEW key, Applied(key, Some(i, -1)), UNCHANGED <<storage, equipment>>,
         learned' \subseteq Recipe, inventory' = Without(inventory, Some(i, 1))
  PROVE  GoodsOK'
<1>1. /\ i \in Item /\ Some(i, 1) \in Bags /\ Some(i, -1) \in [Item -> Int]
      /\ \A k \in Item : /\ Some(i, 1)[k] = IF k = i THEN 1 ELSE 0
                         /\ Some(i, -1)[k] = IF k = i THEN -1 ELSE 0
  <2>1. i \in Item /\ 1 \in Nat /\ 1 \in Int /\ -1 \in Int
    BY GoodsAssumption
  <2> QED
    BY <2>1, SomeFields
<1>2. inventory \in Places /\ Single(inventory)
  BY DEF GoodsOK, PlacesTyped, Placed
<1>3. /\ inventory' \in Places /\ Single(inventory')
      /\ Held(inventory') \subseteq Held(inventory) \cup Fresh
  BY <1>1, <1>2, WithoutFields, WithoutIsSingle
<1>4. \A k \in Item : Count(inventory', k) = Count(inventory, k) + Some(i, -1)[k]
  <2> SUFFICES ASSUME NEW k \in Item
               PROVE  Count(inventory', k) = Count(inventory, k) + Some(i, -1)[k]
    OBVIOUS
  <2>1. \A j \in Item : Some(i, 1)[j] > 0 => j \in Stackable
    BY <1>1
  <2>2. Count(Without(inventory, Some(i, 1)), k) = Count(inventory, k) - Some(i, 1)[k]
    BY <1>1, <1>2, <2>1, WithoutCounts
  <2>3. Count(inventory, k) \in Nat
    BY <1>2, CountType
  <2>4. Some(i, 1)[k] = (IF k = i THEN 1 ELSE 0) /\ Some(i, -1)[k] = (IF k = i THEN -1 ELSE 0)
    BY <1>1
  <2> QED
    BY <2>2, <2>3, <2>4
<1> QED
  BY <1>1, <1>3, <1>4, InventoryStep

LEMMA LearnRecipeGoods ==
  ASSUME GoodsOK, NEW op, NEW recipe \in Recipe, LearnRecipe(op, recipe)
  PROVE  GoodsOK'
<1>1. RecipeItem[recipe] \in Stackable
  BY GoodsAssumption
<1>2. learned' \subseteq Recipe
  BY DEF LearnRecipe, GoodsOK, PlacesTyped
<1> QED
  BY <1>1, <1>2, TakeOne DEF LearnRecipe

LEMMA ConsumeItemGoods ==
  ASSUME GoodsOK, NEW op, NEW i \in Stackable, ConsumeItem(op, i)
  PROVE  GoodsOK'
<1>1. learned' \subseteq Recipe
  BY DEF ConsumeItem, GoodsOK, PlacesTyped
<1> QED
  BY <1>1, TakeOne DEF ConsumeItem

LEMMA ReceiveGoods ==
  ASSUME GoodsOK, NEW key, NEW bag \in Bags, Receive(key, bag)
  PROVE  GoodsOK'
<1>1. bag \in [Item -> Int]
  BY DEF Bags
<1>2. inventory \in Places /\ Single(inventory) /\ learned' \subseteq Recipe
  BY DEF GoodsOK, PlacesTyped, Placed, Receive
<1>3. PICK ids \in NewIds(inventory, bag, Fresh) : inventory' = With(inventory, bag, ids)
  BY DEF Receive
<1>4. Fresh \in SUBSET EntryId /\ Fresh \cap Held(inventory) = {}
  BY FreshIsFree
<1>5. /\ inventory' \in Places /\ Single(inventory')
      /\ Held(inventory') \subseteq Held(inventory) \cup Fresh
  BY <1>2, <1>3, <1>4, WithFields, WithIsSingle
<1>6. \A i \in Item : Count(inventory', i) = Count(inventory, i) + bag[i]
  <2> SUFFICES ASSUME NEW i \in Item
               PROVE  Count(inventory', i) = Count(inventory, i) + bag[i]
    OBVIOUS
  <2>1. Count(With(inventory, bag, ids), i) = Count(inventory, i) + bag[i]
    BY <1>2, <1>4, WithCounts
  <2> QED
    BY <1>3, <2>1
<1>7. Applied(key, bag) /\ UNCHANGED <<storage, equipment>>
  BY DEF Receive
<1> QED
  BY <1>1, <1>2, <1>5, <1>6, <1>7, InventoryStep

LEMMA CraftGoods ==
  ASSUME GoodsOK, NEW op, NEW recipe \in Recipe, Craft(op, recipe)
  PROVE  GoodsOK'
<1> DEFINE needed == Requirement[recipe]
           rest == Without(inventory, needed)
           yield == Some(Output[recipe], OutputQuantity[recipe])
           change == Minus(yield, needed)
<1>1. /\ needed \in Bags /\ Output[recipe] \in Item
      /\ \A k \in Item : needed[k] > 0 => k \in Stackable
  BY GoodsAssumption DEF Bags
<1>2. yield \in Bags
  <2>1. OutputQuantity[recipe] \in Nat
    BY GoodsAssumption
  <2> QED
    BY <1>1, <2>1, SomeFields
<1>3. change \in [Item -> Int] /\ \A i \in Item : change[i] = yield[i] - needed[i]
  <2>1. \A i \in Item : yield[i] \in Int /\ needed[i] \in Int
    BY <1>1, <1>2 DEF Bags
  <2> HIDE DEF yield, needed
  <2> QED
    BY <2>1 DEF Minus
<1>4. PICK ids \in NewIds(rest, yield, Fresh) : inventory' = With(rest, yield, ids)
  BY DEF Craft
<1>5. Covers(inventory, needed) /\ Applied(<<"craft", op>>, change)
      /\ UNCHANGED <<storage, equipment, learned>>
  BY DEF Craft
<1> HIDE DEF needed, yield, change
<1>6. inventory \in Places /\ Single(inventory) /\ learned' \subseteq Recipe
  BY <1>5 DEF GoodsOK, PlacesTyped, Placed
<1>7. rest \in Places /\ Single(rest) /\ Held(rest) \subseteq Held(inventory)
  BY <1>1, <1>6, WithoutFields, WithoutIsSingle
<1>8. \A i \in Item : Count(rest, i) = Count(inventory, i) - needed[i]
  <2> SUFFICES ASSUME NEW i \in Item
               PROVE  Count(rest, i) = Count(inventory, i) - needed[i]
    OBVIOUS
  <2> QED
    BY <1>1, <1>5, <1>6, WithoutCounts
<1> HIDE DEF rest
<1>9. Fresh \in SUBSET EntryId /\ Fresh \cap Held(rest) = {}
  BY <1>7, FreshIsFree
<1>10. /\ inventory' \in Places /\ Single(inventory')
       /\ Held(inventory') \subseteq Held(inventory) \cup Fresh
  BY <1>2, <1>4, <1>7, <1>9, WithFields, WithIsSingle
<1>11. \A i \in Item : Count(inventory', i) = Count(inventory, i) + change[i]
  <2> SUFFICES ASSUME NEW i \in Item
               PROVE  Count(inventory', i) = Count(inventory, i) + change[i]
    OBVIOUS
  <2>1. Count(With(rest, yield, ids), i) = Count(rest, i) + yield[i]
    BY <1>2, <1>7, <1>9, WithCounts
  <2>2. Count(inventory, i) \in Nat /\ yield[i] \in Nat /\ needed[i] \in Nat
    BY <1>1, <1>2, <1>6, CountType DEF Bags
  <2> QED
    BY <1>3, <1>4, <1>8, <2>1, <2>2
<1> QED
  BY <1>3, <1>5, <1>6, <1>10, <1>11, InventoryStep

-----------------------------------------------------------------------------
(* The slots.                                                              *)
Gear == [Slot -> Worn \cup {NoEntry}]
OneOf(worn, i) == IF worn # NoEntry /\ worn.item = i THEN 1 ELSE 0
Wearing(eq, i) == {s \in Slot : eq[s] # NoEntry /\ eq[s].item = i}

LEMMA WornFields ==
  ASSUME NEW worn \in Worn
  PROVE  /\ worn # NoEntry /\ worn.id \in EntryId /\ worn.item \in Item
         /\ [item |-> worn.item, quantity |-> 1] \in Entry
         /\ [item |-> worn.item, quantity |-> 1] # NoEntry
<1>1. worn # NoEntry /\ worn.id \in EntryId /\ worn.item \in Item
  BY GoodsAssumption DEF Worn
<1>2. 1 \in Nat \ {0}
  OBVIOUS
<1> QED
  BY <1>1, <1>2, EntryMade

LEMMA WearingUpdate ==
  ASSUME NEW eq \in Gear, NEW new \in Gear, NEW slot \in Slot, \A s \in Slot : s # slot => new[s] = eq[s],
         NEW i \in Item
  PROVE  /\ Cardinality(Wearing(eq, i)) \in Nat
         /\ Cardinality(Wearing(new, i))
              = Cardinality(Wearing(eq, i)) - OneOf(eq[slot], i) + OneOf(new[slot], i)
<1> DEFINE R == Wearing(eq, i) \ {slot}
<1>1. IsFiniteSet(Wearing(eq, i)) /\ IsFiniteSet(Wearing(new, i)) /\ IsFiniteSet(R)
  BY GoodsAssumption, FS_Subset DEF Wearing
<1>2. R = Wearing(new, i) \ {slot} /\ slot \notin R
  BY DEF Wearing
<1>3. ASSUME NEW x, R = Wearing(x, i) \ {slot}
      PROVE  Cardinality(Wearing(x, i)) = Cardinality(R) + OneOf(x[slot], i)
  <2>1. slot \in Wearing(x, i) <=> OneOf(x[slot], i) = 1
    BY DEF Wearing, OneOf
  <2>2. OneOf(x[slot], i) \in {0, 1}
    BY DEF OneOf
  <2>3. CASE slot \in Wearing(x, i)
    <3>1. Wearing(x, i) = R \cup {slot}
      BY <1>3, <2>3
    <3>2. Cardinality(R \cup {slot}) = Cardinality(R) + 1
      BY <1>1, <1>2, FS_AddElement
    <3> QED
      BY <2>1, <2>3, <3>1, <3>2
  <2>4. CASE slot \notin Wearing(x, i)
    <3>1. Wearing(x, i) = R
      BY <1>3, <2>4
    <3>2. Cardinality(R) \in Nat
      BY <1>1, FS_CardinalityType
    <3> QED
      BY <2>1, <2>2, <2>4, <3>1, <3>2
  <2> QED
    BY <2>3, <2>4
<1>4. Cardinality(Wearing(eq, i)) = Cardinality(R) + OneOf(eq[slot], i)
  BY <1>3
<1>5. Cardinality(Wearing(new, i)) = Cardinality(R) + OneOf(new[slot], i)
  BY <1>2, <1>3
<1>6. Cardinality(R) \in Nat /\ Cardinality(Wearing(eq, i)) \in Nat
  BY <1>1, FS_CardinalityType
<1>7. OneOf(eq[slot], i) \in {0, 1} /\ OneOf(new[slot], i) \in {0, 1}
  BY DEF OneOf
<1> HIDE DEF R
<1> QED
  BY <1>4, <1>5, <1>6, <1>7

(* What is taken off returns to the entry it came from.                    *)
LEMMA PutBackFields ==
  ASSUME NEW place \in Places, Single(place), NEW worn \in Worn \cup {NoEntry},
         worn # NoEntry => place[worn.id] = NoEntry /\ worn.item \notin Stackable
  PROVE  /\ PutBack(place, worn) \in Places /\ Single(PutBack(place, worn))
         /\ \A e \in Held(PutBack(place, worn)) :
              e \in Held(place) \/ (worn # NoEntry /\ e = worn.id)
         /\ \A i \in Item : Count(PutBack(place, worn), i) = Count(place, i) + OneOf(worn, i)
<1>1. CASE worn = NoEntry
  <2>1. \A i \in Item : Count(place, i) = Count(place, i) + OneOf(worn, i)
    BY <1>1, CountType DEF OneOf
  <2> DEFINE full == PutBack(place, worn)
  <2>2. full = place
    BY <1>1 DEF PutBack
  <2> HIDE DEF full
  <2>3. full \in Places /\ Single(full) /\ Held(full) = Held(place)
    BY <2>2
  <2>4. \A i \in Item : Count(full, i) = Count(place, i) + OneOf(worn, i)
    BY <2>1, <2>2
  <2> QED
    BY <2>3, <2>4 DEF full
<1>2. CASE worn # NoEntry
  <2> DEFINE full == PutBack(place, worn)
             piece == [item |-> worn.item, quantity |-> 1]
  <2>1. /\ worn.id \in EntryId /\ worn.item \in Item
        /\ piece \in Entry /\ piece # NoEntry
    BY <1>2, WornFields
  <2>2. full = [place EXCEPT ![worn.id] = piece]
    BY <1>2 DEF PutBack
  <2>3. /\ full \in Places /\ full[worn.id] = piece
        /\ \A e \in EntryId : e # worn.id => full[e] = place[e]
    BY <2>1, <2>2 DEF Places
  <2>4. piece.item = worn.item /\ piece.quantity = 1
    OBVIOUS
  <2> HIDE DEF full, piece
  <2>5. Single(full)
    BY <1>2, <2>3, <2>4 DEF Single
  <2>6. \A e \in Held(full) : e \in Held(place) \/ (worn # NoEntry /\ e = worn.id)
    <3>1. ASSUME NEW e \in Held(full), e # worn.id
          PROVE  e \in Held(place)
      <4>1. e \in EntryId /\ full[e] # NoEntry
        BY DEF Held
      <4> QED
        BY <2>3, <3>1, <4>1 DEF Held
    <3> QED
      BY <1>2, <3>1
  <2>7. ASSUME NEW i \in Item
        PROVE  Count(full, i) = Count(place, i) + OneOf(worn, i)
    <3>1. \A d \in EntryId : d # worn.id => At(full, i)[d] = At(place, i)[d]
      BY <2>3 DEF At, Held
    <3>2. Count(full, i) = Count(place, i) - At(place, i)[worn.id] + At(full, i)[worn.id]
      BY <2>1, <2>3, <3>1, CountUpdate
    <3>3. At(place, i)[worn.id] = 0
      BY <1>2, <2>1, AtFields
    <3>4. At(full, i)[worn.id] = OneOf(worn, i)
      BY <1>2, <2>1, <2>3, <2>4, AtFields DEF OneOf
    <3>5. OneOf(worn, i) \in Nat /\ Count(place, i) \in Nat
      BY CountType DEF OneOf
    <3> QED
      BY <3>2, <3>3, <3>4, <3>5
  <2> QED
    BY <2>3, <2>5, <2>6, <2>7 DEF full
<1> QED
  BY <1>1, <1>2

LEMMA PiecesOf ==
  ASSUME NEW i
  PROVE  /\ Pieces(i) = Count(inventory, i) + Count(storage, i)
                          + Cardinality(Wearing(equipment, i))
         /\ Pieces(i)' = Count(inventory', i) + Count(storage', i)
                           + Cardinality(Wearing(equipment', i))
BY DEF Pieces, Wearing, Count, Held

(* What is worn fits, so it is no stackable thing.                         *)
LEMMA WornIsSingle ==
  ASSUME PlacesTyped, Placed, NEW s \in Slot, equipment[s] # NoEntry
  PROVE  /\ equipment[s] \in Worn /\ equipment[s].item \notin Stackable
         /\ equipment[s].id \in EntryId
         /\ inventory[equipment[s].id] = NoEntry /\ storage[equipment[s].id] = NoEntry
<1>1. equipment[s] \in Worn
  BY DEF PlacesTyped
<1>2. equipment[s].id \in EntryId /\ equipment[s].item \in Item
  BY <1>1, WornFields
<1>3. s \in SlotsOf[equipment[s].item]
  BY DEF Placed
<1>4. equipment[s].item \notin Stackable
  BY <1>3, GoodsAssumption
<1>5. equipment[s].id \notin Held(inventory) /\ equipment[s].id \notin Held(storage)
  BY DEF Placed
<1> QED
  BY <1>1, <1>2, <1>4, <1>5 DEF Held

LEMMA UnequipGoods ==
  ASSUME GoodsOK, NEW op, NEW slot \in Slot, Unequip(op, slot)
  PROVE  GoodsOK'
<1> DEFINE worn == equipment[slot]
<1>1. /\ worn # NoEntry /\ Applied(<<"unequip", op>>, Nothing)
      /\ equipment' = [equipment EXCEPT ![slot] = NoEntry]
      /\ inventory' = PutBack(inventory, worn)
      /\ UNCHANGED <<storage, learned>>
  BY DEF Unequip
<1>2. PlacesTyped /\ Placed
  BY DEF GoodsOK
<1>3. /\ worn \in Worn /\ worn.item \notin Stackable /\ worn.id \in EntryId
      /\ inventory[worn.id] = NoEntry /\ storage[worn.id] = NoEntry
  BY <1>1, <1>2, WornIsSingle
<1>4. inventory \in Places /\ Single(inventory) /\ storage \in Places
  BY <1>2 DEF PlacesTyped, Placed
<1>5. /\ equipment'[slot] = NoEntry
      /\ \A s \in Slot : s # slot => equipment'[s] = equipment[s]
      /\ equipment' \in [Slot -> Worn \cup {NoEntry}]
  BY <1>1, <1>2 DEF PlacesTyped
<1>6. /\ inventory' \in Places /\ Single(inventory')
      /\ \A e \in Held(inventory') : e \in Held(inventory) \/ e = worn.id
      /\ \A i \in Item : Count(inventory', i) = Count(inventory, i) + OneOf(worn, i)
  <2> HIDE DEF worn
  <2> QED
    BY <1>1, <1>3, <1>4, PutBackFields
<1>7. PlacesTyped'
  BY <1>1, <1>2, <1>5, <1>6 DEF PlacesTyped
<1>8. Placed'
  <2>1. worn.id \notin Held(storage)
    BY <1>3 DEF Held
  <2>2. Held(inventory)' = Held(inventory') /\ Held(storage)' = Held(storage)
    BY <1>1 DEF Held
  <2>3. Held(inventory') \cap Held(storage) = {}
    BY <1>2, <1>6, <2>1 DEF Placed
  <2>4. \A s \in Slot : equipment'[s] # NoEntry =>
           /\ s # slot /\ equipment'[s] = equipment[s]
           /\ s \in SlotsOf[equipment[s].item]
           /\ equipment[s].id \notin Held(inventory) \cup Held(storage)
           /\ equipment[s].id # worn.id
           /\ \A t \in Slot \ {s} : equipment[t] # NoEntry => equipment[t].id # equipment[s].id
    BY <1>1, <1>2, <1>5 DEF Placed
  <2>5. \A s \in Slot : equipment'[s] # NoEntry =>
           /\ s \in SlotsOf[equipment'[s].item]
           /\ equipment'[s].id \notin Held(inventory') \cup Held(storage)
           /\ \A t \in Slot \ {s} : equipment'[t] # NoEntry => equipment'[t].id # equipment'[s].id
    BY <1>6, <2>4
  <2>6. Single(inventory)' /\ Single(storage)'
    BY <1>1, <1>2, <1>6 DEF Placed, Single
  <2> QED
    BY <2>2, <2>3, <2>5, <2>6 DEF Placed
<1>9. \A i \in Item : Pieces(i)' = Pieces(i) + Nothing[i]
  <2> SUFFICES ASSUME NEW i \in Item
               PROVE  Pieces(i)' = Pieces(i) + Nothing[i]
    OBVIOUS
  <2>1. /\ Cardinality(Wearing(equipment, i)) \in Nat
        /\ Cardinality(Wearing(equipment', i))
             = Cardinality(Wearing(equipment, i)) - OneOf(worn, i) + OneOf(equipment'[slot], i)
    <3> DEFINE new == equipment'
    <3>1. equipment \in Gear /\ new \in Gear
      BY <1>2, <1>5 DEF Gear, PlacesTyped
    <3>2. \A s \in Slot : s # slot => new[s] = equipment[s]
      BY <1>5
    <3> HIDE DEF new
    <3>3. /\ Cardinality(Wearing(equipment, i)) \in Nat
          /\ Cardinality(Wearing(new, i))
               = Cardinality(Wearing(equipment, i)) - OneOf(equipment[slot], i)
                   + OneOf(new[slot], i)
      BY <3>1, <3>2, WearingUpdate
    <3> QED
      BY <3>3 DEF new
  <2>2. OneOf(equipment'[slot], i) = 0 /\ OneOf(worn, i) \in Nat
    BY <1>5 DEF OneOf
  <2>3. Count(inventory, i) \in Nat /\ Count(storage, i) \in Nat
    BY <1>4, CountType
  <2>4. Nothing[i] = 0
    BY DEF Nothing
  <2>5. Count(storage', i) = Count(storage, i)
    BY <1>1
  <2> HIDE DEF worn
  <2> QED
    BY <1>6, <2>1, <2>2, <2>3, <2>4, <2>5, PiecesOf
<1>10. Nothing \in [Item -> Int]
  BY DEF Nothing
<1> QED
  BY <1>1, <1>7, <1>8, <1>9, <1>10, GoodsStep

LEMMA EquipGoods ==
  ASSUME GoodsOK, NEW op, NEW e \in EntryId, NEW slot \in Slot, Equip(op, e, slot)
  PROVE  GoodsOK'
<1> DEFINE entry == inventory[e]
           worn == equipment[slot]
           mid == [inventory EXCEPT ![e] = NoEntry]
           new == [id |-> e, item |-> entry.item]
           change == Some(entry.item, 1 - entry.quantity)
<1>1. /\ e \in Held(inventory) /\ slot \in SlotsOf[entry.item]
      /\ Applied(<<"equip", op>>, change)
      /\ equipment' = [equipment EXCEPT ![slot] = new]
      /\ inventory' = PutBack(mid, worn)
      /\ UNCHANGED <<storage, learned>>
  BY DEF Equip
<1>2. PlacesTyped /\ Placed
  BY DEF GoodsOK
<1>3. inventory \in Places /\ Single(inventory) /\ storage \in Places
  BY <1>2 DEF PlacesTyped, Placed
<1>4. entry # NoEntry /\ entry.item \in Item /\ entry.quantity \in Nat \ {0}
  BY <1>1, <1>3, EntryFields
<1>5. new \in Worn /\ new # NoEntry /\ new.id = e /\ new.item = entry.item
  BY <1>4, GoodsAssumption DEF Worn
<1>6. /\ change \in [Item -> Int]
      /\ \A i \in Item : change[i] = IF i = entry.item THEN 1 - entry.quantity ELSE 0
  <2> DEFINE kind == entry.item
             more == 1 - entry.quantity
  <2>1. kind \in Item /\ more \in Int
    BY <1>4
  <2> HIDE DEF kind, more
  <2>2. /\ Some(kind, more) \in [Item -> Int]
        /\ \A i \in Item : Some(kind, more)[i] = IF i = kind THEN more ELSE 0
    BY <2>1, SomeFields
  <2> QED
    BY <2>2 DEF kind, more
<1>7. worn # NoEntry => /\ worn \in Worn /\ worn.item \notin Stackable /\ worn.id \in EntryId
                        /\ inventory[worn.id] = NoEntry /\ storage[worn.id] = NoEntry
                        /\ worn.id # e
  BY <1>2, <1>4, WornIsSingle
<1>8. /\ mid \in Places /\ mid[e] = NoEntry
      /\ \A d \in EntryId : d # e => mid[d] = inventory[d]
  BY <1>3 DEF Places
<1>9. worn \in Worn \cup {NoEntry}
  BY <1>2 DEF PlacesTyped
<1>10. /\ equipment'[slot] = new
       /\ \A s \in Slot : s # slot => equipment'[s] = equipment[s]
       /\ equipment' \in [Slot -> Worn \cup {NoEntry}]
  <2>1. equipment \in [Slot -> Worn \cup {NoEntry}]
    BY <1>2 DEF PlacesTyped
  <2> HIDE DEF new
  <2> QED
    BY <1>1, <1>5, <2>1
<1> HIDE DEF mid, new, change, entry, worn
<1>11. Single(mid) /\ \A d \in Held(mid) : d \in Held(inventory) /\ d # e
  BY <1>3, <1>8 DEF Single, Held
<1>12. \A i \in Item : Count(mid, i)
         = Count(inventory, i) - IF i = entry.item THEN entry.quantity ELSE 0
  <2> SUFFICES ASSUME NEW i \in Item
               PROVE  Count(mid, i)
                        = Count(inventory, i) - IF i = entry.item THEN entry.quantity ELSE 0
    OBVIOUS
  <2>1. \A d \in EntryId : d # e => At(mid, i)[d] = At(inventory, i)[d]
    BY <1>8 DEF At, Held
  <2>2. Count(mid, i) = Count(inventory, i) - At(inventory, i)[e] + At(mid, i)[e]
    BY <1>3, <1>8, <2>1, CountUpdate
  <2>3. At(mid, i)[e] = 0
    BY <1>8, AtFields
  <2>4. At(inventory, i)[e] = IF i = entry.item THEN entry.quantity ELSE 0
    BY <1>3, <1>4, AtFields DEF entry
  <2>5. Count(inventory, i) \in Nat /\ At(inventory, i)[e] \in Nat
    BY <1>3, CountType, AtFields
  <2> QED
    BY <2>2, <2>3, <2>4, <2>5
<1>13. worn # NoEntry => mid[worn.id] = NoEntry /\ worn.item \notin Stackable
  BY <1>7, <1>8
<1>14. /\ inventory' \in Places /\ Single(inventory')
       /\ \A d \in Held(inventory') : d \in Held(mid) \/ (worn # NoEntry /\ d = worn.id)
       /\ \A i \in Item : Count(inventory', i) = Count(mid, i) + OneOf(worn, i)
  BY <1>1, <1>8, <1>9, <1>11, <1>13, PutBackFields
<1>15. PlacesTyped'
  BY <1>1, <1>2, <1>10, <1>14 DEF PlacesTyped
<1>16. Placed'
  <2>1. /\ worn # NoEntry => worn.id \notin Held(storage) /\ worn.id # e
        /\ e \notin Held(storage) /\ Held(inventory) \cap Held(storage) = {}
    BY <1>1, <1>2, <1>7 DEF Placed, Held
  <2>2. Held(inventory)' = Held(inventory') /\ Held(storage)' = Held(storage)
    BY <1>1 DEF Held
  <2>3. Held(inventory') \cap Held(storage) = {} /\ e \notin Held(inventory')
    BY <1>11, <1>14, <2>1
  <2>4. \A s \in Slot : s # slot /\ equipment[s] # NoEntry =>
           /\ s \in SlotsOf[equipment[s].item]
           /\ equipment[s].id \notin Held(inventory) \cup Held(storage)
           /\ equipment[s].id # e
           /\ worn # NoEntry => equipment[s].id # worn.id
           /\ \A t \in Slot \ {s} : equipment[t] # NoEntry => equipment[t].id # equipment[s].id
    BY <1>1, <1>2 DEF Placed, worn
  <2>5. ASSUME NEW s \in Slot, equipment'[s] # NoEntry
        PROVE  /\ s \in SlotsOf[equipment'[s].item]
               /\ equipment'[s].id \notin Held(inventory') \cup Held(storage)
               /\ \A t \in Slot \ {s} :
                    equipment'[t] # NoEntry => equipment'[t].id # equipment'[s].id
    <3>1. CASE s = slot
      <4>1. equipment'[s] = new /\ slot \in SlotsOf[new.item]
        BY <1>1, <1>5, <1>10, <3>1 DEF entry
      <4>2. \A t \in Slot \ {s} : equipment'[t] # NoEntry => equipment'[t].id # e
        BY <1>10, <2>4, <3>1
      <4> QED
        BY <1>5, <2>1, <2>3, <3>1, <4>1, <4>2
    <3>2. CASE s # slot
      <4>1. equipment'[s] = equipment[s] /\ equipment[s] # NoEntry
        BY <1>10, <2>5, <3>2
      <4>2. equipment[s].id \notin Held(inventory') \cup Held(storage)
        BY <1>11, <1>14, <2>4, <3>2, <4>1
      <4>3. \A t \in Slot \ {s} : equipment'[t] # NoEntry => equipment'[t].id # equipment[s].id
        BY <1>5, <1>10, <2>4, <3>2, <4>1
      <4> QED
        BY <2>4, <3>2, <4>1, <4>2, <4>3
    <3> QED
      BY <3>1, <3>2
  <2>6. Single(inventory)' /\ Single(storage)'
    BY <1>1, <1>2, <1>14 DEF Placed, Single
  <2> QED
    BY <2>2, <2>3, <2>5, <2>6 DEF Placed
<1>17. \A i \in Item : Pieces(i)' = Pieces(i) + change[i]
  <2> SUFFICES ASSUME NEW i \in Item
               PROVE  Pieces(i)' = Pieces(i) + change[i]
    OBVIOUS
  <2>1. /\ Cardinality(Wearing(equipment, i)) \in Nat
        /\ Cardinality(Wearing(equipment', i))
             = Cardinality(Wearing(equipment, i)) - OneOf(equipment[slot], i)
                 + OneOf(equipment'[slot], i)
    <3> DEFINE after == equipment'
    <3>1. equipment \in Gear /\ after \in Gear
      BY <1>2, <1>10 DEF Gear, PlacesTyped
    <3>2. \A s \in Slot : s # slot => after[s] = equipment[s]
      BY <1>10
    <3> HIDE DEF after
    <3>3. /\ Cardinality(Wearing(equipment, i)) \in Nat
          /\ Cardinality(Wearing(after, i))
               = Cardinality(Wearing(equipment, i)) - OneOf(equipment[slot], i)
                   + OneOf(after[slot], i)
      BY <3>1, <3>2, WearingUpdate
    <3> QED
      BY <3>3 DEF after
  <2>2. OneOf(equipment'[slot], i) = (IF i = entry.item THEN 1 ELSE 0)
        /\ OneOf(worn, i) \in Nat
    BY <1>5, <1>10 DEF OneOf
  <2>3. Count(inventory, i) \in Nat /\ Count(storage, i) \in Nat
    BY <1>3, CountType
  <2>4. change[i] = IF i = entry.item THEN 1 - entry.quantity ELSE 0
    BY <1>6
  <2>5. Count(storage', i) = Count(storage, i)
    BY <1>1
  <2>6. Count(inventory', i)
          = (Count(inventory, i) - IF i = entry.item THEN entry.quantity ELSE 0) + OneOf(worn, i)
    BY <1>12, <1>14
  <2>7. equipment[slot] = worn
    BY DEF worn
  <2> QED
    BY <1>4, <2>1, <2>2, <2>3, <2>4, <2>5, <2>6, <2>7, PiecesOf
<1> QED
  BY <1>1, <1>6, <1>15, <1>16, <1>17, GoodsStep

-----------------------------------------------------------------------------
(* Moving between the inventory and the storage.                           *)
LEMMA WithoutEntryFields ==
  ASSUME NEW place \in Places, Single(place), NEW e \in EntryId, place[e] # NoEntry,
         NEW q \in 1..place[e].quantity
  PROVE  LET rest == WithoutEntry(place, e, q) IN
         /\ rest \in Places /\ Single(rest) /\ Held(rest) \subseteq Held(place)
         /\ q = place[e].quantity => e \notin Held(rest)
         /\ \A i \in Item :
              Count(rest, i) = Count(place, i) - IF i = place[e].item THEN q ELSE 0
<1> DEFINE rest == WithoutEntry(place, e, q)
           entry == place[e]
           left == Left(entry, q)
<1>1. entry \in Entry /\ entry.item \in Item /\ entry.quantity \in Nat \ {0} /\ q \in Nat
  BY EntryFields
<1>2. /\ left \in Entry \cup {NoEntry}
      /\ entry.quantity > q => left # NoEntry /\ left.item = entry.item
                               /\ left.quantity = entry.quantity - q
      /\ entry.quantity <= q => left = NoEntry
  <2> HIDE DEF left, entry
  <2> QED
    BY <1>1, LeftOfEntry DEF left
<1>3. /\ rest \in Places /\ rest[e] = left
      /\ \A d \in EntryId : d # e => rest[d] = place[d]
  <2> HIDE DEF left
  <2>1. rest = [place EXCEPT ![e] = left]
    BY DEF WithoutEntry, left
  <2> QED
    BY <1>2, <2>1 DEF Places
<1>4. entry.quantity > q \/ entry.quantity = q
  BY <1>1
<1> HIDE DEF rest, left
<1>5. Single(rest) /\ Held(rest) \subseteq Held(place)
  <2>1. left # NoEntry => left.item = entry.item
    BY <1>1, <1>2, <1>4
  <2> QED
    BY <1>3, <2>1 DEF Single, Held
<1>6. q = entry.quantity => e \notin Held(rest)
  BY <1>1, <1>2, <1>3 DEF Held
<1>7. ASSUME NEW i \in Item
      PROVE  Count(rest, i) = Count(place, i) - IF i = entry.item THEN q ELSE 0
  <2>1. \A d \in EntryId : d # e => At(rest, i)[d] = At(place, i)[d]
    BY <1>3 DEF At, Held
  <2>2. Count(rest, i) = Count(place, i) - At(place, i)[e] + At(rest, i)[e]
    BY <1>3, <2>1, CountUpdate
  <2>3. At(place, i)[e] = IF i = entry.item THEN entry.quantity ELSE 0
    BY <1>1, AtFields
  <2>4. At(rest, i)[e] = IF i = entry.item THEN entry.quantity - q ELSE 0
    <3>1. CASE entry.quantity > q
      <4>1. rest[e] # NoEntry /\ rest[e].item = entry.item /\ rest[e].quantity = entry.quantity - q
        BY <1>2, <1>3, <3>1
      <4> QED
        BY <1>3, <4>1, AtFields
    <3>2. CASE entry.quantity = q
      <4>1. rest[e] = NoEntry
        BY <1>1, <1>2, <1>3, <3>2
      <4>2. At(rest, i)[e] = 0
        BY <1>3, <4>1, AtFields
      <4> QED
        BY <1>1, <3>2, <4>2
    <3> QED
      BY <1>4, <3>1, <3>2
  <2>5. Count(place, i) \in Nat
    BY CountType
  <2> QED
    BY <1>1, <2>2, <2>3, <2>4, <2>5
<1> QED
  BY <1>3, <1>5, <1>6, <1>7 DEF rest

(* Some pieces of an entry of one place go to the other.                   *)
Moved(source, target, rest, more, free) ==
  /\ rest \in Places /\ more \in Places /\ Single(rest) /\ Single(more)
  /\ Held(rest) \cap Held(more) = {}
  /\ Held(rest) \cup Held(more) \subseteq Held(source) \cup Held(target) \cup free
  /\ \A i \in Item :
       Count(rest, i) + Count(more, i) = Count(source, i) + Count(target, i)

LEMMA MoveFields ==
  ASSUME NEW source \in Places, NEW target \in Places, Single(source), Single(target),
         Held(source) \cap Held(target) = {},
         NEW e \in Held(source), NEW q \in 1..source[e].quantity,
         NEW free \in SUBSET EntryId, free \cap Held(source) = {}, free \cap Held(target) = {},
         NEW bag, bag = Some(source[e].item, q),
         NEW pool, pool = IF q = source[e].quantity THEN {e} ELSE free,
         NEW ids \in NewIds(target, bag, pool)
  PROVE  Moved(source, target, WithoutEntry(source, e, q), With(target, bag, ids), free)
<1> DEFINE rest == WithoutEntry(source, e, q)
           more == With(target, bag, ids)
           kind == source[e].item
<1>1. e \in EntryId /\ source[e] # NoEntry /\ kind \in Item
      /\ source[e].quantity \in Nat \ {0} /\ q \in Nat /\ q \in Int
  BY EntryFields DEF Held
<1>2. /\ rest \in Places /\ Single(rest) /\ Held(rest) \subseteq Held(source)
      /\ q = source[e].quantity => e \notin Held(rest)
      /\ \A i \in Item : Count(rest, i) = Count(source, i) - IF i = kind THEN q ELSE 0
  BY <1>1, WithoutEntryFields
<1>3. bag \in Bags /\ \A i \in Item : bag[i] = IF i = kind THEN q ELSE 0
  <2> HIDE DEF kind
  <2>1. bag = Some(kind, q)
    BY DEF kind
  <2> QED
    BY <1>1, <2>1, SomeFields
<1>4. /\ pool \in SUBSET EntryId /\ pool \cap Held(target) = {} /\ pool \subseteq {e} \cup free
      /\ q # source[e].quantity => pool = free
  BY <1>1
<1>5. /\ more \in Places /\ Single(more) /\ Held(more) \subseteq Held(target) \cup pool
      /\ \A i \in Item : Count(more, i) = Count(target, i) + bag[i]
  <2>1. more \in Places
    BY <1>3, <1>4, WithFields
  <2>2. Single(more) /\ Held(more) \subseteq Held(target) \cup pool
    BY <1>3, <1>4, WithIsSingle
  <2>3. \A i \in Item : Count(more, i) = Count(target, i) + bag[i]
    <3> SUFFICES ASSUME NEW i \in Item
                 PROVE  Count(more, i) = Count(target, i) + bag[i]
      OBVIOUS
    <3> QED
      BY <1>3, <1>4, WithCounts
  <2> QED
    BY <2>1, <2>2, <2>3
<1> HIDE DEF rest, more, kind
<1>6. pool \cap Held(rest) = {}
  BY <1>2, <1>4
<1>7. \A i \in Item : Count(rest, i) + Count(more, i) = Count(source, i) + Count(target, i)
  <2> SUFFICES ASSUME NEW i \in Item
               PROVE  Count(rest, i) + Count(more, i) = Count(source, i) + Count(target, i)
    OBVIOUS
  <2>1. Count(source, i) \in Nat /\ Count(target, i) \in Nat
    BY CountType
  <2> QED
    BY <1>1, <1>2, <1>3, <1>5, <2>1
<1>8. Held(rest) \cap Held(more) = {}
  BY <1>2, <1>5, <1>6
<1>9. Held(rest) \cup Held(more) \subseteq Held(source) \cup Held(target) \cup free
  BY <1>2, <1>4, <1>5
<1> QED
  BY <1>2, <1>5, <1>7, <1>8, <1>9 DEF rest, more, Moved

LEMMA MoveGoods ==
  ASSUME GoodsOK, NEW op, NEW toStorage \in BOOLEAN,
         NEW e \in Held(Source(toStorage)), NEW q \in 1..Source(toStorage)[e].quantity,
         Move(op, toStorage, e, q)
  PROVE  GoodsOK'
<1> DEFINE source == Source(toStorage)
           target == IF toStorage THEN storage ELSE inventory
           bag == Some(source[e].item, q)
           rest == WithoutEntry(source, e, q)
           pool == IF q = source[e].quantity THEN {e} ELSE Fresh
<1>1. PICK ids \in NewIds(target, bag, pool) :
        IF toStorage THEN inventory' = rest /\ storage' = With(target, bag, ids)
        ELSE storage' = rest /\ inventory' = With(target, bag, ids)
  BY DEF Move
<1>2. Applied(<<"move", op>>, Nothing) /\ UNCHANGED <<equipment, learned>>
  BY DEF Move
<1>3. PlacesTyped /\ Placed
  BY DEF GoodsOK
<1>4. /\ source \in Places /\ target \in Places /\ Single(source) /\ Single(target)
      /\ Held(source) \cap Held(target) = {}
      /\ Held(source) \cup Held(target) = Held(inventory) \cup Held(storage)
  BY <1>3 DEF Source, PlacesTyped, Placed
<1>5. Fresh \in SUBSET EntryId /\ Fresh \cap Held(source) = {} /\ Fresh \cap Held(target) = {}
  BY FreshIsFree DEF Source
<1> DEFINE more == With(target, bag, ids)
<1>6. /\ rest \in Places /\ more \in Places /\ Single(rest) /\ Single(more)
      /\ Held(rest) \cap Held(more) = {}
      /\ Held(rest) \cup Held(more) \subseteq Held(source) \cup Held(target) \cup Fresh
      /\ \A i \in Item :
           Count(rest, i) + Count(more, i) = Count(source, i) + Count(target, i)
  <2>1. bag = Some(source[e].item, q) /\ pool = IF q = source[e].quantity THEN {e} ELSE Fresh
    OBVIOUS
  <2>2. /\ e \in Held(source) /\ q \in 1..source[e].quantity
        /\ ids \in NewIds(target, bag, pool)
    BY <1>1
  <2> HIDE DEF source, target, bag, pool
  <2> QED
    <3>1. Moved(source, target, WithoutEntry(source, e, q), With(target, bag, ids), Fresh)
      BY <1>4, <1>5, <2>1, <2>2, MoveFields
    <3> QED
      BY <3>1 DEF Moved
<1>7. \/ toStorage /\ inventory' = rest /\ storage' = more
         /\ source = inventory /\ target = storage
      \/ ~toStorage /\ storage' = rest /\ inventory' = more
         /\ source = storage /\ target = inventory
  BY <1>1 DEF Source
<1> HIDE DEF rest, more, source, target
<1>8. /\ inventory' \in Places /\ storage' \in Places
      /\ Single(inventory') /\ Single(storage') /\ Held(inventory') \cap Held(storage') = {}
      /\ Held(inventory') \cup Held(storage')
           \subseteq Held(inventory) \cup Held(storage) \cup Fresh
  BY <1>4, <1>6, <1>7
<1>9. PlacesTyped'
  BY <1>2, <1>3, <1>8 DEF PlacesTyped
<1>10. Placed'
  <2>1. Held(inventory)' = Held(inventory') /\ Held(storage)' = Held(storage')
    BY DEF Held
  <2>2. Single(inventory)' /\ Single(storage)'
    BY <1>8 DEF Single
  <2>3. \A s \in Slot : equipment[s] # NoEntry => equipment[s].id \notin Fresh
    BY FreshIsFree
  <2> QED
    BY <1>2, <1>3, <1>8, <2>1, <2>2, <2>3 DEF Placed
<1>11. \A i \in Item : Pieces(i)' = Pieces(i) + Nothing[i]
  <2> SUFFICES ASSUME NEW i \in Item
               PROVE  Pieces(i)' = Pieces(i) + Nothing[i]
    OBVIOUS
  <2>1. Count(inventory', i) + Count(storage', i) = Count(inventory, i) + Count(storage, i)
    <3>1. /\ Count(rest, i) + Count(more, i) = Count(source, i) + Count(target, i)
          /\ Count(rest, i) \in Nat /\ Count(more, i) \in Nat
          /\ Count(source, i) \in Nat /\ Count(target, i) \in Nat
      BY <1>4, <1>6, CountType
    <3> QED
      BY <1>7, <3>1
  <2>2. Nothing[i] = 0
    BY DEF Nothing
  <2>3. Cardinality(Wearing(equipment, i)) \in Nat
    BY <1>3, PiecesType DEF Wearing
  <2>4. Count(inventory, i) \in Nat /\ Count(storage, i) \in Nat
    BY <1>3, PiecesType
  <2>5. Cardinality(Wearing(equipment', i)) = Cardinality(Wearing(equipment, i))
    BY <1>2
  <2> QED
    BY <2>1, <2>2, <2>3, <2>4, <2>5, PiecesOf
<1>12. Nothing \in [Item -> Int]
  BY DEF Nothing
<1> QED
  BY <1>2, <1>9, <1>10, <1>11, <1>12, GoodsStep

-----------------------------------------------------------------------------
(* The Rifts.                                                              *)
RiftOK ==
  /\ progress \in [Rift -> Progress \cup {NoProgress}]
  /\ RiftsOpenInOrder

LEMMA ProgressMade ==
  ASSUME NEW u \in Nat, NEW c \in Nat
  PROVE  /\ [unlocked |-> u, completed |-> c] \in Progress
         /\ [unlocked |-> u, completed |-> c] # NoProgress
BY RiftAssumption DEF Progress

LEMMA ProgressFields ==
  ASSUME progress \in [Rift -> Progress \cup {NoProgress}], NEW r \in Rift,
         progress[r] # NoProgress
  PROVE  progress[r].unlocked \in Nat /\ progress[r].completed \in Nat
BY DEF Progress

LEMMA FirstProgress ==
  ASSUME NEW p, p = [r \in Rift |->
           IF r = FirstRift THEN [unlocked |-> 1, completed |-> 0] ELSE NoProgress],
         progress' = p
  PROVE  RiftOK'
<1>1. [unlocked |-> 1, completed |-> 0] \in Progress
  BY ProgressMade
<1>2. p \in [Rift -> Progress \cup {NoProgress}]
  BY <1>1
<1>3. \A r \in Rift : p[r] # NoProgress =>
        r = FirstRift /\ p[r].unlocked = 1 /\ p[r].completed = 0
  OBVIOUS
<1>4. \A n \in Nat \ {0} : Smaller(n, 0 + 1) = 1
  BY DEF Smaller
<1>5. ASSUME NEW r \in Rift, p[r] # NoProgress
      PROVE  /\ PrerequisiteMet(r)'
             /\ p[r].unlocked = Smaller(Floors[r], p[r].completed + 1)
  <2>1. r = FirstRift /\ p[r].unlocked = 1 /\ p[r].completed = 0
    BY <1>3, <1>5
  <2>2. PrerequisiteMet(r)'
    BY <2>1, RiftAssumption DEF PrerequisiteMet
  <2>3. Floors[r] \in Nat \ {0}
    BY RiftAssumption
  <2> QED
    BY <1>4, <2>1, <2>2, <2>3
<1> QED
  BY <1>2, <1>5 DEF RiftOK, RiftsOpenInOrder

LEMMA RiftUnchanged ==
  ASSUME RiftOK, UNCHANGED progress
  PROVE  RiftOK'
BY DEF RiftOK, RiftsOpenInOrder, PrerequisiteMet

(* A floor that may be completed unlocks the next, and the Rifts that wait *)
(* for it.                                                                 *)
LEMMA CompleteKeepsOrder ==
  ASSUME RiftOK, NEW op, NEW rift \in Rift, NEW floor \in 1..Floors[rift],
         CompleteRiftFloor(op, rift, floor)
  PROVE  RiftOK'
<1> DEFINE Waits(r) == /\ r # rift /\ Prerequisite[r] # NoRift
                       /\ Prerequisite[r].rift = rift /\ Prerequisite[r].floor <= floor
           now_ == Current(rift)
           done == [unlocked |-> Larger(now_.unlocked, Smaller(Floors[rift], floor + 1)),
                    completed |-> Larger(now_.completed, floor)]
<1>1. /\ floor \in Nat \ {0} /\ floor <= Floors[rift] /\ floor <= now_.unlocked
      /\ \A r \in Rift : Floors[r] \in Nat \ {0}
  BY RiftAssumption DEF CompleteRiftFloor, MayComplete
<1>2. /\ progress' = [r \in Rift |-> progress'[r]]
      /\ progress'[rift] = done
      /\ \A r \in Rift : Waits(r) =>
           progress'[r] = IF progress[r] = NoProgress THEN [unlocked |-> 1, completed |-> 0]
                          ELSE [progress[r] EXCEPT !.unlocked = Larger(1, @)]
      /\ \A r \in Rift : r # rift /\ ~ Waits(r) => progress'[r] = progress[r]
  BY DEF CompleteRiftFloor
<1>3. /\ now_.unlocked \in Nat /\ now_.completed \in Nat
      /\ now_.unlocked = Smaller(Floors[rift], now_.completed + 1)
      /\ PrerequisiteMet(rift)
      /\ progress[rift] # NoProgress => now_ = progress[rift]
  <2>1. CASE progress[rift] = NoProgress
    <3>1. now_ = [unlocked |-> IF PrerequisiteMet(rift) THEN 1 ELSE 0, completed |-> 0]
      BY <2>1 DEF Current
    <3>2. PrerequisiteMet(rift)
      BY <1>1, <3>1
    <3>3. now_.unlocked = 1 /\ now_.completed = 0
      BY <3>1, <3>2
    <3>4. Smaller(Floors[rift], 0 + 1) = 1
      BY <1>1 DEF Smaller
    <3> QED
      BY <2>1, <3>2, <3>3, <3>4
  <2>2. CASE progress[rift] # NoProgress
    <3>1. now_ = progress[rift]
      BY <2>2 DEF Current
    <3> QED
      BY <2>2, <3>1, ProgressFields DEF RiftOK, RiftsOpenInOrder
  <2> QED
    BY <2>1, <2>2
<1> HIDE DEF now_
<1>4. /\ done.unlocked \in Nat /\ done.completed \in Nat
      /\ done.completed >= floor /\ done.completed >= now_.completed
      /\ done.unlocked = Smaller(Floors[rift], done.completed + 1)
      /\ done \in Progress /\ done # NoProgress
  <2>1. /\ Larger(now_.unlocked, Smaller(Floors[rift], floor + 1)) \in Nat
        /\ Larger(now_.completed, floor) \in Nat
        /\ Larger(now_.completed, floor) >= floor
        /\ Larger(now_.completed, floor) >= now_.completed
        /\ Larger(now_.unlocked, Smaller(Floors[rift], floor + 1))
             = Smaller(Floors[rift], Larger(now_.completed, floor) + 1)
    BY <1>1, <1>3 DEF Larger, Smaller
  <2> QED
    BY <2>1, ProgressMade
<1> HIDE DEF done
<1>5. \A r \in Rift : progress[r] # NoProgress =>
        /\ progress[r].unlocked \in Nat /\ progress[r].completed \in Nat
        /\ progress[r].unlocked = Smaller(Floors[r], progress[r].completed + 1)
        /\ PrerequisiteMet(r)
  BY ProgressFields DEF RiftOK, RiftsOpenInOrder
<1>6. ASSUME NEW r \in Rift, Waits(r)
      PROVE  /\ progress'[r] \in Progress /\ progress'[r] # NoProgress
             /\ progress'[r].unlocked = Smaller(Floors[r], progress'[r].completed + 1)
             /\ progress[r] # NoProgress => progress'[r].completed = progress[r].completed
  <2>1. CASE progress[r] = NoProgress
    <3>1. progress'[r] = [unlocked |-> 1, completed |-> 0]
      BY <1>2, <1>6, <2>1
    <3>2. Smaller(Floors[r], 0 + 1) = 1
      BY <1>1 DEF Smaller
    <3> QED
      BY <2>1, <3>1, <3>2, ProgressMade
  <2>2. CASE progress[r] # NoProgress
    <3>1. progress'[r] = [progress[r] EXCEPT !.unlocked = Larger(1, progress[r].unlocked)]
      BY <1>2, <1>6, <2>2
    <3>2. Larger(1, progress[r].unlocked) = progress[r].unlocked
      BY <1>1, <1>5, <2>2 DEF Larger, Smaller
    <3>3. progress[r] \in Progress
      BY <2>2 DEF RiftOK
    <3>4. progress'[r] = progress[r]
      BY <3>1, <3>2, <3>3 DEF Progress
    <3> QED
      BY <1>5, <2>2, <3>3, <3>4
  <2> QED
    BY <2>1, <2>2
<1>7. progress' \in [Rift -> Progress \cup {NoProgress}]
  <2>1. \A r \in Rift : progress'[r] \in Progress \cup {NoProgress}
    BY <1>2, <1>4, <1>6 DEF RiftOK
  <2> QED
    BY <1>2, <2>1
(* What was completed stays completed.                                     *)
<1>8. \A r \in Rift : progress[r] # NoProgress =>
        /\ progress'[r] # NoProgress
        /\ progress'[r].completed \in Nat /\ progress'[r].completed >= progress[r].completed
  <2> SUFFICES ASSUME NEW r \in Rift, progress[r] # NoProgress
               PROVE  /\ progress'[r] # NoProgress
                      /\ progress'[r].completed \in Nat
                      /\ progress'[r].completed >= progress[r].completed
    OBVIOUS
  <2>1. CASE r = rift
    BY <1>2, <1>3, <1>4, <2>1
  <2>2. CASE Waits(r)
    BY <1>5, <1>6, <2>2
  <2>3. CASE r # rift /\ ~ Waits(r)
    BY <1>2, <1>5, <2>3
  <2> QED
    BY <2>1, <2>2, <2>3
<1>9. ASSUME NEW r \in Rift, PrerequisiteMet(r)
      PROVE  PrerequisiteMet(r)'
  <2>1. CASE Prerequisite[r] = NoRift
    BY <2>1 DEF PrerequisiteMet
  <2>2. CASE Prerequisite[r] # NoRift
    <3> DEFINE q == Prerequisite[r].rift
               f == Prerequisite[r].floor
    <3>1. q \in Rift /\ f \in Nat
      BY <2>2, RiftAssumption
    <3>2. progress[q] # NoProgress /\ progress[q].completed >= f
      BY <1>9, <2>2 DEF PrerequisiteMet
    <3>3. progress'[q] # NoProgress /\ progress'[q].completed >= f
      BY <1>5, <1>8, <3>1, <3>2
    <3> QED
      BY <2>2, <3>3 DEF PrerequisiteMet
  <2> QED
    BY <2>1, <2>2
<1>10. ASSUME NEW r \in Rift, Waits(r)
       PROVE  PrerequisiteMet(r)'
  <2>1. /\ Prerequisite[r].rift = rift /\ Prerequisite[r].floor <= floor
        /\ Prerequisite[r].floor \in Nat
    BY <1>10, RiftAssumption
  <2>2. progress'[rift] # NoProgress /\ progress'[rift].completed >= Prerequisite[r].floor
    BY <1>1, <1>2, <1>4, <2>1
  <2> QED
    BY <2>1, <2>2 DEF PrerequisiteMet
<1>11. ASSUME NEW r \in Rift, progress'[r] # NoProgress
       PROVE  /\ PrerequisiteMet(r)'
              /\ progress'[r].unlocked = Smaller(Floors[r], progress'[r].completed + 1)
  <2>1. CASE r = rift
    BY <1>2, <1>3, <1>4, <1>9, <2>1
  <2>2. CASE Waits(r)
    BY <1>6, <1>10, <2>2
  <2>3. CASE r # rift /\ ~ Waits(r)
    BY <1>2, <1>5, <1>9, <1>11, <2>3
  <2> QED
    BY <2>1, <2>2, <2>3
<1> QED
  BY <1>7, <1>11 DEF RiftOK, RiftsOpenInOrder

-----------------------------------------------------------------------------
(* The profession jobs.  A request is never from the future, which is why  *)
(* a job that is paid out by its clock is over by the present one.         *)
JobsOK ==
  /\ mastery \in [level : 1..MaxMastery, xp : Nat]
  /\ jobs \in Seq(Job)
  /\ requests \subseteq [kind : {"start", "cancel", "collect"}, op : OperationId, at : Nat]
  /\ now \in Nat
  /\ \A request \in requests : request.at <= now
  /\ \A j, k \in Active : j = k
  /\ mastery.level < MaxMastery => mastery.xp < XPRequired[mastery.level]

LEMMA OneActive ==
  ASSUME JobsOK
  PROVE  Cardinality(Active) <= 1
<1>1. CASE Active = {}
  BY <1>1, FS_EmptySet
<1>2. CASE Active # {}
  <2>1. PICK j \in Active : TRUE
    BY <1>2
  <2>2. Active = {j}
    BY <2>1 DEF JobsOK
  <2>3. Cardinality({j}) = 1
    BY FS_Singleton
  <2> QED
    BY <2>2, <2>3
<1> QED
  BY <1>1, <1>2

LEMMA JobFields ==
  ASSUME JobsOK, NEW j \in DOMAIN jobs
  PROVE  /\ jobs[j] \in Job /\ jobs[j].activity \in Activity
         /\ jobs[j].quantity \in Nat /\ jobs[j].completesAt \in Nat
<1>1. jobs[j] \in Job
  BY DEF JobsOK
<1> QED
  BY <1>1 DEF Job

(* Steps that leave the jobs alone.                                        *)
LEMMA JobsUntouched ==
  ASSUME JobsOK, UNCHANGED <<mastery, jobs>>,
         requests' \subseteq requests \cup
           [kind : {"start", "cancel", "collect"}, op : OperationId, at : {now}],
         now' \in {now, now + 1}
  PROVE  JobsOK' /\ JobStep
<1>1. /\ now' \in Nat /\ now <= now'
      /\ requests' \subseteq [kind : {"start", "cancel", "collect"}, op : OperationId, at : Nat]
  BY DEF JobsOK
<1>2. \A request \in requests' : request.at <= now'
  <2> SUFFICES ASSUME NEW request \in requests'
               PROVE  request.at <= now'
    OBVIOUS
  <2>1. request.at <= now /\ request.at \in Nat
    BY DEF JobsOK
  <2>2. now \in Nat
    BY DEF JobsOK
  <2> QED
    BY <1>1, <2>1, <2>2
<1>3. Active' = Active
  BY DEF Active
<1>4. JobsOK'
  BY <1>1, <1>2, <1>3 DEF JobsOK
<1>5. JobStep
  BY OneActive DEF JobStep, JobsOK
<1> QED
  BY <1>4, <1>5

LEMMA JobReplaced ==
  ASSUME JobsOK, NEW j \in Active, NEW status \in {"CANCELLED", "COLLECTED"},
         NEW new, new = [jobs EXCEPT ![j] = [jobs[j] EXCEPT !.status = status]]
  PROVE  /\ new \in Seq(Job) /\ DOMAIN new = DOMAIN jobs
         /\ j \in DOMAIN jobs /\ jobs[j].status = "ACTIVE"
         /\ new[j].status = status
         /\ \A k \in DOMAIN jobs : k # j => new[k] = jobs[k] /\ jobs[k].status # "ACTIVE"
<1>1. j \in DOMAIN jobs /\ jobs[j].status = "ACTIVE"
  BY DEF Active
<1>2. [jobs[j] EXCEPT !.status = status] \in Job
      /\ [jobs[j] EXCEPT !.status = status].status = status
  BY <1>1, JobFields DEF Job
<1>3. jobs \in Seq(Job)
  BY DEF JobsOK
<1>4. new \in Seq(Job) /\ DOMAIN new = DOMAIN jobs
  BY <1>1, <1>2, <1>3
<1>5. \A k \in DOMAIN jobs : k # j => jobs[k].status # "ACTIVE"
  BY DEF JobsOK, Active
<1> QED
  BY <1>1, <1>2, <1>4, <1>5

LEMMA StartJobKeeps ==
  ASSUME JobsOK, NEW request \in requests, NEW a \in Activity, NEW duration \in Duration,
         NEW quantity \in Quantity, StartJob(request, a, duration, quantity)
  PROVE  JobsOK' /\ JobStep
<1> DEFINE job == [activity |-> a, quantity |-> quantity,
                   completesAt |-> request.at + duration, status |-> "ACTIVE"]
<1>1. /\ Active = {} /\ jobs' = Append(jobs, job) /\ requests' \subseteq requests
      /\ UNCHANGED <<mastery, now>>
  BY DEF StartJob, Answer
<1>2. request.at \in Nat /\ jobs \in Seq(Job)
  BY DEF JobsOK
<1>3. job \in Job /\ job.status = "ACTIVE"
  <2>1. duration \in Nat /\ quantity \in Nat \ {0}
    BY JobAssumption
  <2>2. request.at + duration \in Nat
    BY <1>2, <2>1
  <2> QED
    BY <2>1, <2>2 DEF Job
<1> HIDE DEF job
<1>4. /\ jobs' \in Seq(Job) /\ Len(jobs') = Len(jobs) + 1 /\ DOMAIN jobs' = 1..(Len(jobs) + 1)
      /\ DOMAIN jobs = 1..Len(jobs) /\ Len(jobs) \in Nat
      /\ jobs'[Len(jobs) + 1] = job /\ \A j \in DOMAIN jobs : jobs'[j] = jobs[j]
  BY <1>1, <1>2, <1>3
<1>5. \A j \in DOMAIN jobs : jobs[j].status # "ACTIVE"
  BY <1>1 DEF Active
<1>6. \A j, k \in Active' : j = k
  <2>1. \A j \in Active' : j = Len(jobs) + 1
    BY <1>4, <1>5 DEF Active
  <2> QED
    BY <2>1
<1>7. JobsOK'
  BY <1>1, <1>4, <1>6 DEF JobsOK
<1>8. JobStep
  BY <1>1, <1>4, <1>5, OneActive DEF JobStep, JobsOK
<1> QED
  BY <1>7, <1>8

LEMMA CancelJobKeeps ==
  ASSUME JobsOK, NEW request \in requests, NEW j \in DOMAIN jobs, CancelJob(request, j)
  PROVE  JobsOK' /\ JobStep
<1>1. /\ j \in Active /\ requests' \subseteq requests /\ UNCHANGED <<mastery, now>>
      /\ jobs' = [jobs EXCEPT ![j] = [jobs[j] EXCEPT !.status = "CANCELLED"]]
  BY DEF CancelJob, Answer
<1> DEFINE new == jobs'
<1>2. /\ new \in Seq(Job) /\ DOMAIN new = DOMAIN jobs
      /\ new[j].status = "CANCELLED"
      /\ \A k \in DOMAIN jobs : k # j => new[k] = jobs[k] /\ jobs[k].status # "ACTIVE"
  <2>1. new = [jobs EXCEPT ![j] = [jobs[j] EXCEPT !.status = "CANCELLED"]]
    BY <1>1
  <2> HIDE DEF new
  <2> QED
    BY <1>1, <2>1, JobReplaced
<1>3. Active' = {}
  BY <1>2 DEF Active
<1>4. JobsOK'
  BY <1>1, <1>2, <1>3 DEF JobsOK
<1>5. JobStep
  <2>1. j \in DOMAIN jobs /\ jobs[j].status = "ACTIVE"
    BY <1>1 DEF Active
  <2> QED
    BY <1>1, <1>2, <2>1, OneActive DEF JobStep, JobsOK
<1> QED
  BY <1>4, <1>5

LEMMA CollectJobKeeps ==
  ASSUME JobsOK, NEW request \in requests, NEW j \in DOMAIN jobs, CollectJob(request, j)
  PROVE  JobsOK' /\ JobStep
<1> DEFINE earned == [mastery EXCEPT !.xp = @ + JobXP[jobs[j].activity]]
           risen == LevelledUp(earned, XPRequired, MaxMastery)
           new == jobs'
<1>1. /\ j \in Active /\ requests' \subseteq requests /\ UNCHANGED now
      /\ request.at >= jobs[j].completesAt
      /\ jobs' = [jobs EXCEPT ![j] = [jobs[j] EXCEPT !.status = "COLLECTED"]]
      /\ mastery' = risen
  BY DEF CollectJob, Answer, Collected
<1>2. /\ new \in Seq(Job) /\ DOMAIN new = DOMAIN jobs
      /\ new[j].status = "COLLECTED"
      /\ \A k \in DOMAIN jobs : k # j => new[k] = jobs[k] /\ jobs[k].status # "ACTIVE"
  <2>1. new = [jobs EXCEPT ![j] = [jobs[j] EXCEPT !.status = "COLLECTED"]]
    BY <1>1
  <2> HIDE DEF new
  <2> QED
    BY <1>1, <2>1, JobReplaced
<1>3. /\ mastery.level \in 1..MaxMastery /\ mastery.xp \in Nat /\ MaxMastery \in Nat
      /\ JobXP[jobs[j].activity] \in Nat
  BY JobFields, JobAssumption DEF JobsOK
<1>4. /\ earned \in [level : Nat \ {0}, xp : Nat] /\ earned.level = mastery.level
      /\ earned.level <= MaxMastery
  <2>1. earned = [level |-> mastery.level, xp |-> mastery.xp + JobXP[jobs[j].activity]]
    BY DEF JobsOK
  <2> HIDE DEF earned
  <2> QED
    BY <1>3, <2>1
<1> HIDE DEF earned
<1>5. \A l \in earned.level..(MaxMastery - 1) : XPRequired[l] \in Nat
  BY <1>3, <1>4, JobAssumption
<1>6. /\ risen \in [level : Nat \ {0}, xp : Nat]
      /\ risen.level \in earned.level..MaxMastery
      /\ risen.level < MaxMastery => risen.xp < XPRequired[risen.level]
  BY <1>3, <1>4, <1>5, Rise
<1> HIDE DEF risen
<1>7. /\ mastery' \in [level : 1..MaxMastery, xp : Nat] /\ mastery'.level >= mastery.level
      /\ mastery'.level < MaxMastery => mastery'.xp < XPRequired[mastery'.level]
  BY <1>1, <1>3, <1>4, <1>6
<1>8. Active' = {}
  BY <1>2 DEF Active
<1>9. JobsOK'
  BY <1>1, <1>2, <1>7, <1>8 DEF JobsOK
<1>10. now >= jobs[j].completesAt
  <2>1. request.at \in Nat /\ request.at <= now /\ now \in Nat /\ jobs[j].completesAt \in Nat
    BY JobFields DEF JobsOK
  <2> QED
    BY <1>1, <2>1
<1>11. JobStep
  <2>1. j \in DOMAIN jobs /\ jobs[j].status = "ACTIVE"
    BY <1>1 DEF Active
  <2> QED
    BY <1>2, <1>7, <1>10, <2>1, OneActive DEF JobStep
<1> QED
  BY <1>9, <1>11

-----------------------------------------------------------------------------
(* The career.  The wallet is the balance of the ledger's last row.        *)
LevelsArePriced == \A l \in Nat \ {0} : LevelXP[l] \in Nat \ {0}

CareerOK ==
  /\ character \in [level : Nat \ {0}, xp : Nat, coins : Nat]
  /\ ledger \in Seq([amount : Nat, balance : Nat])
  /\ fighter \in [level : Nat \ {0}, xp : Nat] \cup {NoFighter}
  /\ \A n \in DOMAIN ledger : Balance(n) = Balance(n - 1) + ledger[n].amount
  /\ character.coins = Balance(Len(ledger))
  /\ character.xp < LevelXP[character.level]

LEMMA CareerUnchanged ==
  ASSUME CareerOK, UNCHANGED <<character, ledger>>,
         fighter' \in [level : Nat \ {0}, xp : Nat] \cup {NoFighter}
  PROVE  CareerOK'
BY DEF CareerOK, Balance

(* A booked amount ends up in the wallet.                                  *)
LEMMA BookedKeeps ==
  ASSUME CareerOK, NEW amount \in Nat, Booked(amount)
  PROVE  /\ ledger' \in Seq([amount : Nat, balance : Nat])
         /\ \A n \in DOMAIN ledger' : Balance(n)' = Balance(n - 1)' + ledger'[n].amount
         /\ character.coins + amount = Balance(Len(ledger))'
<1> DEFINE row == [amount |-> amount, balance |-> character.coins + amount]
<1>1. /\ ledger \in Seq([amount : Nat, balance : Nat]) /\ character.coins \in Nat
      /\ character.coins + amount \in Nat
  BY DEF CareerOK
<1>0. PICK L \in Nat : L = Len(ledger)
  BY <1>1
<1>2. row \in [amount : Nat, balance : Nat] /\ row.amount = amount
      /\ row.balance = character.coins + amount
  BY <1>1
<1>3. ledger' = Append(ledger, row)
  BY DEF Booked
<1> HIDE DEF row
<1>4. /\ ledger' \in Seq([amount : Nat, balance : Nat]) /\ Len(ledger') = L + 1
      /\ DOMAIN ledger' = 1..(L + 1) /\ DOMAIN ledger = 1..L /\ L \in Nat
      /\ ledger'[L + 1] = row /\ \A n \in DOMAIN ledger : ledger'[n] = ledger[n]
  BY <1>0, <1>1, <1>2, <1>3
<1>5. \A n \in 0..L : Balance(n)' = Balance(n)
  <2> SUFFICES ASSUME NEW n \in 0..L
               PROVE  Balance(n)' = Balance(n)
    OBVIOUS
  <2>1. n = 0 \/ n \in DOMAIN ledger
    BY <1>4
  <2> QED
    BY <1>4, <2>1 DEF Balance
<1>6. Balance(L + 1)' = character.coins + amount
  <2>1. L + 1 # 0
    OBVIOUS
  <2> QED
    BY <1>2, <1>4, <2>1 DEF Balance
<1>7. character.coins = Balance(L)
  BY <1>0 DEF CareerOK
<1>8. ASSUME NEW n \in DOMAIN ledger'
      PROVE  Balance(n)' = Balance(n - 1)' + ledger'[n].amount
  <2>1. CASE n = L + 1
    <3>1. Balance(L)' = character.coins /\ n - 1 = L /\ ledger'[n].amount = amount
      BY <1>2, <1>4, <1>5, <1>7, <2>1
    <3> QED
      BY <1>6, <2>1, <3>1
  <2>2. CASE n # L + 1
    <3>1. n \in DOMAIN ledger /\ n \in 0..L /\ n - 1 \in 0..L
      BY <1>4, <2>2
    <3>2. Balance(n) = Balance(n - 1) + ledger[n].amount
      BY <3>1 DEF CareerOK
    <3>3. Balance(n)' = Balance(n) /\ Balance(n - 1)' = Balance(n - 1)
      BY <1>5, <3>1
    <3>4. ledger'[n].amount = ledger[n].amount
      BY <1>4, <3>1
    <3> QED
      BY <3>2, <3>3, <3>4
  <2> QED
    BY <2>1, <2>2
<1>9. character.coins + amount = Balance(Len(ledger))'
  BY <1>4, <1>6 DEF Balance
<1> QED
  BY <1>4, <1>8, <1>9

LEMMA AwardKeeps ==
  ASSUME LevelsArePriced, CareerOK, NEW op, NEW reward \in Rewards, AwardProgression(op, reward)
  PROVE  CareerOK'
<1> DEFINE earned == [fighter EXCEPT !.xp = @ + reward.xp]
           risen == LevelledUp(earned, LevelXP, earned.level + earned.xp)
<1>1. /\ fighter # NoFighter /\ fighter' = risen /\ Booked(reward.coins)
      /\ character' = [level |-> risen.level, xp |-> risen.xp,
                       coins |-> character.coins + reward.coins]
  BY DEF AwardProgression
<1>2. reward.xp \in Nat /\ reward.coins \in Nat
  BY CareerAssumption
<1>3. earned \in [level : Nat \ {0}, xp : Nat]
  <2>1. fighter \in [level : Nat \ {0}, xp : Nat]
    BY <1>1 DEF CareerOK
  <2>2. earned = [level |-> fighter.level, xp |-> fighter.xp + reward.xp]
    BY <2>1
  <2> HIDE DEF earned
  <2> QED
    BY <1>2, <2>1, <2>2
<1> HIDE DEF earned
<1>4. risen \in [level : Nat \ {0}, xp : Nat] /\ risen.xp < LevelXP[risen.level]
  BY <1>3, RiseWithoutLimit DEF LevelsArePriced
<1> HIDE DEF risen
<1>5. /\ character' \in [level : Nat \ {0}, xp : Nat, coins : Nat]
      /\ character'.xp < LevelXP[character'.level]
      /\ character'.coins = character.coins + reward.coins
  <2>1. character.coins + reward.coins \in Nat
    BY <1>2 DEF CareerOK
  <2> QED
    BY <1>1, <1>4, <2>1
<1>6. /\ ledger' \in Seq([amount : Nat, balance : Nat])
      /\ \A n \in DOMAIN ledger' : Balance(n)' = Balance(n - 1)' + ledger'[n].amount
      /\ character.coins + reward.coins = Balance(Len(ledger))'
  BY <1>1, <1>2, BookedKeeps
<1> QED
  BY <1>1, <1>4, <1>5, <1>6 DEF CareerOK

LEMMA GrantCoinsKeeps ==
  ASSUME CareerOK, NEW op, NEW amount \in Amounts, GrantCoins(op, amount)
  PROVE  CareerOK'
<1>1. amount \in Nat
  BY CareerAssumption
<1>2. Booked(amount) /\ fighter' = fighter /\ character' = [character EXCEPT !.coins = @ + amount]
  BY DEF GrantCoins
<1>3. /\ character' \in [level : Nat \ {0}, xp : Nat, coins : Nat]
      /\ character'.xp = character.xp /\ character'.level = character.level
      /\ character'.coins = character.coins + amount
  <2>1. /\ character \in [level : Nat \ {0}, xp : Nat, coins : Nat]
        /\ character.coins + amount \in Nat
    BY <1>1 DEF CareerOK
  <2>2. character' = [level |-> character.level, xp |-> character.xp,
                      coins |-> character.coins + amount]
    BY <1>2, <2>1
  <2> QED
    BY <2>1, <2>2
<1>4. /\ ledger' \in Seq([amount : Nat, balance : Nat])
      /\ \A n \in DOMAIN ledger' : Balance(n)' = Balance(n - 1)' + ledger'[n].amount
      /\ character.coins + amount = Balance(Len(ledger))'
  BY <1>1, <1>2, BookedKeeps
<1> QED
  BY <1>2, <1>3, <1>4 DEF CareerOK

LEMMA SetLevelKeeps ==
  ASSUME LevelsArePriced, CareerOK, NEW op, NEW level \in Levels, SetLevel(op, level)
  PROVE  CareerOK'
<1>1. level \in Nat \ {0} /\ LevelXP[level] \in Nat \ {0}
  BY CareerAssumption DEF LevelsArePriced
<1>2. /\ character' = [character EXCEPT !.level = level, !.xp = 0]
      /\ UNCHANGED <<ledger, fighter>>
  BY DEF SetLevel
<1>3. /\ character' \in [level : Nat \ {0}, xp : Nat, coins : Nat]
      /\ character'.xp = 0 /\ character'.level = level /\ character'.coins = character.coins
  BY <1>1, <1>2 DEF CareerOK
<1>4. character'.xp < LevelXP[character'.level]
  BY <1>1, <1>3
<1> QED
  BY <1>2, <1>3, <1>4 DEF CareerOK, Balance

-----------------------------------------------------------------------------
(* The steps, one part of the profile at a time.                           *)
ItemStep ==
  \E op \in OperationId :
    \/ \E e \in EntryId, slot \in Slot : Equip(op, e, slot)
    \/ \E slot \in Slot : Unequip(op, slot)
    \/ \E toStorage \in BOOLEAN : \E e \in Held(Source(toStorage)) :
         \E quantity \in 1..Source(toStorage)[e].quantity : Move(op, toStorage, e, quantity)
    \/ \E recipe \in Recipe : LearnRecipe(op, recipe) \/ Craft(op, recipe)
    \/ \E i \in Stackable : ConsumeItem(op, i)
    \/ \E loot \in Loot, percent \in Retained : CommitLoot(op, loot, percent)
    \/ \E grant \in Grants : GrantItem(op, grant)

RiftStep ==
  \E op \in OperationId :
    \/ \E rift \in Rift : \E floor \in 1..Floors[rift] : CompleteRiftFloor(op, rift, floor)
    \/ ResetRift(op)

CareerStep ==
  \/ \E op \in OperationId :
       \/ \E reward \in Rewards : AwardProgression(op, reward)
       \/ \E amount \in Amounts : GrantCoins(op, amount)
       \/ \E level \in Levels : SetLevel(op, level)
  \/ EnterRun
  \/ LeaveRun

ProfessionStep ==
  \/ \E op \in OperationId, kind \in {"start", "cancel", "collect"} : Ask(kind, op)
  \/ \E request \in requests :
       \/ \E a \in Activity, duration \in Duration, quantity \in Quantity :
            StartJob(request, a, duration, quantity)
       \/ \E j \in DOMAIN jobs : CancelJob(request, j) \/ CollectJob(request, j)
       \/ RefuseJob(request)
  \/ TimePasses

LEMMA NextSplits ==
  ASSUME ProfileNext
  PROVE  ItemStep \/ RiftStep \/ CareerStep \/ ProfessionStep
BY DEF ProfileNext, ItemStep, RiftStep, CareerStep, ProfessionStep

LEMMA ItemStepKeeps ==
  ASSUME GoodsOK, ItemStep
  PROVE  GoodsOK' /\ UNCHANGED <<progress, profession, career>>
<1>1. PICK op \in OperationId :
        \/ \E e \in EntryId, slot \in Slot : Equip(op, e, slot)
        \/ \E slot \in Slot : Unequip(op, slot)
        \/ \E toStorage \in BOOLEAN : \E e \in Held(Source(toStorage)) :
             \E quantity \in 1..Source(toStorage)[e].quantity : Move(op, toStorage, e, quantity)
        \/ \E recipe \in Recipe : LearnRecipe(op, recipe) \/ Craft(op, recipe)
        \/ \E i \in Stackable : ConsumeItem(op, i)
        \/ \E loot \in Loot, percent \in Retained : CommitLoot(op, loot, percent)
        \/ \E grant \in Grants : GrantItem(op, grant)
  BY DEF ItemStep
<1>2. ASSUME NEW e \in EntryId, NEW slot \in Slot, Equip(op, e, slot)
      PROVE  GoodsOK' /\ UNCHANGED <<progress, profession, career>>
  <2>1. UNCHANGED <<progress, profession, career>>
    BY <1>2 DEF Equip
  <2> QED
    BY <1>2, <2>1, EquipGoods
<1>3. ASSUME NEW slot \in Slot, Unequip(op, slot)
      PROVE  GoodsOK' /\ UNCHANGED <<progress, profession, career>>
  <2>1. UNCHANGED <<progress, profession, career>>
    BY <1>3 DEF Unequip
  <2> QED
    BY <1>3, <2>1, UnequipGoods
<1>4. ASSUME NEW toStorage \in BOOLEAN, NEW e \in Held(Source(toStorage)),
             NEW quantity \in 1..Source(toStorage)[e].quantity,
             Move(op, toStorage, e, quantity)
      PROVE  GoodsOK' /\ UNCHANGED <<progress, profession, career>>
  <2>1. UNCHANGED <<progress, profession, career>>
    BY <1>4 DEF Move
  <2> QED
    BY <1>4, <2>1, MoveGoods
<1>5. ASSUME NEW recipe \in Recipe, LearnRecipe(op, recipe) \/ Craft(op, recipe)
      PROVE  GoodsOK' /\ UNCHANGED <<progress, profession, career>>
  <2>1. UNCHANGED <<progress, profession, career>>
    BY <1>5 DEF LearnRecipe, Craft
  <2> QED
    BY <1>5, <2>1, LearnRecipeGoods, CraftGoods
<1>6. ASSUME NEW i \in Stackable, ConsumeItem(op, i)
      PROVE  GoodsOK' /\ UNCHANGED <<progress, profession, career>>
  <2>1. UNCHANGED <<progress, profession, career>>
    BY <1>6 DEF ConsumeItem
  <2> QED
    BY <1>6, <2>1, ConsumeItemGoods
<1>7. ASSUME NEW loot \in Loot, NEW percent \in Retained, CommitLoot(op, loot, percent)
      PROVE  GoodsOK' /\ UNCHANGED <<progress, profession, career>>
  <2>1. /\ Receive(<<"extraction", op>>, Kept(loot, percent))
        /\ UNCHANGED <<progress, profession, career>>
    BY <1>7 DEF CommitLoot, Receive
  <2>2. Kept(loot, percent) \in Bags
    BY KeptIsBag
  <2> QED
    BY <2>1, <2>2, ReceiveGoods
<1>8. ASSUME NEW grant \in Grants, GrantItem(op, grant)
      PROVE  GoodsOK' /\ UNCHANGED <<progress, profession, career>>
  <2>1. /\ Receive(<<"admin", op>>, Some(grant.item, grant.quantity))
        /\ UNCHANGED <<progress, profession, career>>
    BY <1>8 DEF GrantItem, Receive
  <2>2. Some(grant.item, grant.quantity) \in Bags
    BY GoodsAssumption, SomeFields
  <2> QED
    BY <2>1, <2>2, ReceiveGoods
<1> QED
  BY <1>1, <1>2, <1>3, <1>4, <1>5, <1>6, <1>7, <1>8

LEMMA RiftStepKeeps ==
  ASSUME RiftStep
  PROVE  /\ GoodsOK => GoodsOK'
         /\ RiftOK => RiftOK'
         /\ UNCHANGED <<profession, career>>
<1>1. ASSUME NEW op \in OperationId, NEW rift \in Rift, NEW floor \in 1..Floors[rift],
             CompleteRiftFloor(op, rift, floor)
      PROVE  /\ GoodsOK => GoodsOK'
             /\ RiftOK => RiftOK'
             /\ UNCHANGED <<profession, career>>
  <2>1. /\ Applied(<<"rift", op>>, Nothing)
        /\ UNCHANGED <<places, learned>> /\ UNCHANGED <<profession, career>>
    BY <1>1 DEF CompleteRiftFloor
  <2> QED
    BY <1>1, <2>1, GoodsJournalled, CompleteKeepsOrder
<1>2. ASSUME NEW op \in OperationId, ResetRift(op)
      PROVE  /\ GoodsOK => GoodsOK'
             /\ RiftOK => RiftOK'
             /\ UNCHANGED <<profession, career>>
  <2>1. /\ Applied(<<"admin", op>>, Nothing)
        /\ UNCHANGED <<places, learned>> /\ UNCHANGED <<profession, career>>
        /\ progress' = [r \in Rift |->
             IF r = FirstRift THEN [unlocked |-> 1, completed |-> 0] ELSE NoProgress]
    BY <1>2 DEF ResetRift
  <2>2. RiftOK'
    BY <2>1, FirstProgress
  <2> QED
    BY <2>1, <2>2, GoodsJournalled
<1> QED
  BY <1>1, <1>2 DEF RiftStep

LEMMA CareerStepKeeps ==
  ASSUME CareerStep
  PROVE  /\ GoodsOK => GoodsOK'
         /\ LevelsArePriced /\ CareerOK => CareerOK'
         /\ UNCHANGED <<progress, profession>>
<1>1. ASSUME NEW op \in OperationId, NEW reward \in Rewards, AwardProgression(op, reward)
      PROVE  /\ GoodsOK => GoodsOK'
             /\ LevelsArePriced /\ CareerOK => CareerOK'
             /\ UNCHANGED <<progress, profession>>
  <2>1. /\ Applied(<<"encounter", op>>, Nothing)
        /\ UNCHANGED <<places, learned>> /\ UNCHANGED <<progress, profession>>
    BY <1>1 DEF AwardProgression
  <2> QED
    BY <1>1, <2>1, GoodsJournalled, AwardKeeps
<1>2. ASSUME NEW op \in OperationId, NEW amount \in Amounts, GrantCoins(op, amount)
      PROVE  /\ GoodsOK => GoodsOK'
             /\ LevelsArePriced /\ CareerOK => CareerOK'
             /\ UNCHANGED <<progress, profession>>
  <2>1. /\ Applied(<<"admin", op>>, Nothing)
        /\ UNCHANGED <<places, learned>> /\ UNCHANGED <<progress, profession>>
    BY <1>2 DEF GrantCoins
  <2> QED
    BY <1>2, <2>1, GoodsJournalled, GrantCoinsKeeps
<1>3. ASSUME NEW op \in OperationId, NEW level \in Levels, SetLevel(op, level)
      PROVE  /\ GoodsOK => GoodsOK'
             /\ LevelsArePriced /\ CareerOK => CareerOK'
             /\ UNCHANGED <<progress, profession>>
  <2>1. /\ Applied(<<"admin", op>>, Nothing)
        /\ UNCHANGED <<places, learned>> /\ UNCHANGED <<progress, profession>>
    BY <1>3 DEF SetLevel
  <2> QED
    BY <1>3, <2>1, GoodsJournalled, SetLevelKeeps
<1>4. ASSUME EnterRun \/ LeaveRun
      PROVE  /\ GoodsOK => GoodsOK'
             /\ LevelsArePriced /\ CareerOK => CareerOK'
             /\ UNCHANGED <<progress, profession>>
  <2>1. /\ UNCHANGED <<places, learned, journal>> /\ UNCHANGED <<progress, profession>>
        /\ UNCHANGED <<character, ledger>>
        /\ fighter' \in {[level |-> character.level, xp |-> character.xp], NoFighter}
    BY <1>4 DEF EnterRun, LeaveRun
  <2>2. CareerOK => fighter' \in [level : Nat \ {0}, xp : Nat] \cup {NoFighter}
    BY <2>1 DEF CareerOK
  <2> QED
    BY <2>1, <2>2, GoodsUnchanged, CareerUnchanged
<1> QED
  BY <1>1, <1>2, <1>3, <1>4 DEF CareerStep

LEMMA ProfessionStepKeeps ==
  ASSUME JobsOK, ProfessionStep
  PROVE  /\ GoodsOK => GoodsOK'
         /\ JobsOK' /\ JobStep
         /\ UNCHANGED <<progress, career>>
<1>1. ASSUME NEW op \in OperationId, NEW kind \in {"start", "cancel", "collect"}, Ask(kind, op)
      PROVE  /\ GoodsOK => GoodsOK'
             /\ JobsOK' /\ JobStep
             /\ UNCHANGED <<progress, career>>
  <2>1. /\ UNCHANGED <<places, learned, journal>> /\ UNCHANGED <<progress, career>>
        /\ UNCHANGED <<mastery, jobs>> /\ now' = now
        /\ requests' = requests \cup {[kind |-> kind, op |-> op, at |-> now]}
    BY <1>1 DEF Ask
  <2> QED
    BY <2>1, GoodsUnchanged, JobsUntouched
<1>2. ASSUME NEW request \in requests, NEW a \in Activity, NEW duration \in Duration,
             NEW quantity \in Quantity, StartJob(request, a, duration, quantity)
      PROVE  /\ GoodsOK => GoodsOK'
             /\ JobsOK' /\ JobStep
             /\ UNCHANGED <<progress, career>>
  <2>1. /\ Applied(<<"job", request.op>>, Nothing)
        /\ UNCHANGED <<places, learned>> /\ UNCHANGED <<progress, career>>
    BY <1>2 DEF StartJob
  <2> QED
    BY <1>2, <2>1, GoodsJournalled, StartJobKeeps
<1>3. ASSUME NEW request \in requests, NEW j \in DOMAIN jobs, CancelJob(request, j)
      PROVE  /\ GoodsOK => GoodsOK'
             /\ JobsOK' /\ JobStep
             /\ UNCHANGED <<progress, career>>
  <2>1. /\ Applied(<<"job", request.op>>, Nothing)
        /\ UNCHANGED <<places, learned>> /\ UNCHANGED <<progress, career>>
    BY <1>3 DEF CancelJob
  <2> QED
    BY <1>3, <2>1, GoodsJournalled, CancelJobKeeps
<1>4. ASSUME NEW request \in requests, NEW j \in DOMAIN jobs, CollectJob(request, j)
      PROVE  /\ GoodsOK => GoodsOK'
             /\ JobsOK' /\ JobStep
             /\ UNCHANGED <<progress, career>>
  <2> DEFINE bag == Some(Resource[jobs[j].activity], jobs[j].quantity)
  <2>1. /\ Receive(<<"job", request.op>>, bag)
        /\ UNCHANGED <<progress, career>>
    BY <1>4 DEF CollectJob, Receive
  <2>2. bag \in Bags
    <3>1. Resource[jobs[j].activity] \in Item /\ jobs[j].quantity \in Nat
      BY JobFields, JobAssumption
    <3>2. jobs[j].quantity \in Int
      BY <3>1
    <3> QED
      BY <3>1, <3>2, SomeFields
  <2> HIDE DEF bag
  <2> QED
    BY <1>4, <2>1, <2>2, ReceiveGoods, CollectJobKeeps
<1>5. ASSUME NEW request \in requests, RefuseJob(request)
      PROVE  /\ GoodsOK => GoodsOK'
             /\ JobsOK' /\ JobStep
             /\ UNCHANGED <<progress, career>>
  <2>1. /\ UNCHANGED <<places, learned, journal>> /\ UNCHANGED <<progress, career>>
        /\ UNCHANGED <<mastery, jobs>> /\ now' = now
        /\ requests' \subseteq requests
    BY <1>5 DEF RefuseJob, Answer
  <2> QED
    BY <2>1, GoodsUnchanged, JobsUntouched
<1>6. ASSUME TimePasses
      PROVE  /\ GoodsOK => GoodsOK'
             /\ JobsOK' /\ JobStep
             /\ UNCHANGED <<progress, career>>
  <2>1. /\ UNCHANGED <<places, learned, journal>> /\ UNCHANGED <<progress, career>>
        /\ UNCHANGED <<mastery, jobs>> /\ now' = now + 1 /\ requests' = requests
    BY <1>6 DEF TimePasses
  <2> QED
    BY <2>1, GoodsUnchanged, JobsUntouched
<1> QED
  BY <1>1, <1>2, <1>3, <1>4, <1>5, <1>6 DEF ProfessionStep

-----------------------------------------------------------------------------
LEMMA FirstGoods ==
  ASSUME ProfileInit
  PROVE  GoodsOK
<1>1. /\ inventory = InitialInventory /\ storage = [e \in EntryId |-> NoEntry]
      /\ equipment = [s \in Slot |-> NoEntry] /\ learned = {} /\ journal = <<>>
  BY DEF ProfileInit
<1>2. PlacesTyped
  BY <1>1, GoodsAssumption DEF PlacesTyped, Places
<1>3. DOMAIN journal = {}
  BY <1>1
<1>4. JournalTyped
  BY <1>3, FS_EmptySet DEF JournalTyped
<1>5. Placed
  <2>1. Held(storage) = {} /\ Single(storage)
    BY <1>1 DEF Held, Single
  <2> QED
    BY <1>1, <2>1, GoodsAssumption DEF Placed
<1>6. Reconciled
  <2> SUFFICES ASSUME NEW i \in Item
               PROVE  Pieces(i) = Count(InitialInventory, i) + Journalled(i)
    BY DEF Reconciled
  <2>1. Count(storage, i) = 0
    <3>1. \A d \in EntryId : At(storage, i)[d] = 0
      BY <1>1 DEF At, Held
    <3> QED
      BY <1>2, <3>1, CountEmpty DEF PlacesTyped
  <2>2. Cardinality({s \in Slot : equipment[s] # NoEntry /\ equipment[s].item = i}) = 0
    <3>1. {s \in Slot : equipment[s] # NoEntry /\ equipment[s].item = i} = {}
      BY <1>1
    <3> QED
      BY <3>1, FS_EmptySet
  <2>3. Journalled(i) = 0
    <3> DEFINE f == [key \in DOMAIN journal |-> journal[key][i]]
    <3>1. \A x \in {} : f[x] = 0
      OBVIOUS
    <3> HIDE DEF f
    <3>2. SumOver(f, {}) = 0
      BY <3>1, FS_EmptySet, SumZero
    <3> QED
      BY <1>3, <3>2 DEF Journalled, f
  <2>4. Count(inventory, i) = Count(InitialInventory, i) /\ Count(inventory, i) \in Nat
    BY <1>1, <1>2, CountType DEF PlacesTyped
  <2> QED
    BY <2>1, <2>2, <2>3, <2>4 DEF Pieces
<1> QED
  BY <1>2, <1>4, <1>5, <1>6 DEF GoodsOK

LEMMA FirstRifts ==
  ASSUME ProfileInit
  PROVE  RiftOK
<1>1. progress = [r \in Rift |->
        IF r = FirstRift THEN [unlocked |-> 1, completed |-> 0] ELSE NoProgress]
  BY DEF ProfileInit
<1>2. progress \in [Rift -> Progress \cup {NoProgress}]
  BY <1>1, ProgressMade
<1>3. Smaller(Floors[FirstRift], 0 + 1) = 1
  BY RiftAssumption DEF Smaller
<1>4. \A r \in Rift : progress[r] # NoProgress =>
        r = FirstRift /\ progress[r].unlocked = 1 /\ progress[r].completed = 0
  BY <1>1
<1>5. PrerequisiteMet(FirstRift)
  BY RiftAssumption DEF PrerequisiteMet
<1> QED
  BY <1>2, <1>3, <1>4, <1>5 DEF RiftOK, RiftsOpenInOrder

LEMMA FirstJobs ==
  ASSUME ProfileInit
  PROVE  JobsOK
<1>1. mastery = [level |-> 1, xp |-> 0] /\ jobs = <<>> /\ requests = {} /\ now = 0
  BY DEF ProfileInit
<1>2. 1 \in 1..MaxMastery /\ 0 \in Nat
  BY JobAssumption
<1>3. Active = {}
  BY <1>1 DEF Active
<1>4. mastery.level < MaxMastery => mastery.xp < XPRequired[mastery.level]
  BY <1>1, JobAssumption
<1> QED
  BY <1>1, <1>2, <1>3, <1>4 DEF JobsOK

LEMMA FirstCareer ==
  ASSUME ProfileInit
  PROVE  CareerOK
BY CareerAssumption DEF ProfileInit, CareerOK, Balance

(* What the goods are read off: one stack of a kind is at most one entry.  *)
LEMMA StacksCounted ==
  ASSUME NEW place, Single(place), NEW i \in Item
  PROVE  Cardinality(StackIn(place, i)) <= 1
<1>1. \A d, e \in StackIn(place, i) : d = e
  BY DEF StackIn, Held, Single
<1>2. CASE StackIn(place, i) = {}
  BY <1>2, FS_EmptySet
<1>3. CASE StackIn(place, i) # {}
  <2>1. PICK e \in StackIn(place, i) : TRUE
    BY <1>3
  <2>2. StackIn(place, i) = {e}
    BY <1>1, <2>1
  <2>3. Cardinality({e}) = 1
    BY FS_Singleton
  <2> QED
    BY <2>2, <2>3
<1> QED
  BY <1>2, <1>3

(* The goods and the jobs, which pay into the goods, in every state.       *)
LEMMA ProfileInvariant == ProfileSpec => [](GoodsOK /\ RiftOK /\ JobsOK)
<1> DEFINE Inv == GoodsOK /\ RiftOK /\ JobsOK
<1>1. ProfileInit => Inv
  BY FirstGoods, FirstRifts, FirstJobs
<1>2. Inv /\ [ProfileNext]_profileVars => Inv'
  <2> SUFFICES ASSUME Inv, [ProfileNext]_profileVars
               PROVE  Inv'
    OBVIOUS
  <2>1. ASSUME UNCHANGED <<progress, profession>>
        PROVE  RiftOK' /\ JobsOK'
    <3>1. /\ UNCHANGED progress /\ UNCHANGED <<mastery, jobs>>
          /\ requests' \subseteq requests /\ now' = now
      BY <2>1 DEF profession
    <3> QED
      BY <3>1, RiftUnchanged, JobsUntouched
  <2>2. CASE UNCHANGED profileVars
    BY <2>1, <2>2, GoodsUnchanged DEF profileVars
  <2>3. CASE ItemStep
    BY <2>1, <2>3, ItemStepKeeps
  <2>4. CASE RiftStep
    <3>1. GoodsOK' /\ RiftOK' /\ UNCHANGED profession
      BY <2>4, RiftStepKeeps
    <3>2. UNCHANGED <<mastery, jobs>> /\ requests' \subseteq requests /\ now' = now
      BY <3>1 DEF profession
    <3> QED
      BY <3>1, <3>2, JobsUntouched
  <2>5. CASE CareerStep
    BY <2>1, <2>5, CareerStepKeeps
  <2>6. CASE ProfessionStep
    BY <2>6, ProfessionStepKeeps, RiftUnchanged
  <2> QED
    BY <2>2, <2>3, <2>4, <2>5, <2>6, NextSplits
<1> QED
  BY <1>1, <1>2, PTL DEF ProfileSpec

LEMMA CareerInvariant ==
  ASSUME LevelsArePriced
  PROVE  ProfileSpec => []CareerOK
<1>1. ProfileInit => CareerOK
  BY FirstCareer
<1>2. (GoodsOK /\ RiftOK /\ JobsOK) /\ CareerOK /\ [ProfileNext]_profileVars => CareerOK'
  <2> SUFFICES ASSUME GoodsOK, JobsOK, CareerOK, [ProfileNext]_profileVars
               PROVE  CareerOK'
    OBVIOUS
  <2>1. ASSUME UNCHANGED career
        PROVE  CareerOK'
    <3>1. /\ UNCHANGED <<character, ledger>>
          /\ fighter' \in [level : Nat \ {0}, xp : Nat] \cup {NoFighter}
      BY <2>1 DEF career, CareerOK
    <3> QED
      BY <3>1, CareerUnchanged
  <2>2. CASE UNCHANGED profileVars
    BY <2>1, <2>2 DEF profileVars
  <2>3. CASE ItemStep
    BY <2>1, <2>3, ItemStepKeeps
  <2>4. CASE RiftStep
    BY <2>1, <2>4, RiftStepKeeps
  <2>5. CASE CareerStep
    BY <2>5, CareerStepKeeps
  <2>6. CASE ProfessionStep
    BY <2>1, <2>6, ProfessionStepKeeps
  <2> QED
    BY <2>2, <2>3, <2>4, <2>5, <2>6, NextSplits
<1> QED
  BY <1>1, <1>2, ProfileInvariant, PTL DEF ProfileSpec

(* The profile keeps its types, where every level costs some experience,   *)
(* as the formula of the levels does: nothing that is taken makes a        *)
(* quantity, a balance or a level leave the naturals.                      *)
THEOREM ProfileTypeCorrect ==
  ASSUME LevelsArePriced
  PROVE  ProfileSpec => []ProfileTypeOK
<1>1. GoodsOK /\ RiftOK /\ JobsOK /\ CareerOK => ProfileTypeOK
  BY DEF GoodsOK, RiftOK, JobsOK, CareerOK, ProfileTypeOK, PlacesTyped, JournalTyped, Places
<1> QED
  BY <1>1, ProfileInvariant, CareerInvariant, PTL

(* What a player owns is what the applied operations add up to, each once, *)
(* every entry is in one place, and the coin ledger leads to the wallet.   *)
THEOREM GoodsAreReconciled ==
  ASSUME LevelsArePriced
  PROVE  ProfileSpec => []GoodsReconcile
<1>1. GoodsOK /\ CareerOK => GoodsReconcile
  <2> SUFFICES ASSUME GoodsOK, CareerOK
               PROVE  GoodsReconcile
    OBVIOUS
  <2>1. \A i \in Item : Pieces(i) = Count(InitialInventory, i) + Journalled(i)
    BY DEF GoodsOK, Reconciled
  <2>2. \A i \in Item : \A place \in {inventory, storage} : Cardinality(StackIn(place, i)) <= 1
    <3> SUFFICES ASSUME NEW i \in Item
                 PROVE  /\ Cardinality(StackIn(inventory, i)) <= 1
                        /\ Cardinality(StackIn(storage, i)) <= 1
      OBVIOUS
    <3>1. Single(inventory) /\ Single(storage)
      BY DEF GoodsOK, Placed
    <3> QED
      BY <3>1, StacksCounted
  <2>3. /\ Held(inventory) \cap Held(storage) = {}
        /\ \A s \in Slot : equipment[s] # NoEntry =>
             /\ s \in SlotsOf[equipment[s].item]
             /\ equipment[s].id \notin Held(inventory) \cup Held(storage)
             /\ \A t \in Slot \ {s} : equipment[t] # NoEntry => equipment[t].id # equipment[s].id
    BY DEF GoodsOK, Placed
  <2>4. /\ \A n \in DOMAIN ledger : Balance(n) = Balance(n - 1) + ledger[n].amount
        /\ character.coins = Balance(Len(ledger)) /\ character.xp < LevelXP[character.level]
    BY DEF CareerOK
  <2> QED
    BY <2>1, <2>2, <2>3, <2>4 DEF GoodsReconcile
<1> QED
  BY <1>1, ProfileInvariant, CareerInvariant, PTL

(* Rifts and their floors open in order, whatever is completed when.       *)
THEOREM RiftsAlwaysOpenInOrder == ProfileSpec => []RiftsOpenInOrder
<1>1. RiftOK => RiftsOpenInOrder
  BY DEF RiftOK
<1> QED
  BY <1>1, ProfileInvariant, PTL

(* No job is paid out twice, early or after it was cancelled, and only a   *)
(* job that is paid out raises the mastery.                                *)
THEOREM JobsAlwaysEndOnce == ProfileSpec => JobsEndOnce
<1>1. (GoodsOK /\ RiftOK /\ JobsOK) /\ [ProfileNext]_profileVars => [JobStep]_profileVars
  <2> SUFFICES ASSUME GoodsOK, JobsOK, ProfileNext
               PROVE  JobStep
    OBVIOUS
  <2>1. ASSUME UNCHANGED profession
        PROVE  JobStep
    <3>1. /\ UNCHANGED <<mastery, jobs>> /\ requests' \subseteq requests /\ now' = now
      BY <2>1 DEF profession
    <3> QED
      BY <3>1, JobsUntouched
  <2>2. CASE ItemStep
    BY <2>1, <2>2, ItemStepKeeps
  <2>3. CASE RiftStep
    BY <2>1, <2>3, RiftStepKeeps
  <2>4. CASE CareerStep
    BY <2>1, <2>4, CareerStepKeeps
  <2>5. CASE ProfessionStep
    BY <2>5, ProfessionStepKeeps
  <2> QED
    BY <2>2, <2>3, <2>4, <2>5, NextSplits
<1> QED
  BY <1>1, ProfileInvariant, PTL DEF ProfileSpec, JobsEndOnce

=============================================================================
