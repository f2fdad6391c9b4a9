---------------------------- MODULE SocialProofs ----------------------------
(***************************************************************************)
(* The relations between players, for every number of players and guilds:  *)
(* a block severs, a guild has one leader, room for its members and        *)
(* nothing left of it when it is gone, its storage loses no item, and a    *)
(* chat message is stored once and stays read.                             *)
(*                                                                         *)
(* Friends, guilds and chat keep variables of their own, so each invariant *)
(* is preserved by the other components' steps because they leave its      *)
(* variables alone; only the chat asks the two others for permission.      *)
(***************************************************************************)
EXTENDS Chat, FiniteSumsProofs

(* BlocksSever without its cardinalities, and what they rest on: nobody    *)
(* asks itself, so that an accepted request makes a pair of two.           *)
Severs ==
  /\ FriendsTypeOK
  /\ \A p \in Player : <<p, p>> \notin friendRequests
  /\ \A f \in friendships : \E p, q \in Player : p # q /\ f = {p, q}
  /\ \A p, q \in Player :
       /\ Blocked(p, q) => {p, q} \notin friendships /\ Pending(p, q) = {}
       /\ {p, q} \in friendships => Pending(p, q) = {}
       /\ ~ (<<p, q>> \in friendRequests /\ <<q, p>> \in friendRequests)

LEMMA PairHasTwo ==
  ASSUME NEW p, NEW q, p # q
  PROVE  Cardinality({p, q}) = 2
<1>1. IsFiniteSet({p}) /\ Cardinality({p}) = 1
  BY FS_Singleton
<1>2. {p, q} = {p} \cup {q} /\ q \notin {p}
  OBVIOUS
<1>3. Cardinality({p} \cup {q}) = 1 + 1
  BY <1>1, <1>2, FS_AddElement
<1> QED
  BY <1>2, <1>3

(* The requests pending between two players are one at most.               *)
LEMMA PendingIsOne ==
  ASSUME NEW p \in Player, NEW q \in Player,
         ~ (<<p, q>> \in friendRequests /\ <<q, p>> \in friendRequests)
  PROVE  Cardinality(Pending(p, q)) <= 1
<1>1. Pending(p, q) = {} \/ \E x : Pending(p, q) = {x}
  BY DEF Pending
<1>2. CASE Pending(p, q) = {}
  BY <1>2, FS_EmptySet
<1>3. ASSUME NEW x, Pending(p, q) = {x}
      PROVE  Cardinality(Pending(p, q)) <= 1
  <2>1. Cardinality({x}) = 1
    BY FS_Singleton
  <2> QED
    BY <1>3, <2>1
<1> QED
  BY <1>1, <1>2, <1>3

LEMMA SeversIsBlocksSever == Severs => BlocksSever
<1> SUFFICES ASSUME Severs
             PROVE  BlocksSever
  OBVIOUS
<1>1. ASSUME NEW f \in friendships
      PROVE  Cardinality(f) = 2
  <2>1. PICK p \in Player, q \in Player : p # q /\ f = {p, q}
    BY DEF Severs
  <2> QED
    BY <2>1, PairHasTwo
<1>2. \A p, q \in Player : Cardinality(Pending(p, q)) <= 1
  BY PendingIsOne DEF Severs
<1> QED
  BY <1>1, <1>2 DEF Severs, BlocksSever

LEMMA FriendsStepSevers ==
  ASSUME Severs, FriendsNext
  PROVE  Severs'
<1> USE DEF Blocked, Pending
<1> PICK p \in Player, q \in Player :
      \/ SendRequest(p, q) \/ Remove(p, q) \/ Block(p, q) \/ Unblock(p, q)
      \/ \E accept \in BOOLEAN : Respond(p, q, accept)
  BY DEF FriendsNext
<1>1. CASE SendRequest(p, q)
  BY <1>1 DEF SendRequest, Open, Severs, FriendsTypeOK
<1>2. CASE Remove(p, q)
  BY <1>2 DEF Remove, Severs, FriendsTypeOK
<1>3. CASE Block(p, q)
  BY <1>3 DEF Block, Severed, Severs, FriendsTypeOK
<1>4. CASE Unblock(p, q)
  BY <1>4 DEF Unblock, Severs, FriendsTypeOK
<1>5. ASSUME NEW accept \in BOOLEAN, Respond(p, q, accept)
      PROVE  Severs'
  BY <1>5 DEF Respond, Severs, FriendsTypeOK
<1> QED
  BY <1>1, <1>2, <1>3, <1>4, <1>5

(* The relations of two players change in the steps of FriendsService only.*)
LEMMA OthersKeepRelations ==
  ASSUME [Next]_vars
  PROVE  FriendsNext \/ UNCHANGED relations
BY DEF Next, GuildStep, vars, relations

LEMMA SeversAlways == Spec => []Severs
<1>1. Init => Severs
  BY DEF Init, FriendsInit, Severs, FriendsTypeOK, Blocked, Pending
<1>2. Severs /\ [Next]_vars => Severs'
  <2>1. ASSUME Severs, UNCHANGED relations
        PROVE  Severs'
    BY <2>1 DEF Severs, relations, FriendsTypeOK, Blocked, Pending
  <2> QED
    BY <2>1, FriendsStepSevers, OthersKeepRelations
<1> QED
  BY <1>1, <1>2, PTL DEF Spec

(* No friendship or request survives a block between two players, and      *)
(* requests neither cross nor outlive a friendship.                        *)
THEOREM BlocksAlwaysSever == Spec => []BlocksSever
BY SeversAlways, SeversIsBlocksSever, PTL

-----------------------------------------------------------------------------
(* The guilds.  GuildsAreSound is inductive with the types.                *)
Sound == GuildTypeOK /\ GuildsAreSound

(* What the types say of a member.                                         *)
LEMMA MemberTyped ==
  ASSUME GuildTypeOK, NEW p \in Player, member[p] # NoGuild
  PROVE  /\ member[p] \in Membership /\ GuildOf(p) \in GuildId
         /\ member[p].rank \in Rank /\ p \in MembersOf(GuildOf(p))
<1>1. member[p] \in Membership
  BY DEF GuildTypeOK
<1>2. member[p].guild \in GuildId /\ member[p].rank \in Rank
  BY <1>1 DEF Membership
<1> QED
  BY <1>1, <1>2 DEF GuildOf, MembersOf, InGuild

(* A member's guild exists.                                                *)
LEMMA MemberHasGuild ==
  ASSUME Sound, NEW p \in Player, member[p] # NoGuild
  PROVE  GuildOf(p) \in Guilds
BY MemberTyped DEF Sound, GuildsAreSound

(* A leader is the one its guild names.                                    *)
LEMMA LeaderIsNamed ==
  ASSUME Sound, NEW p \in Player, Holds(p, {"LEADER"})
  PROVE  /\ member[p] # NoGuild /\ member[p].rank = "LEADER"
         /\ GuildOf(p) \in Guilds /\ leaderOf[GuildOf(p)] = p
<1>1. member[p] # NoGuild /\ member[p].rank = "LEADER"
  BY DEF Holds
<1>2. GuildOf(p) \in Guilds /\ p \in MembersOf(GuildOf(p))
  BY <1>1, MemberTyped, MemberHasGuild DEF Sound
<1> QED
  BY <1>1, <1>2 DEF Sound, GuildsAreSound

(* Fewer members are still not too many.                                   *)
LEMMA FewerMembers ==
  ASSUME NEW g, MembersOf(g)' \subseteq MembersOf(g), Cardinality(MembersOf(g)) <= MaxMembers
  PROVE  Cardinality(MembersOf(g)') <= MaxMembers
<1>1. IsFiniteSet(MembersOf(g))
  BY GuildAssumption, FS_Subset DEF MembersOf
<1>2. /\ Cardinality(MembersOf(g)) \in Nat /\ Cardinality(MembersOf(g)') \in Nat
      /\ Cardinality(MembersOf(g)') <= Cardinality(MembersOf(g))
  BY <1>1, FS_Subset, FS_CardinalityType
<1> QED
  BY <1>2, GuildAssumption

(* One more is not, where there was room.                                  *)
LEMMA OneMoreMember ==
  ASSUME NEW g, NEW p, MembersOf(g)' = MembersOf(g) \cup {p}, HasRoom(g)
  PROVE  Cardinality(MembersOf(g)') <= MaxMembers
<1>1. IsFiniteSet(MembersOf(g))
  BY GuildAssumption, FS_Subset DEF MembersOf
<1>2. Cardinality(MembersOf(g)) \in Nat
  BY <1>1, FS_CardinalityType
<1>3. Cardinality(MembersOf(g) \cup {p}) <= Cardinality(MembersOf(g)) + 1
  BY <1>1, <1>2, FS_AddElement
<1>4. Cardinality(MembersOf(g) \cup {p}) \in Nat
  BY <1>1, FS_AddElement, FS_CardinalityType
<1> QED
  BY <1>2, <1>3, <1>4, GuildAssumption DEF HasRoom

LEMMA InitSound == GuildInit => Sound
<1> SUFFICES ASSUME GuildInit PROVE Sound
  OBVIOUS
<1>1. GuildTypeOK
  BY GuildAssumption DEF GuildInit, GuildTypeOK, DefaultRights, Right
<1>2. Guilds = {}
  BY DEF GuildInit, Guilds
<1>3. \A g \in GuildId : MembersOf(g) = {} /\ StorageOf(g) = {}
  BY DEF GuildInit, MembersOf, InGuild, StorageOf
<1>4. applications \cup invites = {}
  BY DEF GuildInit
<1> QED
  BY <1>1, <1>2, <1>3, <1>4 DEF Sound, GuildsAreSound

(* Founding: the founder had no guild, and the id named none.              *)
LEMMA CreateSound ==
  ASSUME Sound, NEW p \in Player, NEW g \in GuildId, Create(p, g)
  PROVE  Sound'
<1> USE DEF Create, MayFound
<1>1. GuildTypeOK'
  BY GuildAssumption DEF Sound, GuildTypeOK, DefaultRights, Right, Rank, Membership, requests, goods
<1>2. Guilds' = Guilds \cup {g}
  BY GuildAssumption DEF Sound, GuildTypeOK, Guilds
<1>3. MembersOf(g) = {}
  BY DEF Sound, GuildsAreSound
<1>4. /\ \A q \in Player \ {p} : member'[q] = member[q]
      /\ member'[p] = [guild |-> g, rank |-> "LEADER"] /\ member'[p] # NoGuild
  BY GuildAssumption DEF Sound, GuildTypeOK, Membership, Rank
<1>5. MembersOf(g)' = {p}
  BY <1>3, <1>4 DEF MembersOf, InGuild
<1>6. \A h \in GuildId \ {g} : MembersOf(h)' = MembersOf(h) /\ leaderOf'[h] = leaderOf[h]
  BY <1>4 DEF MembersOf, InGuild, Sound, GuildTypeOK
<1>7. Cardinality({p}) = 1
  BY FS_Singleton
<1>8. {q \in MembersOf(g)' : member'[q].rank = "LEADER"} = {leaderOf'[g]}
  BY <1>4, <1>5 DEF Sound, GuildTypeOK
<1>9. ASSUME NEW h \in Guilds
      PROVE  /\ {q \in MembersOf(h)' : member'[q].rank = "LEADER"} = {leaderOf'[h]}
             /\ Cardinality(MembersOf(h)') <= MaxMembers
  <2>1. h \in GuildId \ {g}
    BY DEF Guilds
  <2>2. \A q \in MembersOf(h) : member'[q] = member[q]
    BY <1>4 DEF MembersOf, InGuild
  <2> QED
    BY <1>6, <2>1, <2>2 DEF Sound, GuildsAreSound
<1>10. \A h \in GuildId \ Guilds' :
         /\ MembersOf(h)' = {} /\ StorageOf(h)' = {}
         /\ \A q \in Player : <<h, q>> \notin (applications \cup invites)'
  BY <1>2, <1>6 DEF Sound, GuildsAreSound, StorageOf, requests, goods
<1>11. Cardinality(MembersOf(g)') <= MaxMembers
  BY <1>5, <1>7, GuildAssumption
<1>12. \A h \in Guilds' : /\ {q \in MembersOf(h)' : member'[q].rank = "LEADER"} = {leaderOf'[h]}
                          /\ Cardinality(MembersOf(h)') <= MaxMembers
  BY <1>2, <1>8, <1>9, <1>11
<1>13. GuildsAreSound'
  BY <1>10, <1>12 DEF GuildsAreSound
<1> QED
  BY <1>1, <1>13 DEF Sound

(* A step after which everybody is where it was with the rank it had, but  *)
(* for members other than leaders, who may have gone or got another rank   *)
(* below LEADER, and after which no request or entry names a guild that    *)
(* does not exist.                                                         *)
Lesser(q) ==
  \/ member'[q] = member[q]
  \/ /\ member[q] # NoGuild /\ member[q].rank # "LEADER"
     /\ \/ member'[q] = NoGuild
        \/ /\ member'[q] # NoGuild /\ member'[q].guild = member[q].guild
           /\ member'[q].rank # "LEADER"

LEMMA LesserKeepsSound ==
  ASSUME Sound, UNCHANGED leaderOf,
         \A q \in Player : Lesser(q),
         \A g \in GuildId \ Guilds :
           /\ StorageOf(g)' = {}
           /\ \A p \in Player : <<g, p>> \notin (applications \cup invites)'
  PROVE  GuildsAreSound'
<1>1. Guilds' = Guilds
  BY DEF Guilds
<1>2. \A g \in GuildId : MembersOf(g)' \subseteq MembersOf(g)
  BY DEF MembersOf, InGuild, Lesser
<1>3. ASSUME NEW g \in Guilds
      PROVE  /\ {q \in MembersOf(g)' : member'[q].rank = "LEADER"} = {leaderOf'[g]}
             /\ Cardinality(MembersOf(g)') <= MaxMembers
  <2>1. g \in GuildId
    BY DEF Guilds
  <2>2. \A q \in Player : q \in MembersOf(g)' /\ member'[q].rank = "LEADER"
                          <=> q \in MembersOf(g) /\ member[q].rank = "LEADER"
    BY DEF MembersOf, InGuild, Lesser
  <2>3. {q \in MembersOf(g)' : member'[q].rank = "LEADER"} = {q \in MembersOf(g) : member[q].rank = "LEADER"}
    BY <2>2 DEF MembersOf
  <2> QED
    BY <1>2, <2>1, <2>3, FewerMembers DEF Sound, GuildsAreSound
<1>4. \A g \in GuildId \ Guilds : MembersOf(g)' = {}
  BY <1>2 DEF Sound, GuildsAreSound
<1> QED
  BY <1>1, <1>3, <1>4 DEF GuildsAreSound

(* Leaving, kicks and ranks.                                               *)
LEMMA RanksSound ==
  ASSUME Sound, UNCHANGED <<leaderOf, requests, granted, goods, purse>>,
         \/ \E p \in Player : Leave(p)
         \/ \E actor \in Player, target \in Player : Kick(actor, target)
         \/ \E actor \in Player, target \in Player, rank \in Rank \ {"LEADER"} :
              SetRank(actor, target, rank)
  PROVE  Sound'
<1>1. /\ \A g \in GuildId \ Guilds : StorageOf(g)' = {}
      /\ \A g \in GuildId \ Guilds, p \in Player : <<g, p>> \notin (applications \cup invites)'
  BY DEF Sound, GuildsAreSound, StorageOf, requests, goods
<1>2. ASSUME NEW target \in Player, member[target] # NoGuild, member[target].rank # "LEADER",
             member' = [member EXCEPT ![target] = NoGuild]
      PROVE  Sound'
  <2>1. GuildTypeOK'
    BY <1>2 DEF Sound, GuildTypeOK, requests, goods
  <2>2. \A q \in Player : Lesser(q)
    BY <1>2 DEF Lesser, Sound, GuildTypeOK
  <2> QED
    BY <1>1, <2>1, <2>2, LesserKeepsSound DEF Sound
<1>3. ASSUME NEW target \in Player, NEW rank \in Rank \ {"LEADER"},
             member[target] # NoGuild, member[target].rank # "LEADER",
             member' = [member EXCEPT ![target].rank = rank]
      PROVE  Sound'
  <2>1. member[target] \in Membership
    BY <1>3 DEF Sound, GuildTypeOK
  <2>2. /\ member'[target] \in Membership /\ member'[target].rank = rank
        /\ member'[target].guild = member[target].guild
    BY <1>3, <2>1 DEF Membership, Sound, GuildTypeOK
  <2>3. \A q \in Player \ {target} : member'[q] = member[q]
    BY <1>3 DEF Sound, GuildTypeOK
  <2>4. GuildTypeOK'
    BY <1>3, <2>1 DEF Sound, GuildTypeOK, Membership, requests, goods
  <2>5. \A q \in Player : Lesser(q)
    BY <1>3, <2>2, <2>3, GuildAssumption DEF Lesser
  <2> QED
    BY <1>1, <2>4, <2>5, LesserKeepsSound DEF Sound
<1>4. ASSUME NEW p \in Player, Leave(p)
      PROVE  Sound'
  BY <1>2, <1>4 DEF Leave
<1>5. ASSUME NEW actor \in Player, NEW target \in Player, Kick(actor, target)
      PROVE  Sound'
  BY <1>2, <1>5 DEF Kick, MayKick, InGuild
<1>6. ASSUME NEW actor \in Player, NEW target \in Player, NEW rank \in Rank \ {"LEADER"},
             SetRank(actor, target, rank)
      PROVE  Sound'
  BY <1>3, <1>6 DEF SetRank, InGuild
<1> QED
  BY <1>4, <1>5, <1>6

(* Joining a guild with room for one more.                                 *)
LEMMA JoinSound ==
  ASSUME Sound, UNCHANGED <<leaderOf, granted, goods, purse>>,
         NEW p \in Player, NEW g \in Guilds, Join(p, g)
  PROVE  Sound'
<1> USE DEF Join
<1>1. GuildTypeOK'
  BY DEF Sound, GuildTypeOK, Guilds, Membership, Rank, requests, goods
<1>2. /\ \A q \in Player \ {p} : member'[q] = member[q]
      /\ member'[p] = [guild |-> g, rank |-> "RECRUIT"] /\ member'[p] # NoGuild
      /\ member[p] = NoGuild
  BY GuildAssumption DEF Sound, GuildTypeOK, Guilds, Membership, Rank
<1>3. Guilds' = Guilds /\ Guilds \subseteq GuildId
  BY DEF Guilds
<1>4. MembersOf(g)' = MembersOf(g) \cup {p}
  BY <1>2 DEF MembersOf, InGuild
<1>5. \A h \in GuildId \ {g} : MembersOf(h)' = MembersOf(h)
  BY <1>2 DEF MembersOf, InGuild
<1>6. ASSUME NEW h \in Guilds
      PROVE  /\ {q \in MembersOf(h)' : member'[q].rank = "LEADER"} = {leaderOf'[h]}
             /\ Cardinality(MembersOf(h)') <= MaxMembers
  <2>1. \A q \in Player : q \in MembersOf(h)' /\ member'[q].rank = "LEADER"
                          <=> q \in MembersOf(h) /\ member[q].rank = "LEADER"
    BY <1>2 DEF MembersOf, InGuild
  <2>2. {q \in MembersOf(h)' : member'[q].rank = "LEADER"} = {q \in MembersOf(h) : member[q].rank = "LEADER"}
    BY <2>1 DEF MembersOf
  <2>3. Cardinality(MembersOf(h)') <= MaxMembers
    BY <1>3, <1>4, <1>5, OneMoreMember DEF Sound, GuildsAreSound
  <2> QED
    BY <2>2, <2>3 DEF Sound, GuildsAreSound
<1>7. \A h \in GuildId \ Guilds' :
         /\ MembersOf(h)' = {} /\ StorageOf(h)' = {}
         /\ \A q \in Player : <<h, q>> \notin (applications \cup invites)'
  BY <1>3, <1>5 DEF Sound, GuildsAreSound, StorageOf, goods
<1> QED
  BY <1>1, <1>3, <1>6, <1>7 DEF Sound, GuildsAreSound

(* Applications and invitations, reviewed, answered and withdrawn.         *)
LEMMA RequestsSound ==
  ASSUME Sound, UNCHANGED <<leaderOf, member, granted, goods, purse>>,
         {applications', invites'} \subseteq SUBSET (GuildId \X Player),
         \A g \in GuildId \ Guilds, p \in Player : <<g, p>> \notin (applications \cup invites)'
  PROVE  Sound'
<1>1. GuildTypeOK'
  BY DEF Sound, GuildTypeOK, goods
<1>2. \A g \in GuildId \ Guilds : StorageOf(g)' = {}
  BY DEF Sound, GuildsAreSound, StorageOf, goods
<1>3. \A q \in Player : Lesser(q)
  BY DEF Lesser
<1> QED
  BY <1>1, <1>2, <1>3, LesserKeepsSound DEF Sound

LEMMA ApplicationsSound ==
  ASSUME Sound, UNCHANGED <<leaderOf, granted, goods, purse>>,
         \/ /\ \/ \E p \in Player, g \in GuildId : Apply(p, g) \/ CancelApplication(p, g)
               \/ \E actor \in Player, p \in Player : Invite(actor, p)
            /\ UNCHANGED member
         \/ \E actor \in Player, p \in Player, accept \in BOOLEAN : ReviewApplication(actor, p, accept)
         \/ \E p \in Player, g \in GuildId, accept \in BOOLEAN : RespondInvite(p, g, accept)
  PROVE  Sound'
<1>1. /\ applications \subseteq GuildId \X Player /\ invites \subseteq GuildId \X Player
      /\ \A g \in GuildId \ Guilds, p \in Player : <<g, p>> \notin applications \cup invites
  BY DEF Sound, GuildTypeOK, GuildsAreSound
<1>2. ASSUME NEW p \in Player, NEW g \in GuildId, Apply(p, g), UNCHANGED member
      PROVE  Sound'
  BY <1>1, <1>2, RequestsSound DEF Apply
<1>3. ASSUME NEW p \in Player, NEW g, CancelApplication(p, g), UNCHANGED member
      PROVE  Sound'
  BY <1>1, <1>3, RequestsSound DEF CancelApplication
<1>4. ASSUME NEW actor \in Player, NEW p \in Player, Invite(actor, p), UNCHANGED member
      PROVE  Sound'
  <2>1. GuildOf(actor) \in Guilds
    BY <1>4, MemberHasGuild DEF Invite, Holds
  <2> QED
    BY <1>1, <1>4, <2>1, RequestsSound DEF Invite, Guilds
<1>5. ASSUME NEW actor \in Player, NEW p \in Player, NEW accept \in BOOLEAN,
             ReviewApplication(actor, p, accept)
      PROVE  Sound'
  <2>1. GuildOf(actor) \in Guilds
    BY <1>5, MemberHasGuild DEF ReviewApplication, Holds
  <2>2. CASE accept
    BY <1>5, <2>1, <2>2, JoinSound DEF ReviewApplication
  <2>3. CASE ~ accept
    BY <1>3, <1>5, <2>3 DEF ReviewApplication
  <2> QED
    BY <2>2, <2>3
<1>6. ASSUME NEW p \in Player, NEW g \in GuildId, NEW accept \in BOOLEAN, RespondInvite(p, g, accept)
      PROVE  Sound'
  <2>1. g \in Guilds
    BY <1>1, <1>6 DEF RespondInvite
  <2>2. CASE accept
    BY <1>6, <2>1, <2>2, JoinSound DEF RespondInvite
  <2>3. CASE ~ accept
    BY <1>1, <1>6, <2>3, RequestsSound DEF RespondInvite
  <2> QED
    BY <2>2, <2>3
<1> QED
  BY <1>2, <1>3, <1>4, <1>5, <1>6

(* Handing the leadership over: the old leader stays an officer.           *)
LEMMA TransferSound ==
  ASSUME Sound, UNCHANGED <<requests, granted, goods, purse>>,
         NEW actor \in Player, NEW target \in Player, TransferLeadership(actor, target)
  PROVE  Sound'
<1> USE DEF TransferLeadership
<1>0. PICK g \in Guilds : g = GuildOf(actor)
  BY LeaderIsNamed
<1>1. /\ member[actor] # NoGuild /\ member[actor].rank = "LEADER"
      /\ g \in Guilds /\ leaderOf[g] = actor
  BY <1>0, LeaderIsNamed
<1>2. /\ member[target] # NoGuild /\ GuildOf(target) = g /\ actor # target
      /\ target \in MembersOf(g)
  BY <1>0 DEF InGuild, GuildOf, MembersOf
<1>3. member[actor] \in Membership /\ member[target] \in Membership
  BY <1>1, <1>2 DEF Sound, GuildTypeOK
<1>4. /\ \A q \in Player \ {actor, target} : member'[q] = member[q]
      /\ member'[actor] = [member[actor] EXCEPT !.rank = "OFFICER"]
      /\ member'[target] = [member[target] EXCEPT !.rank = "LEADER"]
  BY <1>2 DEF Promote, Sound, GuildTypeOK
<1>5. /\ member'[actor] \in Membership /\ member'[actor].rank = "OFFICER" /\ member'[actor].guild = g
      /\ member'[target] \in Membership /\ member'[target].rank = "LEADER" /\ member'[target].guild = g
      /\ member'[actor] # NoGuild /\ member'[target] # NoGuild
  BY <1>0, <1>2, <1>3, <1>4, GuildAssumption DEF Membership, Rank, GuildOf
<1>6. GuildTypeOK'
  BY <1>0, <1>1, <1>4, <1>5 DEF Promote, Sound, GuildTypeOK, requests, goods
<1>7. Guilds' = Guilds /\ Guilds \subseteq GuildId
  BY <1>0, <1>1, GuildAssumption DEF Guilds, Sound, GuildTypeOK
<1>8. \A h \in GuildId : MembersOf(h)' = MembersOf(h)
  <2>1. member[actor].guild = g /\ member[target].guild = g
    BY <1>0, <1>2 DEF GuildOf
  <2>2. ASSUME NEW q \in Player
        PROVE  /\ member'[q] # NoGuild <=> member[q] # NoGuild
               /\ member'[q] # NoGuild => member'[q].guild = member[q].guild
    BY <1>1, <1>2, <1>4, <1>5, <2>1
  <2> QED
    BY <2>2 DEF MembersOf, InGuild
<1>9. {q \in MembersOf(g)' : member'[q].rank = "LEADER"} = {leaderOf'[g]}
  <2>1. leaderOf'[g] = target
    BY <1>0, <1>1, <1>7 DEF Sound, GuildTypeOK
  <2>2. \A q \in MembersOf(g) \ {actor} : member[q].rank # "LEADER"
    BY <1>1 DEF Sound, GuildsAreSound
  <2>3. \A q \in MembersOf(g) : member'[q].rank = "LEADER" <=> q = target
    BY <1>2, <1>4, <1>5, <2>2 DEF MembersOf
  <2>4. MembersOf(g)' = MembersOf(g)
    BY <1>7, <1>8
  <2> QED
    BY <1>2, <2>1, <2>3, <2>4
<1>10. ASSUME NEW h \in Guilds \ {g}
       PROVE  {q \in MembersOf(h)' : member'[q].rank = "LEADER"} = {leaderOf'[h]}
  <2>1. \A q \in MembersOf(h) : member'[q] = member[q]
    BY <1>2, <1>4 DEF MembersOf, InGuild, GuildOf
  <2>2. leaderOf'[h] = leaderOf[h]
    BY <1>0, <1>7 DEF Sound, GuildTypeOK
  <2>3. h \in GuildId
    BY <1>7
  <2> QED
    BY <1>8, <2>1, <2>2, <2>3 DEF Sound, GuildsAreSound
<1>11. \A h \in Guilds : Cardinality(MembersOf(h)') <= MaxMembers
  BY <1>7, <1>8 DEF Sound, GuildsAreSound
<1>12. \A h \in GuildId \ Guilds' :
         /\ MembersOf(h)' = {} /\ StorageOf(h)' = {}
         /\ \A q \in Player : <<h, q>> \notin (applications \cup invites)'
  BY <1>7, <1>8 DEF Sound, GuildsAreSound, StorageOf, requests, goods
<1>13. GuildsAreSound'
  BY <1>7, <1>9, <1>10, <1>11, <1>12 DEF GuildsAreSound
<1> QED
  BY <1>6, <1>13 DEF Sound

LEMMA PermissionSound ==
  ASSUME Sound, UNCHANGED <<leaderOf, member, requests, goods, purse>>,
         NEW actor \in Player, NEW rank \in Rank \ {"LEADER"}, NEW rights \in Grants,
         UpdatePermission(actor, rank, rights)
  PROVE  Sound'
<1>1. GuildOf(actor) \in Guilds
  BY LeaderIsNamed DEF UpdatePermission
<1>2. GuildTypeOK'
  BY <1>1, GuildAssumption DEF UpdatePermission, Guilds, Sound, GuildTypeOK, requests, goods
<1>3. /\ \A g \in GuildId \ Guilds : StorageOf(g)' = {}
      /\ \A g \in GuildId \ Guilds, p \in Player : <<g, p>> \notin (applications \cup invites)'
  BY DEF Sound, GuildsAreSound, StorageOf, requests, goods
<1>4. \A q \in Player : Lesser(q)
  BY DEF Lesser
<1> QED
  BY <1>2, <1>3, <1>4, LesserKeepsSound DEF Sound

(* A guild that is disbanded takes its members and requests with it; its   *)
(* storage was empty.                                                      *)
LEMMA DisbandSound ==
  ASSUME Sound, NEW actor \in Player, Disband(actor)
  PROVE  Sound'
<1>1. PICK g \in GuildId : g = GuildOf(actor) /\ g \in Guilds /\ StorageOf(g) = {}
  BY LeaderIsNamed DEF Disband, Guilds
<1> /\ leaderOf' = [leaderOf EXCEPT ![g] = NoPlayer]
    /\ member' = [p \in Player |-> IF InGuild(p, g) THEN NoGuild ELSE member[p]]
    /\ applications' = {a \in applications : a[1] # g}
    /\ invites' = {i \in invites : i[1] # g}
    /\ granted' = [granted EXCEPT ![g] = DefaultRights]
    /\ UNCHANGED <<goods, purse>>
  BY <1>1 DEF Disband
<1>2. GuildTypeOK'
  BY <1>1 DEF Sound, GuildTypeOK, DefaultRights, Right, goods
<1>3. Guilds' = Guilds \ {g}
  BY <1>1 DEF Guilds, Sound, GuildTypeOK
<1>4. MembersOf(g)' = {} /\ StorageOf(g)' = {}
  BY <1>1 DEF MembersOf, InGuild, StorageOf, goods
<1>5. ASSUME NEW h \in GuildId \ {g}
      PROVE  /\ MembersOf(h)' = MembersOf(h) /\ leaderOf'[h] = leaderOf[h]
             /\ StorageOf(h)' = StorageOf(h)
             /\ \A q \in MembersOf(h) : member'[q] = member[q]
  BY <1>1 DEF MembersOf, InGuild, StorageOf, goods, Sound, GuildTypeOK
<1>6. \A q \in Player : <<g, q>> \notin (applications \cup invites)'
  OBVIOUS
<1>7. ASSUME NEW h \in Guilds \ {g}
      PROVE  /\ {q \in MembersOf(h)' : member'[q].rank = "LEADER"} = {leaderOf'[h]}
             /\ Cardinality(MembersOf(h)') <= MaxMembers
  BY <1>5 DEF Sound, GuildsAreSound, Guilds
<1>8. ASSUME NEW h \in GuildId \ Guilds, h # g
      PROVE  /\ MembersOf(h)' = {} /\ StorageOf(h)' = {}
             /\ \A q \in Player : <<h, q>> \notin (applications \cup invites)'
  BY <1>5, <1>8 DEF Sound, GuildsAreSound
<1>9. GuildsAreSound'
  BY <1>1, <1>3, <1>4, <1>6, <1>7, <1>8 DEF GuildsAreSound
<1> QED
  BY <1>2, <1>9 DEF Sound

(* The storage: entries go to the depositor's guild, which exists.         *)
LEMMA StorageSound ==
  ASSUME Sound, UNCHANGED <<leaderOf, member, requests, granted, purse>>,
         NEW p \in Player, NEW e \in EntryId,
         \/ /\ carried[p][e] # NoEntry
            /\ \E quantity \in 1..carried[p][e].quantity : Deposit(p, e, quantity)
         \/ /\ storage[e] # NoEntry
            /\ \E quantity \in 1..storage[e].quantity : Withdraw(p, e, quantity)
  PROVE  Sound'
<1> USE DEF goods
<1>1. ASSUME GuildTypeOK', \A g \in GuildId \ Guilds : StorageOf(g)' = {}
      PROVE  Sound'
  <2>1. \A g \in GuildId \ Guilds, q \in Player : <<g, q>> \notin (applications \cup invites)'
    BY DEF Sound, GuildsAreSound, requests
  <2>2. \A q \in Player : Lesser(q)
    BY DEF Lesser
  <2> QED
    BY <1>1, <2>1, <2>2, LesserKeepsSound DEF Sound
<1>2. ASSUME NEW quantity, carried[p][e] # NoEntry, quantity \in 1..carried[p][e].quantity,
             Deposit(p, e, quantity)
      PROVE  Sound'
  <2>1. GuildOf(p) \in Guilds
    BY <1>2, MemberHasGuild DEF Deposit, May
  <2>2. carried[p][e] \in Entry
    BY <1>2 DEF Sound, GuildTypeOK
  <2>3. Rest(carried[p][e], quantity) \in Entry \cup {NoEntry}
    BY <1>2, <2>2 DEF Rest, Reduced, Entry
  <2>4. PICK id \in IdsFor(e, carried[p][e], quantity) :
          storage' = [storage EXCEPT
            ![id] = [guild |-> GuildOf(p), item |-> carried[p][e].item, quantity |-> quantity]]
    BY <1>2 DEF Deposit
  <2>5. id \in EntryId
    BY <2>4 DEF IdsFor, Fresh
  <2>6. [guild |-> GuildOf(p), item |-> carried[p][e].item, quantity |-> quantity] \in Stored
    BY <1>2, <2>1, <2>2 DEF Stored, Entry, Guilds
  <2>7. GuildTypeOK'
    <3>1. carried' \in [Player -> [EntryId -> Entry \cup {NoEntry}]]
      BY <1>2, <2>3 DEF Deposit, Sound, GuildTypeOK
    <3>2. storage' \in [EntryId -> Stored \cup {NoEntry}]
      BY <2>4, <2>6 DEF Sound, GuildTypeOK
    <3> QED
      BY <3>1, <3>2 DEF Sound, GuildTypeOK, requests
  <2>8. \A g \in GuildId \ Guilds : StorageOf(g)' = {}
    BY <2>1, <2>4, <2>6 DEF Sound, GuildsAreSound, GuildTypeOK, StorageOf
  <2> QED
    BY <1>1, <2>7, <2>8
<1>3. ASSUME NEW quantity, storage[e] # NoEntry, quantity \in 1..storage[e].quantity,
             Withdraw(p, e, quantity)
      PROVE  Sound'
  <2>1. storage[e] \in Stored
    BY <1>3 DEF Sound, GuildTypeOK
  <2>2. /\ Rest(storage[e], quantity) \in Stored \cup {NoEntry}
        /\ Rest(storage[e], quantity) # NoEntry => Rest(storage[e], quantity).guild = storage[e].guild
    BY <1>3, <2>1 DEF Rest, Reduced, Stored
  <2>3. storage' = [storage EXCEPT ![e] = Rest(storage[e], quantity)]
    BY <1>3 DEF Withdraw
  <2>4. storage' \in [EntryId -> Stored \cup {NoEntry}]
    BY <2>2, <2>3 DEF Sound, GuildTypeOK
  <2>5. \A g \in GuildId \ Guilds : StorageOf(g)' = {}
    BY <1>3, <2>2, <2>3 DEF Sound, GuildsAreSound, GuildTypeOK, StorageOf
  <2>6. quantity \in Nat \ {0} /\ [item |-> storage[e].item, quantity |-> quantity] \in Entry
    BY <1>3, <2>1 DEF Stored, Entry
  <2>7. carried' \in [Player -> [EntryId -> Entry \cup {NoEntry}]]
    <3>1. ASSUME NEW s \in StackOf(p, storage[e].item),
                 carried' = [carried EXCEPT ![p][s].quantity = @ + quantity]
          PROVE  carried' \in [Player -> [EntryId -> Entry \cup {NoEntry}]]
      <4>1. s \in EntryId /\ carried[p][s] \in Entry
        BY DEF StackOf, Sound, GuildTypeOK
      <4>2. [carried[p][s] EXCEPT !.quantity = @ + quantity] \in Entry
        BY <2>6, <4>1 DEF Entry
      <4> QED
        BY <3>1, <4>1, <4>2 DEF Sound, GuildTypeOK
    <3>2. ASSUME NEW id \in IdsFor(e, storage[e], quantity),
                 carried' = [carried EXCEPT ![p][id] = [item |-> storage[e].item, quantity |-> quantity]]
          PROVE  carried' \in [Player -> [EntryId -> Entry \cup {NoEntry}]]
      BY <2>6, <3>2 DEF Sound, GuildTypeOK
    <3> QED
      BY <1>3, <3>1, <3>2 DEF Withdraw
  <2>8. GuildTypeOK'
    BY <2>4, <2>7 DEF Sound, GuildTypeOK, requests
  <2> QED
    BY <1>1, <2>5, <2>8
<1> QED
  BY <1>2, <1>3

LEMMA GuildStepSound ==
  ASSUME Sound, GuildNext
  PROVE  Sound'
<1>1. ASSUME NEW p \in Player, NEW g \in GuildId, Create(p, g)
      PROVE  Sound'
  BY <1>1, CreateSound
<1>2. ASSUME NEW actor \in Player, Disband(actor)
      PROVE  Sound'
  BY <1>2, DisbandSound
<1> QED
  BY <1>1, <1>2, ApplicationsSound, RanksSound, TransferSound, PermissionSound, StorageSound
     DEF GuildNext

LEMMA SoundStep == Sound /\ [Next]_vars => Sound'
<1>1. ASSUME Sound, UNCHANGED guildVars
      PROVE  Sound'
  <2>1. GuildTypeOK'
    BY <1>1 DEF guildVars, requests, goods, Sound, GuildTypeOK
  <2>2. /\ \A q \in Player : Lesser(q)
        /\ \A g \in GuildId \ Guilds : StorageOf(g)' = {}
        /\ \A g \in GuildId \ Guilds, p \in Player : <<g, p>> \notin (applications \cup invites)'
    BY <1>1 DEF guildVars, requests, goods, Sound, GuildsAreSound, Lesser, StorageOf
  <2> QED
    BY <1>1, <2>1, <2>2, LesserKeepsSound DEF guildVars, Sound
<1>2. ASSUME [Next]_vars
      PROVE  GuildNext \/ UNCHANGED guildVars
  BY <1>2 DEF Next, GuildStep, vars
<1> QED
  BY <1>1, <1>2, GuildStepSound

(* A guild always has the one leader its record names, room for all its    *)
(* members, and no member, request or stored entry outlives it.            *)
THEOREM GuildsAlwaysSound == Spec => []GuildsAreSound
<1>1. Init => Sound
  BY InitSound DEF Init
<1>2. Sound => GuildsAreSound
  BY DEF Sound
<1> QED
  BY <1>1, <1>2, SoundStep, PTL DEF Spec

-----------------------------------------------------------------------------
(* A guild's leader is a member of it, with the rank.                      *)
LEMMA LeaderBelongs ==
  ASSUME Sound, NEW g \in Guilds
  PROVE  /\ g \in GuildId /\ leaderOf[g] \in Player
         /\ member[leaderOf[g]] # NoGuild /\ member[leaderOf[g]].guild = g
         /\ member[leaderOf[g]].rank = "LEADER"
<1>1. leaderOf[g] \in {p \in MembersOf(g) : member[p].rank = "LEADER"}
  BY DEF Sound, GuildsAreSound
<1>2. leaderOf[g] \in MembersOf(g) /\ member[leaderOf[g]].rank = "LEADER"
  BY <1>1
<1> QED
  BY <1>2 DEF Guilds, MembersOf, InGuild

(* What may become of the leader of g in a step.                           *)
HandedOver(g) ==
  \/ leaderOf'[g] = leaderOf[g] /\ member'[leaderOf[g]] = member[leaderOf[g]]
  \/ leaderOf'[g] = NoPlayer /\ StorageOf(g) = {}
  \/ /\ leaderOf'[g] \in MembersOf(g)
     /\ member'[leaderOf[g]] = [guild |-> g, rank |-> "OFFICER"]

LEMMA TransferHandsOver ==
  ASSUME Sound, NEW g \in Guilds, NEW actor \in Player, NEW target \in Player,
         TransferLeadership(actor, target)
  PROVE  HandedOver(g)
<1> USE DEF TransferLeadership
<1>1. member[actor] # NoGuild /\ GuildOf(actor) \in Guilds /\ leaderOf[GuildOf(actor)] = actor
  BY LeaderIsNamed
<1>2. target \in MembersOf(GuildOf(actor)) /\ actor # target /\ member[target].guild = GuildOf(actor)
  BY DEF MembersOf, InGuild
<1>3. member[actor] \in Membership
  BY <1>1 DEF Sound, GuildTypeOK
<1>4. /\ \A q \in Player \ {actor, target} : member'[q] = member[q]
      /\ member'[actor] = [member[actor] EXCEPT !.rank = "OFFICER"]
  BY <1>2 DEF Promote, Sound, GuildTypeOK
<1>5. CASE g = GuildOf(actor)
  <2>1. leaderOf'[g] = target
    BY <1>5, LeaderBelongs DEF Sound, GuildTypeOK
  <2>2. member'[actor] = [guild |-> g, rank |-> "OFFICER"]
    BY <1>3, <1>4, <1>5 DEF Membership, GuildOf
  <2> QED
    BY <1>1, <1>2, <1>5, <2>1, <2>2 DEF HandedOver
<1>6. CASE g # GuildOf(actor)
  <2>1. leaderOf'[g] = leaderOf[g]
    BY <1>6, LeaderBelongs DEF Sound, GuildTypeOK
  <2>2. leaderOf[g] \in Player \ {actor, target}
    BY <1>2, <1>6, LeaderBelongs DEF GuildOf
  <2> QED
    BY <1>4, <2>1, <2>2 DEF HandedOver
<1> QED
  BY <1>5, <1>6

LEMMA DisbandHandsOver ==
  ASSUME Sound, NEW g \in Guilds, NEW actor \in Player, Disband(actor)
  PROVE  HandedOver(g)
<1> USE DEF Disband
<1>1. GuildOf(actor) \in Guilds
  BY LeaderIsNamed
<1>2. CASE g = GuildOf(actor)
  <2>1. leaderOf'[g] = NoPlayer
    BY <1>2, LeaderBelongs DEF Sound, GuildTypeOK
  <2> QED
    BY <1>2, <2>1 DEF HandedOver
<1>3. CASE g # GuildOf(actor)
  <2>1. leaderOf'[g] = leaderOf[g]
    BY <1>3, LeaderBelongs DEF Sound, GuildTypeOK
  <2>2. member'[leaderOf[g]] = member[leaderOf[g]]
    BY <1>3, LeaderBelongs DEF InGuild
  <2> QED
    BY <2>1, <2>2 DEF HandedOver
<1> QED
  BY <1>2, <1>3

(* A step that keeps leaderOf, and the members who lead.                   *)
LEMMA LeadersStay ==
  ASSUME Sound, NEW g \in Guilds, UNCHANGED leaderOf,
         NEW p \in Player, member[p] = NoGuild \/ member[p].rank # "LEADER",
         \A q \in Player \ {p} : member'[q] = member[q]
  PROVE  HandedOver(g)
<1>1. leaderOf[g] \in Player \ {p}
  BY LeaderBelongs
<1> QED
  BY <1>1 DEF HandedOver

LEMMA GuildStepHandsOver ==
  ASSUME Sound, GuildNext, NEW g \in Guilds
  PROVE  HandedOver(g)
<1> member \in [Player -> Membership \cup {NoGuild}] /\ leaderOf \in [GuildId -> Player \cup {NoPlayer}]
  BY DEF Sound, GuildTypeOK
<1>1. ASSUME NEW p \in Player, NEW h \in GuildId, Create(p, h)
      PROVE  HandedOver(g)
  <2>1. h # g /\ leaderOf[g] \in Player \ {p}
    BY <1>1, LeaderBelongs DEF Create, MayFound
  <2> QED
    BY <1>1, <2>1, LeaderBelongs DEF Create, HandedOver
<1>2. CASE UNCHANGED <<leaderOf, member>>
  BY <1>2 DEF HandedOver
<1>3. ASSUME NEW p \in Player, NEW h, Join(p, h), UNCHANGED leaderOf
      PROVE  HandedOver(g)
  BY <1>3, LeadersStay DEF Join
<1>4. ASSUME NEW actor \in Player, NEW p \in Player, NEW accept \in BOOLEAN,
             ReviewApplication(actor, p, accept), UNCHANGED leaderOf
      PROVE  HandedOver(g)
  BY <1>2, <1>3, <1>4 DEF ReviewApplication
<1>5. ASSUME NEW p \in Player, NEW h \in GuildId, NEW accept \in BOOLEAN,
             RespondInvite(p, h, accept), UNCHANGED leaderOf
      PROVE  HandedOver(g)
  BY <1>2, <1>3, <1>5 DEF RespondInvite
<1>6. ASSUME NEW p \in Player, Leave(p), UNCHANGED leaderOf
      PROVE  HandedOver(g)
  BY <1>6, LeadersStay DEF Leave
<1>7. ASSUME NEW actor \in Player, NEW target \in Player, Kick(actor, target), UNCHANGED leaderOf
      PROVE  HandedOver(g)
  BY <1>7, LeadersStay DEF Kick, MayKick
<1>8. ASSUME NEW actor \in Player, NEW target \in Player, NEW rank, SetRank(actor, target, rank),
             UNCHANGED leaderOf
      PROVE  HandedOver(g)
  BY <1>8, LeadersStay DEF SetRank
<1> QED
  BY <1>1, <1>2, <1>4, <1>5, <1>6, <1>7, <1>8, TransferHandsOver, DisbandHandsOver DEF GuildNext

(* A leader loses a guild only by handing it to another member, or by      *)
(* disbanding it with nothing left in its storage.                         *)
THEOREM LeadersHandOver == Spec => LeadershipIsHandedOver
<1>1. Sound /\ [Next]_vars => [\A g \in Guilds : HandedOver(g)]_guildVars
  <2>1. ASSUME [Next]_vars
        PROVE  GuildNext \/ UNCHANGED guildVars
    BY <2>1 DEF Next, GuildStep, vars
  <2> QED
    BY <2>1, GuildStepHandsOver
<1>2. Init => Sound
  BY InitSound DEF Init
<1>3. Sound /\ [Next]_vars => Sound'
  BY SoundStep
<1> QED
  BY <1>1, <1>2, <1>3, PTL DEF Spec, LeadershipIsHandedOver, HandedOver

-----------------------------------------------------------------------------
(* The storage: what an entry holds of an item moves between a storage and *)
(* an inventory.  The facts about the sums are stated of any two states of *)
(* the entries.                                                            *)
Entries == [EntryId -> Entry \cup Stored \cup {NoEntry}]
Contents(f, i) == [e \in EntryId |-> QuantityIn(f[e], i)]
Held(c, i) == [p \in Player |-> SumOver(Contents(c[p], i), EntryId)]
Total(s, c, i) == SumOver(Contents(s, i), EntryId) + SumOver(Held(c, i), Player)

LEMMA ContentsAreNat ==
  ASSUME NEW f \in Entries, NEW i
  PROVE  /\ \A e \in EntryId : Contents(f, i)[e] \in Nat
         /\ SumOver(Contents(f, i), EntryId) \in Nat
<1>1. \A e \in EntryId : Contents(f, i)[e] \in Nat
  BY DEF Contents, QuantityIn, Entries, Entry, Stored
<1> HIDE DEF Contents
<1>2. SumOver(Contents(f, i), EntryId) \in Nat
  BY <1>1, GuildAssumption, SumOfNaturals
<1> QED
  BY <1>1, <1>2

LEMMA HeldAreNat ==
  ASSUME NEW c \in [Player -> Entries], NEW i
  PROVE  /\ \A p \in Player : Held(c, i)[p] \in Nat
         /\ SumOver(Held(c, i), Player) \in Nat
<1>1. \A p \in Player : Held(c, i)[p] \in Nat
  BY ContentsAreNat DEF Held
<1> HIDE DEF Held
<1>2. SumOver(Held(c, i), Player) \in Nat
  BY <1>1, GuildAssumption, SumOfNaturals
<1> QED
  BY <1>1, <1>2

(* Only entry x changes between f and g.                                   *)
LEMMA ContentsChange ==
  ASSUME NEW f \in Entries, NEW g \in Entries, NEW i, NEW x \in EntryId,
         \A e \in EntryId \ {x} : g[e] = f[e]
  PROVE  SumOver(Contents(g, i), EntryId)
           = SumOver(Contents(f, i), EntryId) - QuantityIn(f[x], i) + QuantityIn(g[x], i)
<1>1. PICK u : u = Contents(f, i)
  OBVIOUS
<1>2. PICK v : v = Contents(g, i)
  OBVIOUS
<1>3. \A e \in EntryId : u[e] \in Int /\ v[e] \in Int
  BY <1>1, <1>2, ContentsAreNat
<1>4. \A e \in EntryId : e # x => v[e] = u[e]
  BY <1>1, <1>2 DEF Contents
<1>5. u[x] = QuantityIn(f[x], i) /\ v[x] = QuantityIn(g[x], i)
  BY <1>1, <1>2 DEF Contents
<1>6. IsFiniteSet(EntryId)
  BY GuildAssumption
<1>7. SumOver(v, EntryId) = SumOver(u, EntryId) - u[x] + v[x]
  BY <1>3, <1>4, <1>6, SumUpdate
<1> QED
  BY <1>1, <1>2, <1>5, <1>7

(* What one entry gives another gets.                                      *)
LEMMA TotalKept ==
  ASSUME NEW s \in Entries, NEW t \in Entries,
         NEW c \in [Player -> Entries], NEW d \in [Player -> Entries],
         NEW i, NEW p \in Player, NEW x \in EntryId, NEW y \in EntryId,
         \A e \in EntryId \ {x} : t[e] = s[e],
         \A e \in EntryId \ {y} : d[p][e] = c[p][e],
         \A q \in Player \ {p} : d[q] = c[q],
         QuantityIn(t[x], i) + QuantityIn(d[p][y], i) = QuantityIn(s[x], i) + QuantityIn(c[p][y], i)
  PROVE  Total(t, d, i) = Total(s, c, i)
<1> c[p] \in Entries /\ d[p] \in Entries
  OBVIOUS
<1>1. SumOver(Contents(t, i), EntryId)
        = SumOver(Contents(s, i), EntryId) - QuantityIn(s[x], i) + QuantityIn(t[x], i)
  BY ContentsChange
<1>2. SumOver(Contents(d[p], i), EntryId)
        = SumOver(Contents(c[p], i), EntryId) - QuantityIn(c[p][y], i) + QuantityIn(d[p][y], i)
  BY ContentsChange
<1>3. PICK h : h = Held(c, i)
  OBVIOUS
<1>4. PICK k : k = Held(d, i)
  OBVIOUS
<1>5. \A q \in Player : h[q] \in Int /\ k[q] \in Int
  BY <1>3, <1>4, HeldAreNat
<1>6. \A q \in Player : q # p => k[q] = h[q]
  BY <1>3, <1>4 DEF Held
<1>7. IsFiniteSet(Player)
  BY GuildAssumption
<1>8. SumOver(k, Player) = SumOver(h, Player) - h[p] + k[p]
  BY <1>5, <1>6, <1>7, SumUpdate
<1>9. h[p] = SumOver(Contents(c[p], i), EntryId) /\ k[p] = SumOver(Contents(d[p], i), EntryId)
  BY <1>3, <1>4 DEF Held
<1>10. \A f \in Entries, e \in EntryId : QuantityIn(f[e], i) \in Nat
  BY ContentsAreNat DEF Contents
<1>11. /\ SumOver(Contents(s, i), EntryId) \in Nat /\ SumOver(Contents(c[p], i), EntryId) \in Nat
       /\ SumOver(h, Player) \in Nat
  BY <1>3, ContentsAreNat, HeldAreNat
<1>12. SumOver(Contents(t, i), EntryId) + SumOver(k, Player)
         = SumOver(Contents(s, i), EntryId) + SumOver(h, Player)
  BY <1>1, <1>2, <1>8, <1>9, <1>10, <1>11
<1> QED
  BY <1>3, <1>4, <1>12 DEF Total

LEMMA PiecesAreTotal ==
  /\ \A i : Pieces(i) = Total(storage, carried, i)
  /\ \A i : InitialPieces(i) = SumOver(Held(InitialEntries, i), Player)
BY DEF Pieces, InitialPieces, Total, Contents, Held

LEMMA NoEntryHoldsNothing ==
  ASSUME NEW i
  PROVE  QuantityIn(NoEntry, i) = 0
BY DEF QuantityIn

LEMMA EntryHolds ==
  ASSUME NEW x \in Entry \cup Stored, NEW i
  PROVE  /\ x # NoEntry /\ x.quantity \in Nat \ {0}
         /\ QuantityIn(x, i) = IF x.item = i THEN x.quantity ELSE 0
BY GuildAssumption DEF QuantityIn, Entry, Stored

(* What stays of an entry when a part of it goes.                          *)
LEMMA RestHolds ==
  ASSUME NEW x \in Entry \cup Stored, NEW n \in 1..x.quantity, NEW i
  PROVE  QuantityIn(Rest(x, n), i) = QuantityIn(x, i) - (IF x.item = i THEN n ELSE 0)
<1>0. x.quantity \in Nat /\ n \in Nat
  BY EntryHolds
<1>1. CASE n = x.quantity
  BY <1>0, <1>1, EntryHolds, NoEntryHoldsNothing DEF Rest
<1>2. CASE n # x.quantity
  <2>1. /\ Reduced(x, n) \in Entry \cup Stored /\ Reduced(x, n).item = x.item
        /\ Reduced(x, n).quantity = x.quantity - n
    BY <1>0, <1>2 DEF Reduced, Entry, Stored
  <2>2. Rest(x, n) = Reduced(x, n)
    BY <1>2 DEF Rest
  <2>3. QuantityIn(Reduced(x, n), i) = IF x.item = i THEN x.quantity - n ELSE 0
    BY <2>1, EntryHolds
  <2> QED
    BY <1>0, <2>2, <2>3, EntryHolds
<1> QED
  BY <1>1, <1>2

(* An entry id is in one place at most.                                    *)
OnePlace ==
  \A e \in EntryId :
    /\ storage[e] # NoEntry => \A p \in Player : carried[p][e] = NoEntry
    /\ \A p, q \in Player : carried[p][e] # NoEntry /\ carried[q][e] # NoEntry => p = q

LEMMA EntriesTyped ==
  ASSUME GuildTypeOK
  PROVE  /\ storage \in Entries /\ carried \in [Player -> Entries]
         /\ \A e \in EntryId : storage[e] # NoEntry => storage[e] \in Stored
         /\ \A p \in Player, e \in EntryId : carried[p][e] # NoEntry => carried[p][e] \in Entry
BY DEF GuildTypeOK, Entries

LEMMA NextEntriesTyped ==
  ASSUME GuildTypeOK'
  PROVE  storage' \in Entries /\ carried' \in [Player -> Entries]
BY DEF GuildTypeOK, Entries

(* A step that moves pieces between entry x of the storage and entry y of  *)
(* one inventory.                                                          *)
Moves(p, x, y) ==
  /\ \A e \in EntryId \ {x} : storage'[e] = storage[e]
  /\ \A e \in EntryId \ {y} : carried'[p][e] = carried[p][e]
  /\ \A q \in Player \ {p} : carried'[q] = carried[q]
  /\ \A i : QuantityIn(storage'[x], i) + QuantityIn(carried'[p][y], i)
              = QuantityIn(storage[x], i) + QuantityIn(carried[p][y], i)

LEMMA MovesKeepPieces ==
  ASSUME GuildTypeOK, GuildTypeOK',
         NEW p \in Player, NEW x \in EntryId, NEW y \in EntryId, Moves(p, x, y), NEW i
  PROVE  Pieces(i)' = Pieces(i)
<1>1. PICK s : s = storage
  OBVIOUS
<1>2. PICK t : t = storage'
  OBVIOUS
<1>3. PICK c : c = carried
  OBVIOUS
<1>4. PICK d : d = carried'
  OBVIOUS
<1>5. /\ s \in Entries /\ t \in Entries
      /\ c \in [Player -> Entries] /\ d \in [Player -> Entries]
  BY <1>1, <1>2, <1>3, <1>4, EntriesTyped, NextEntriesTyped
<1>6. /\ \A e \in EntryId \ {x} : t[e] = s[e]
      /\ \A e \in EntryId \ {y} : d[p][e] = c[p][e]
      /\ \A q \in Player \ {p} : d[q] = c[q]
      /\ QuantityIn(t[x], i) + QuantityIn(d[p][y], i) = QuantityIn(s[x], i) + QuantityIn(c[p][y], i)
  BY <1>1, <1>2, <1>3, <1>4 DEF Moves
<1>7. Total(t, d, i) = Total(s, c, i)
  BY <1>5, <1>6, TotalKept
<1>8. Pieces(i) = Total(s, c, i)
  BY <1>1, <1>3, PiecesAreTotal
<1>9. Pieces(i)' = Total(t, d, i)
  BY <1>2, <1>4 DEF Pieces, Total, Contents, Held
<1> QED
  BY <1>7, <1>8, <1>9

(* A deposit takes a new id, or the whole entry with its own.              *)
LEMMA DepositMoves ==
  ASSUME GuildTypeOK, OnePlace, NEW p \in Player, NEW e \in EntryId, carried[p][e] # NoEntry,
         NEW quantity \in 1..carried[p][e].quantity, Deposit(p, e, quantity)
  PROVE  OnePlace' /\ \E x \in EntryId : Moves(p, x, e)
<1> DEFINE entry == carried[p][e]
           new(id) == [guild |-> GuildOf(p), item |-> entry.item, quantity |-> quantity]
<1>1. entry \in Entry
  BY EntriesTyped
<1>2. PICK id \in IdsFor(e, entry, quantity) : storage' = [storage EXCEPT ![id] = new(id)]
  BY DEF Deposit
<1>3. carried' = [carried EXCEPT ![p][e] = Rest(entry, quantity)]
  BY DEF Deposit
<1>4. /\ id \in EntryId /\ storage[id] = NoEntry
      /\ \A q \in Player : carried[q][id] # NoEntry => q = p /\ id = e /\ quantity = entry.quantity
  BY DEF IdsFor, Fresh, OnePlace
<1>5. /\ storage'[id] = new(id) /\ \A x \in EntryId \ {id} : storage'[x] = storage[x]
      /\ carried'[p][e] = Rest(entry, quantity)
      /\ \A x \in EntryId \ {e} : carried'[p][x] = carried[p][x]
      /\ \A q \in Player \ {p} : carried'[q] = carried[q]
  BY <1>2, <1>3, <1>4 DEF GuildTypeOK
<1>6. id = e => Rest(entry, quantity) = NoEntry
  BY <1>4 DEF IdsFor, Rest, Fresh
<1>7. OnePlace'
  <2>1. \A q \in Player : carried'[q][id] = NoEntry
    BY <1>4, <1>5, <1>6
  <2>2. \A q \in Player, x \in EntryId : carried'[q][x] # NoEntry => carried[q][x] # NoEntry
    BY <1>5
  <2> QED
    BY <1>4, <1>5, <2>1, <2>2 DEF OnePlace
<1>8. Moves(p, id, e)
  <2>1. ASSUME NEW i
        PROVE  QuantityIn(storage'[id], i) + QuantityIn(carried'[p][e], i)
                 = QuantityIn(storage[id], i) + QuantityIn(carried[p][e], i)
    <3>1. QuantityIn(new(id), i) = IF entry.item = i THEN quantity ELSE 0
      <4>1. GuildOf(p) \in GuildId
        BY MemberTyped DEF Deposit, May
      <4>2. new(id) \in Stored
        BY <1>1, <4>1 DEF Entry, Stored
      <4> QED
        BY <4>2, EntryHolds
    <3>2. QuantityIn(Rest(entry, quantity), i)
            = QuantityIn(entry, i) - (IF entry.item = i THEN quantity ELSE 0)
      BY <1>1, RestHolds
    <3>3. QuantityIn(entry, i) \in Nat /\ quantity \in Nat
      BY <1>1, EntryHolds
    <3> QED
      BY <1>4, <1>5, <3>1, <3>2, <3>3, NoEntryHoldsNothing
  <2> QED
    BY <1>5, <2>1 DEF Moves
<1> QED
  BY <1>4, <1>7, <1>8

(* A withdrawal goes to the player's stack, or to an id nobody has.        *)
LEMMA WithdrawMoves ==
  ASSUME GuildTypeOK, OnePlace, NEW p \in Player, NEW e \in EntryId, storage[e] # NoEntry,
         NEW quantity \in 1..storage[e].quantity, Withdraw(p, e, quantity)
  PROVE  OnePlace' /\ \E y \in EntryId : Moves(p, e, y)
<1> DEFINE entry == storage[e]
           new == [item |-> entry.item, quantity |-> quantity]
<1>1. entry \in Stored /\ quantity \in Nat \ {0}
  BY EntriesTyped DEF Stored
<1>2. storage' = [storage EXCEPT ![e] = Rest(entry, quantity)]
  BY DEF Withdraw
<1>3. /\ storage'[e] = Rest(entry, quantity)
      /\ \A x \in EntryId \ {e} : storage'[x] = storage[x]
  BY <1>2 DEF GuildTypeOK
<1>4. ASSUME NEW i
      PROVE  /\ QuantityIn(storage'[e], i)
                  = QuantityIn(storage[e], i) - (IF entry.item = i THEN quantity ELSE 0)
             /\ QuantityIn(storage[e], i) \in Nat
  BY <1>1, <1>3, RestHolds, EntryHolds
<1>5. ASSUME NEW s \in StackOf(p, entry.item),
             carried' = [carried EXCEPT ![p][s].quantity = @ + quantity]
      PROVE  OnePlace' /\ \E y \in EntryId : Moves(p, e, y)
  <2>1. s \in EntryId /\ carried[p][s] # NoEntry /\ carried[p][s].item = entry.item /\ carried[p][s] \in Entry
    BY EntriesTyped DEF StackOf
  <2>2. /\ carried'[p][s] \in Entry /\ carried'[p][s].item = entry.item
        /\ carried'[p][s].quantity = carried[p][s].quantity + quantity
        /\ \A x \in EntryId \ {s} : carried'[p][x] = carried[p][x]
        /\ \A q \in Player \ {p} : carried'[q] = carried[q]
    BY <1>1, <1>5, <2>1 DEF GuildTypeOK, Entry
  <2>3. ASSUME NEW i
        PROVE  QuantityIn(carried'[p][s], i)
                 = QuantityIn(carried[p][s], i) + (IF entry.item = i THEN quantity ELSE 0)
    BY <1>1, <2>1, <2>2, EntryHolds
  <2>4. \A i : QuantityIn(carried[p][s], i) \in Nat
    BY <2>1, EntryHolds
  <2>5. ASSUME NEW i
        PROVE  QuantityIn(storage'[e], i) + QuantityIn(carried'[p][s], i)
                 = QuantityIn(storage[e], i) + QuantityIn(carried[p][s], i)
    BY <1>1, <1>4, <2>3, <2>4
  <2>6. Moves(p, e, s)
    BY <1>3, <2>2, <2>5 DEF Moves
  <2>7. OnePlace'
    BY <1>3, <2>1, <2>2 DEF OnePlace
  <2> QED
    BY <2>1, <2>6, <2>7
<1>6. ASSUME NEW id \in IdsFor(e, entry, quantity), carried' = [carried EXCEPT ![p][id] = new]
      PROVE  OnePlace' /\ \E y \in EntryId : Moves(p, e, y)
  <2>1. /\ id \in EntryId /\ \A q \in Player : carried[q][id] = NoEntry
        /\ id # e => storage[id] = NoEntry
        /\ id = e => Rest(entry, quantity) = NoEntry
    BY DEF IdsFor, Fresh, OnePlace, Rest
  <2>2. /\ carried'[p][id] = new
        /\ \A x \in EntryId \ {id} : carried'[p][x] = carried[p][x]
        /\ \A q \in Player \ {p} : carried'[q] = carried[q]
    BY <1>6, <2>1 DEF GuildTypeOK
  <2>3. ASSUME NEW i
        PROVE  QuantityIn(storage'[e], i) + QuantityIn(carried'[p][id], i)
                 = QuantityIn(storage[e], i) + QuantityIn(carried[p][id], i)
    <3>1. new \in Entry
      BY <1>1 DEF Entry, Stored
    <3>2. QuantityIn(new, i) = IF entry.item = i THEN quantity ELSE 0
      BY <3>1, EntryHolds
    <3> HIDE DEF new
    <3> QED
      BY <1>1, <1>4, <2>1, <2>2, <3>2, NoEntryHoldsNothing
  <2>4. Moves(p, e, id)
    BY <1>3, <2>2, <2>3 DEF Moves
  <2>5. OnePlace'
    <3>1. storage'[id] = NoEntry
      BY <1>3, <2>1
    <3>2. \A x \in EntryId \ {id} : storage'[x] # NoEntry => storage[x] # NoEntry
      BY <1>3
    <3> QED
      BY <2>1, <2>2, <3>1, <3>2 DEF OnePlace
  <2> QED
    BY <2>1, <2>4, <2>5
<1> QED
  BY <1>5, <1>6 DEF Withdraw

LEMMA GoodsChange ==
  ASSUME GuildNext
  PROVE  \/ UNCHANGED goods
         \/ \E p \in Player, e \in EntryId :
              \/ /\ carried[p][e] # NoEntry
                 /\ \E quantity \in 1..carried[p][e].quantity : Deposit(p, e, quantity)
              \/ /\ storage[e] # NoEntry
                 /\ \E quantity \in 1..storage[e].quantity : Withdraw(p, e, quantity)
BY DEF GuildNext, Create, Disband, goods

Conserved == \A i \in Item : Pieces(i) = InitialPieces(i)

LEMMA StorageStep ==
  ASSUME GuildTypeOK, GuildTypeOK', OnePlace, Conserved, [Next]_vars
  PROVE  OnePlace' /\ Conserved'
<1>1. CASE UNCHANGED goods
  <2>1. OnePlace'
    BY <1>1 DEF OnePlace, goods
  <2>2. \A i : Pieces(i)' = Pieces(i)
    BY <1>1 DEF Pieces, goods
  <2> QED
    BY <2>1, <2>2 DEF Conserved
<1>2. ASSUME NEW p \in Player, NEW x \in EntryId, NEW y \in EntryId, Moves(p, x, y)
      PROVE  Conserved'
  BY <1>2, MovesKeepPieces DEF Conserved
<1>3. ASSUME NEW p \in Player, NEW e \in EntryId, carried[p][e] # NoEntry,
             NEW quantity \in 1..carried[p][e].quantity, Deposit(p, e, quantity)
      PROVE  OnePlace' /\ Conserved'
  <2>1. OnePlace' /\ \E x \in EntryId : Moves(p, x, e)
    BY <1>3, DepositMoves
  <2> QED
    BY <1>2, <2>1
<1>4. ASSUME NEW p \in Player, NEW e \in EntryId, storage[e] # NoEntry,
             NEW quantity \in 1..storage[e].quantity, Withdraw(p, e, quantity)
      PROVE  OnePlace' /\ Conserved'
  <2>1. OnePlace' /\ \E y \in EntryId : Moves(p, e, y)
    BY <1>4, WithdrawMoves
  <2> QED
    BY <1>2, <2>1
<1>5. GuildNext \/ UNCHANGED goods
  BY DEF Next, GuildStep, vars, guildVars, goods
<1> QED
  BY <1>1, <1>3, <1>4, <1>5, GoodsChange

LEMMA StorageInit ==
  ASSUME GuildInit
  PROVE  GuildTypeOK /\ OnePlace /\ Conserved
<1>1. GuildTypeOK
  BY InitSound DEF Sound
<1>2. OnePlace
  BY GuildAssumption DEF GuildInit, OnePlace
<1>3. ASSUME NEW i
      PROVE  Pieces(i) = InitialPieces(i)
  <2>1. PICK u : u = Contents(storage, i)
    OBVIOUS
  <2>2. \A e \in EntryId : u[e] = 0
    BY <2>1, NoEntryHoldsNothing DEF Contents, GuildInit
  <2>3. SumOver(u, EntryId) = 0
    BY <2>2, GuildAssumption, SumZero
  <2>4. SumOver(Held(InitialEntries, i), Player) \in Nat
    BY <1>1, HeldAreNat, EntriesTyped DEF GuildInit
  <2> QED
    BY <2>1, <2>3, <2>4, PiecesAreTotal DEF Total, GuildInit
<1> QED
  BY <1>1, <1>2, <1>3 DEF Conserved

(* Whatever is deposited and withdrawn, whole or in parts, and whoever     *)
(* joins, leaves or disbands in between: no piece is made or lost and no   *)
(* entry id is in two places.                                              *)
THEOREM StorageAlwaysConserved == Spec => []StorageIsConserved
<1>1. Init => Sound /\ OnePlace /\ Conserved
  BY InitSound, StorageInit DEF Init
<1>2. Sound /\ OnePlace /\ Conserved /\ [Next]_vars => (Sound /\ OnePlace /\ Conserved)'
  BY SoundStep, StorageStep DEF Sound
<1>3. OnePlace /\ Conserved => StorageIsConserved
  BY DEF OnePlace, Conserved, StorageIsConserved
<1> QED
  BY <1>1, <1>2, <1>3, PTL DEF Spec

-----------------------------------------------------------------------------
(* The chat.  Every id that is stored, or was on a page, is one of an      *)
(* operation that was applied, so that a message stored later has another; *)
(* a page belongs to one channel; and the past is in the past.             *)
ChatTypeOK ==
  /\ messages \subseteq Message /\ operations \subseteq MessageId
  /\ lastSent \in [Player -> [Channel -> Int]]
  /\ reads \in [Player -> [Key -> Nat]]
  /\ sends \subseteq [id : MessageId, to : Destination, socket : Socket]
  /\ histories \subseteq [player : Player, key : Key, shown : SUBSET MessageId]
  /\ seen \in [Player -> SUBSET MessageId]
  /\ time \in Nat

PastIsPast ==
  /\ \A m \in messages : m.id \in operations /\ m.at <= time
  /\ \A p \in Player : seen[p] \subseteq operations
  /\ \A p \in Player, k \in Key : reads[p][k] <= time
  /\ \A h \in histories :
       /\ h.shown \subseteq operations
       /\ \A m \in messages : m.id \in h.shown => m.key = h.key

ChatOK == ChatTypeOK /\ PastIsPast /\ SentOnce /\ ShownStaysRead

LEMMA ChatInitOK ==
  ASSUME ChatInit
  PROVE  ChatOK
<1>1. ChatTypeOK
  BY ChatAssumption DEF ChatInit, ChatTypeOK
<1> QED
  BY <1>1 DEF ChatOK, ChatInit, PastIsPast, SentOnce, ShownStaysRead

(* The channel a message goes to.                                          *)
LEMMA KeyTyped ==
  ASSUME GuildTypeOK, NEW p \in Player, NEW to \in Destination, Allowed(p, to)
  PROVE  KeyOf(p, to) \in Key
<1>1. CASE to = "GLOBAL"
  BY <1>1 DEF KeyOf, Key
<1>2. CASE to = "GUILD" /\ to # "GLOBAL"
  <2>1. GuildOf(p) \in GuildId
    BY <1>2, MemberTyped DEF Allowed
  <2>2. GuildKey(GuildOf(p)) \in Key
    BY <2>1 DEF Key
  <2> QED
    BY <1>2, <2>2 DEF KeyOf
<1>3. CASE to # "GUILD" /\ to # "GLOBAL"
  <2>1. to \in Player /\ p # to
    BY <1>3 DEF Destination, Allowed
  <2>2. PICK pair \in {x \in Player \X Player : x[1] # x[2]} : pair[1] = p /\ pair[2] = to
    <3>1. <<p, to>> \in {x \in Player \X Player : x[1] # x[2]} /\ <<p, to>>[1] = p /\ <<p, to>>[2] = to
      BY <2>1
    <3> QED
      BY <3>1
  <2>3. PrivateKey(p, to) \in Key
    BY <2>2 DEF Key
  <2> QED
    BY <1>3, <2>3 DEF KeyOf
<1> QED
  BY <1>1, <1>2, <1>3

LEMMA StoreMessageOK ==
  ASSUME GuildTypeOK, ChatOK, NEW s \in sends, StoreMessage(s)
  PROVE  ChatOK'
<1>0. /\ s.id \in MessageId /\ s.id[1] \in Player /\ s.to \in Destination
      /\ sends' = sends \ {s} /\ UNCHANGED <<lastSent, reads, histories, seen, time>>
  BY DEF StoreMessage, ChatOK, ChatTypeOK, MessageId
<1>1. CASE UNCHANGED <<operations, messages>>
  <2>1. ChatTypeOK'
    BY <1>0, <1>1 DEF ChatOK, ChatTypeOK
  <2> QED
    BY <1>0, <1>1, <2>1 DEF ChatOK, PastIsPast, SentOnce, ShownStaysRead
<1>2. CASE Allowed(s.id[1], s.to) /\ ~ Applied(s.id)
  <2>1. PICK key : key = KeyOf(s.id[1], s.to)
    OBVIOUS
  <2>2. PICK new : new = [id |-> s.id, key |-> key, at |-> time]
    OBVIOUS
  <2>3. operations' = operations \cup {s.id} /\ s.id \notin operations
    BY <1>2 DEF StoreMessage, Applied
  <2>4. messages' \subseteq messages \cup {new}
    BY <1>2, <2>1, <2>2 DEF StoreMessage
  <2>5. key \in Key
    BY <1>0, <1>2, <2>1, KeyTyped
  <2>6. /\ new \in Message /\ new.id = s.id /\ new.at = time
        /\ new.id \notin operations /\ new.id \in operations'
    BY <1>0, <2>2, <2>3, <2>5 DEF Message, ChatOK, ChatTypeOK
  <2>7. ChatTypeOK'
    BY <1>0, <2>3, <2>4, <2>6 DEF ChatOK, ChatTypeOK
  <2>8. time \in Nat /\ \A m \in messages : m.id \in operations
    BY DEF ChatOK, ChatTypeOK, PastIsPast
  <2>9. PastIsPast'
    <3>1. \A m \in messages' : m.id \in operations' /\ m.at <= time
      BY <2>3, <2>4, <2>6, <2>8 DEF ChatOK, PastIsPast
    <3>2. \A h \in histories : \A m \in messages' : m.id \in h.shown => m.key = h.key
      BY <2>4, <2>6 DEF ChatOK, PastIsPast
    <3> QED
      BY <1>0, <2>3, <3>1, <3>2 DEF ChatOK, PastIsPast
  <2>10. SentOnce'
    BY <2>4, <2>6, <2>8 DEF ChatOK, SentOnce
  <2>11. ShownStaysRead'
    <3>1. \A p \in Player : new.id \notin seen[p]
      BY <2>6 DEF ChatOK, PastIsPast
    <3> QED
      BY <1>0, <2>4, <3>1 DEF ChatOK, ShownStaysRead
  <2> QED
    BY <2>7, <2>9, <2>10, <2>11 DEF ChatOK
<1> QED
  BY <1>1, <1>2 DEF StoreMessage

LEMMA TakeHistoryOK ==
  ASSUME ChatOK, NEW p \in Player, NEW key \in Key, TakeHistory(p, key)
  PROVE  ChatOK'
<1>1. PICK page \in Pages(key) :
        histories' = histories \cup {[player |-> p, key |-> key, shown |-> {m.id : m \in page}]}
  BY DEF TakeHistory
<1>2. PICK shown : shown = {m.id : m \in page}
  OBVIOUS
<1>3. PICK h : h = [player |-> p, key |-> key, shown |-> shown]
  OBVIOUS
<1>4. page \subseteq MessagesOf(key)
  BY DEF Pages
<1>5. shown \subseteq operations /\ shown \in SUBSET MessageId
  BY <1>2, <1>4 DEF MessagesOf, ChatOK, PastIsPast, ChatTypeOK
<1>6. \A m \in messages : m.id \in shown => m.key = key
  BY <1>2, <1>4 DEF MessagesOf, ChatOK, SentOnce
<1>7. /\ histories' = histories \cup {h} /\ h.shown = shown /\ h.key = key
      /\ h \in [player : Player, key : Key, shown : SUBSET MessageId]
      /\ UNCHANGED <<messages, operations, lastSent, reads, sends, seen, time>>
  BY <1>1, <1>2, <1>3, <1>5 DEF TakeHistory
<1>8. ChatTypeOK'
  BY <1>7 DEF ChatOK, ChatTypeOK
<1>9. PastIsPast'
  BY <1>5, <1>6, <1>7 DEF ChatOK, PastIsPast
<1> QED
  BY <1>7, <1>8, <1>9 DEF ChatOK, SentOnce, ShownStaysRead

LEMMA MarkReadOK ==
  ASSUME ChatOK, NEW h \in histories, MarkRead(h)
  PROVE  ChatOK'
<1> USE DEF MarkRead, ReadAt
<1>1. PICK p \in Player : p = h.player
  BY DEF ChatOK, ChatTypeOK
<1>2. PICK key \in Key : key = h.key
  BY DEF ChatOK, ChatTypeOK
<1>3. /\ reads \in [Player -> [Key -> Nat]] /\ time \in Nat
      /\ seen \in [Player -> SUBSET MessageId] /\ h.shown \in SUBSET MessageId
  BY DEF ChatOK, ChatTypeOK
<1>4. /\ reads' = [reads EXCEPT ![p][key] = time]
      /\ seen' = [seen EXCEPT ![p] = @ \cup h.shown]
      /\ histories' = histories \ {h}
      /\ UNCHANGED <<messages, operations, lastSent, sends, time>>
  BY <1>1, <1>2
<1>5. /\ reads'[p][key] = time /\ seen'[p] = seen[p] \cup h.shown
      /\ \A q \in Player \ {p} : seen'[q] = seen[q] /\ reads'[q] = reads[q]
      /\ \A k \in Key \ {key} : reads'[p][k] = reads[p][k]
  BY <1>3, <1>4
<1>6. ChatTypeOK'
  BY <1>3, <1>4 DEF ChatOK, ChatTypeOK
<1>7. PastIsPast'
  <2>1. \A q \in Player : seen'[q] \subseteq operations
    BY <1>5 DEF ChatOK, PastIsPast
  <2>2. \A q \in Player, k \in Key : reads'[q][k] <= time
    BY <1>3, <1>5 DEF ChatOK, PastIsPast
  <2> QED
    BY <1>4, <2>1, <2>2 DEF ChatOK, PastIsPast
<1>8. ShownStaysRead'
  <2> SUFFICES ASSUME NEW q \in Player, NEW m \in messages, m.id \in seen'[q]
               PROVE  m.at <= reads'[q][m.key]
    BY <1>4 DEF ShownStaysRead
  <2>1. m.key \in Key /\ m.at \in Nat /\ m.at <= time
    BY DEF ChatOK, ChatTypeOK, PastIsPast, Message
  <2>2. CASE q = p /\ m.key = key
    BY <1>5, <2>1, <2>2
  <2>3. CASE q = p /\ m.key # key
    <3>1. m.id \notin h.shown
      BY <1>2, <2>3 DEF ChatOK, PastIsPast
    <3> QED
      BY <1>5, <2>1, <2>3, <3>1 DEF ChatOK, ShownStaysRead
  <2>4. CASE q # p
    BY <1>5, <2>4 DEF ChatOK, ShownStaysRead
  <2> QED
    BY <2>2, <2>3, <2>4
<1> QED
  BY <1>4, <1>6, <1>7, <1>8 DEF ChatOK, SentOnce

(* The steps that take messages away, pass the time or end the process.    *)
LEMMA OtherChatStepsOK ==
  ASSUME ChatOK
  PROVE  /\ Tick => ChatOK'
         /\ Restart => ChatOK'
         /\ \A p \in Player, op \in OperationId, to \in Destination, socket \in Socket :
              Send(p, op, to, socket) => ChatOK'
         /\ messages' \subseteq messages
              /\ UNCHANGED <<operations, lastSent, reads, sends, histories, seen, time>> => ChatOK'
<1>1. ASSUME Tick PROVE ChatOK'
  <2>1. ChatTypeOK'
    BY <1>1 DEF Tick, ChatOK, ChatTypeOK
  <2>2. PastIsPast'
    BY <1>1 DEF Tick, ChatOK, ChatTypeOK, PastIsPast, Message
  <2> QED
    BY <1>1, <2>1, <2>2 DEF Tick, ChatOK, SentOnce, ShownStaysRead
<1>2. ASSUME Restart PROVE ChatOK'
  <2>1. ChatTypeOK'
    BY <1>2, ChatAssumption DEF Restart, ChatOK, ChatTypeOK
  <2> QED
    BY <1>2, <2>1 DEF Restart, ChatOK, PastIsPast, SentOnce, ShownStaysRead
<1>3. ASSUME NEW p \in Player, NEW op \in OperationId, NEW to \in Destination, NEW socket \in Socket,
             Send(p, op, to, socket)
      PROVE  ChatOK'
  <2>1. ChannelOf(to) \in Channel
    BY DEF ChannelOf, Channel, Destination
  <2>2. [id |-> <<p, op>>, to |-> to, socket |-> socket] \in [id : MessageId, to : Destination, socket : Socket]
    BY DEF MessageId
  <2>3. /\ lastSent' = [lastSent EXCEPT ![p][ChannelOf(to)] = time]
        /\ sends' = sends \cup {[id |-> <<p, op>>, to |-> to, socket |-> socket]}
        /\ UNCHANGED <<messages, operations, reads, histories, seen, time>>
    BY <1>3 DEF Send
  <2>4. lastSent' \in [Player -> [Channel -> Int]]
    BY <2>1, <2>3 DEF ChatOK, ChatTypeOK
  <2>5. ChatTypeOK'
    BY <2>2, <2>3, <2>4 DEF ChatOK, ChatTypeOK
  <2> QED
    BY <2>3, <2>5 DEF ChatOK, PastIsPast, SentOnce, ShownStaysRead
<1>4. ASSUME messages' \subseteq messages,
             UNCHANGED <<operations, lastSent, reads, sends, histories, seen, time>>
      PROVE  ChatOK'
  <2>1. ChatTypeOK'
    BY <1>4 DEF ChatOK, ChatTypeOK
  <2> QED
    BY <1>4, <2>1 DEF ChatOK, PastIsPast, SentOnce, ShownStaysRead
<1> QED
  BY <1>1, <1>2, <1>3, <1>4

LEMMA ChatStepOK ==
  ASSUME GuildTypeOK, ChatOK, [Next]_vars
  PROVE  ChatOK'
<1>1. CASE GuildStep
  BY <1>1, OtherChatStepsOK DEF GuildStep
<1>2. CASE UNCHANGED chatVars
  BY <1>2, OtherChatStepsOK DEF chatVars
<1>3. CASE ChatNext
  BY <1>3, StoreMessageOK, TakeHistoryOK, MarkReadOK, OtherChatStepsOK DEF ChatNext
<1> QED
  BY <1>1, <1>2, <1>3 DEF Next, vars

(* The three components keep what each of them keeps.                      *)
THEOREM ChatInvariant == Spec => [](Sound /\ ChatOK)
<1>1. Init => Sound /\ ChatOK
  BY InitSound, ChatInitOK DEF Init
<1>2. Sound /\ ChatOK /\ [Next]_vars => (Sound /\ ChatOK)'
  BY SoundStep, ChatStepOK DEF Sound
<1> QED
  BY <1>1, <1>2, PTL DEF Spec

(* A message is stored once, whatever its client repeats over which socket. *)
THEOREM MessagesAreSentOnce == Spec => []SentOnce
<1>1. ChatOK => SentOnce
  BY DEF ChatOK
<1> QED
  BY <1>1, ChatInvariant, PTL

(* What was shown stays read, whichever of the reader's histories is       *)
(* marked last.                                                            *)
THEOREM ShownMessagesStayRead == Spec => []ShownStaysRead
<1>1. ChatOK => ShownStaysRead
  BY DEF ChatOK
<1> QED
  BY <1>1, ChatInvariant, PTL

(* The values of guilds, relations and chat are of their types.            *)
THEOREM SocialTypeCorrect == Spec => []TypeOK
<1>1. Sound /\ ChatOK /\ Severs => TypeOK
  BY DEF Sound, ChatOK, ChatTypeOK, Severs, TypeOK
<1> QED
  BY <1>1, ChatInvariant, SeversAlways, PTL
=============================================================================
