------------------------------- MODULE Guild -------------------------------
(***************************************************************************)
(* The guilds of GuildService: founding and disbanding, applications and   *)
(* invitations, ranks, leadership, and the storage members share by rank.  *)
(*                                                                         *)
(* An action is one serializable transaction of the social repository.  A  *)
(* refused one, and one whose operation key is known, changes nothing and  *)
(* is no step.  A request that is not pending is never looked at again, so *)
(* only the pending ones are kept; names, tags, texts, logs and times are  *)
(* left out.  Deleted ids may be drawn again: nothing names them any more, *)
(* as GuildsAreSound says.                                                 *)
(***************************************************************************)
EXTENDS FiniteSums

CONSTANTS
  Player,        \* player ids
  GuildId,       \* guild ids; bounds the guilds that exist at once
  EntryId,       \* ids of item entries, in inventories and storages
  Item,          \* the kinds of items
  Stackable,     \* those whose entries merge into one stack
  MaxMembers,    \* GUILD_MAX_MEMBERS
  CreationCost,  \* GUILD_CREATION_COST
  Grants,        \* what a leader may let a rank do, a set of rights each
  InitialEntries, InitialPurse,
  NoPlayer, NoGuild, NoEntry

VARIABLES
  leaderOf,      \* leaderPlayerId of the guilds that exist
  member,        \* guildMembers: a player's guild and rank
  applications,  \* the pending applications, a guild and a player each
  invites,       \* the pending invitations, likewise
  granted,       \* guildPermissions: what a guild lets a rank do
  storage,       \* guildStorageItems
  carried,       \* each player's inventory entries
  purse          \* each player's available coins

guildVars == <<leaderOf, member, applications, invites, granted, storage, carried, purse>>
requests == <<applications, invites>>
goods == <<storage, carried>>

Rank == {"LEADER", "OFFICER", "MEMBER", "RECRUIT"}
Right == {"deposit", "withdraw"}
Membership == [guild : GuildId, rank : Rank]
Entry == [item : Item, quantity : Nat \ {0}]
Stored == [guild : GuildId, item : Item, quantity : Nat \ {0}]

ASSUME GuildAssumption ==
  /\ IsFiniteSet(Player) /\ IsFiniteSet(GuildId) /\ IsFiniteSet(EntryId)
  /\ MaxMembers \in Nat \ {0} /\ CreationCost \in Nat /\ Grants \subseteq SUBSET Right
  /\ NoPlayer \notin Player /\ NoGuild \notin Membership
  /\ NoEntry \notin Entry /\ NoEntry \notin Stored
  /\ InitialPurse \in [Player -> Nat]
  /\ InitialEntries \in [Player -> [EntryId -> Entry \cup {NoEntry}]]
  /\ \A e \in EntryId : \A p, q \in Player :
       InitialEntries[p][e] # NoEntry /\ InitialEntries[q][e] # NoEntry => p = q

Guilds == {g \in GuildId : leaderOf[g] # NoPlayer}
InGuild(p, g) == member[p] # NoGuild /\ member[p].guild = g
MembersOf(g) == {p \in Player : InGuild(p, g)}
Holds(p, ranks) == member[p] # NoGuild /\ member[p].rank \in ranks
GuildOf(p) == member[p].guild

DefaultRights == [r \in Rank \ {"LEADER"} |-> IF r = "RECRUIT" THEN {"deposit"} ELSE Right]
RightsOf(g, rank) == IF rank = "LEADER" THEN Right ELSE granted[g][rank]
May(p, right) == member[p] # NoGuild /\ right \in RightsOf(GuildOf(p), member[p].rank)

-----------------------------------------------------------------------------
(* Bugs such code could have, each the form of a definition below that a   *)
(* property refutes.                                                       *)

(* Bug: founding a guild is not paid for in advance.                       *)
OnCredit(p) == member[p] = NoGuild

(* Bug: the capacity is looked at when the request is made, not on joining. *)
AlwaysRoom(g) == TRUE

(* Bug: what is left of a stack that was split keeps its old quantity.     *)
UnreducedRest(entry, quantity) == entry

(* Bug: anybody below the leader may be kicked by an officer, and so may   *)
(* the leader.                                                             *)
KicksAnybody(actor, target) == member[target].rank \in Rank

-----------------------------------------------------------------------------
GuildInit ==
  /\ leaderOf = [g \in GuildId |-> NoPlayer]
  /\ member = [p \in Player |-> NoGuild]
  /\ applications = {} /\ invites = {}
  /\ granted = [g \in GuildId |-> DefaultRights]
  /\ storage = [e \in EntryId |-> NoEntry]
  /\ carried = InitialEntries
  /\ purse = InitialPurse

MayFound(p) == member[p] = NoGuild /\ purse[p] >= CreationCost

Create(p, g) ==
  /\ MayFound(p) /\ g \notin Guilds
  /\ purse' = [purse EXCEPT ![p] = @ - CreationCost]
  /\ leaderOf' = [leaderOf EXCEPT ![g] = p]
  /\ member' = [member EXCEPT ![p] = [guild |-> g, rank |-> "LEADER"]]
  /\ granted' = [granted EXCEPT ![g] = DefaultRights]
  /\ UNCHANGED <<requests, goods>>

HasRoom(g) == Cardinality(MembersOf(g)) < MaxMembers

(* Joining closes every other request of the player.                       *)
Join(p, g) ==
  /\ member[p] = NoGuild /\ HasRoom(g)
  /\ member' = [member EXCEPT ![p] = [guild |-> g, rank |-> "RECRUIT"]]
  /\ applications' = {a \in applications : a[2] # p}
  /\ invites' = {i \in invites : i[2] # p}

Apply(p, g) ==
  /\ g \in Guilds /\ member[p] = NoGuild /\ <<g, p>> \notin applications
  /\ applications' = applications \cup {<<g, p>>}
  /\ UNCHANGED invites

CancelApplication(p, g) ==
  /\ <<g, p>> \in applications
  /\ applications' = applications \ {<<g, p>>}
  /\ UNCHANGED invites

ReviewApplication(actor, p, accept) ==
  /\ Holds(actor, {"LEADER", "OFFICER"}) /\ <<GuildOf(actor), p>> \in applications
  /\ IF accept THEN Join(p, GuildOf(actor))
     ELSE CancelApplication(p, GuildOf(actor)) /\ UNCHANGED member

Invite(actor, p) ==
  /\ Holds(actor, {"LEADER", "OFFICER"}) /\ member[p] = NoGuild
  /\ <<GuildOf(actor), p>> \notin invites
  /\ invites' = invites \cup {<<GuildOf(actor), p>>}
  /\ UNCHANGED applications

(* The inviter may have left since; expiresAt is never set.                *)
RespondInvite(p, g, accept) ==
  /\ <<g, p>> \in invites
  /\ IF accept THEN Join(p, g)
     ELSE invites' = invites \ {<<g, p>>} /\ UNCHANGED <<member, applications>>

Leave(p) ==
  /\ member[p] # NoGuild /\ member[p].rank # "LEADER"
  /\ member' = [member EXCEPT ![p] = NoGuild]

MayKick(actor, target) ==
  /\ member[target].rank # "LEADER"
  /\ ~ (member[actor].rank = "OFFICER" /\ member[target].rank = "OFFICER")

Kick(actor, target) ==
  /\ Holds(actor, {"LEADER", "OFFICER"}) /\ actor # target
  /\ InGuild(target, GuildOf(actor)) /\ MayKick(actor, target)
  /\ member' = [member EXCEPT ![target] = NoGuild]

SetRank(actor, target, rank) ==
  /\ Holds(actor, {"LEADER"})
  /\ InGuild(target, GuildOf(actor)) /\ member[target].rank # "LEADER"
  /\ member' = [member EXCEPT ![target].rank = rank]

Promote(p, q) == member' = [member EXCEPT ![p].rank = "OFFICER", ![q].rank = "LEADER"]

TransferLeadership(actor, target) ==
  /\ Holds(actor, {"LEADER"}) /\ actor # target /\ InGuild(target, GuildOf(actor))
  /\ Promote(actor, target)
  /\ leaderOf' = [leaderOf EXCEPT ![GuildOf(actor)] = target]

UpdatePermission(actor, rank, rights) ==
  /\ Holds(actor, {"LEADER"})
  /\ granted' = [granted EXCEPT ![GuildOf(actor)][rank] = rights]

StorageOf(g) == {e \in EntryId : storage[e] # NoEntry /\ storage[e].guild = g}

(* deleteGuild takes members, requests and permissions with it.            *)
Disband(actor) ==
  LET g == GuildOf(actor) IN
  /\ Holds(actor, {"LEADER"}) /\ StorageOf(g) = {}
  /\ leaderOf' = [leaderOf EXCEPT ![g] = NoPlayer]
  /\ member' = [p \in Player |-> IF InGuild(p, g) THEN NoGuild ELSE member[p]]
  /\ applications' = {a \in applications : a[1] # g}
  /\ invites' = {i \in invites : i[1] # g}
  /\ granted' = [granted EXCEPT ![g] = DefaultRights]
  /\ UNCHANGED <<goods, purse>>

-----------------------------------------------------------------------------
(* The storage: a whole entry keeps its id on its way, a part gets a new   *)
(* one, and a stackable item joins the player's stack of it.               *)
Fresh == {e \in EntryId : storage[e] = NoEntry /\ \A p \in Player : carried[p][e] = NoEntry}
Portions(entry) == IF entry.item \in Stackable THEN 1..entry.quantity ELSE {1}
Reduced(entry, quantity) == [entry EXCEPT !.quantity = @ - quantity]
Rest(entry, quantity) == IF quantity = entry.quantity THEN NoEntry ELSE Reduced(entry, quantity)
IdsFor(e, entry, quantity) == IF quantity = entry.quantity THEN {e} ELSE Fresh

Deposit(p, e, quantity) ==
  LET entry == carried[p][e] IN
  /\ May(p, "deposit") /\ quantity \in Portions(entry)
  /\ \E id \in IdsFor(e, entry, quantity) :
       storage' = [storage EXCEPT
         ![id] = [guild |-> GuildOf(p), item |-> entry.item, quantity |-> quantity]]
  /\ carried' = [carried EXCEPT ![p][e] = Rest(entry, quantity)]

StackOf(p, item) ==
  {e \in EntryId : item \in Stackable /\ carried[p][e] # NoEntry /\ carried[p][e].item = item}

Withdraw(p, e, quantity) ==
  LET entry == storage[e] IN
  /\ May(p, "withdraw") /\ entry.guild = GuildOf(p) /\ quantity \in Portions(entry)
  /\ storage' = [storage EXCEPT ![e] = Rest(entry, quantity)]
  /\ IF StackOf(p, entry.item) # {}
     THEN \E s \in StackOf(p, entry.item) :
            carried' = [carried EXCEPT ![p][s].quantity = @ + quantity]
     ELSE \E id \in IdsFor(e, entry, quantity) :
            carried' = [carried EXCEPT ![p][id] = [item |-> entry.item, quantity |-> quantity]]

-----------------------------------------------------------------------------
GuildNext ==
  \/ \E p \in Player, g \in GuildId : Create(p, g)
  \/ /\ \/ \E p \in Player, g \in GuildId : Apply(p, g) \/ CancelApplication(p, g)
        \/ \E actor, p \in Player : Invite(actor, p)
     /\ UNCHANGED <<leaderOf, member, granted, goods, purse>>
  \/ /\ \/ \E actor, p \in Player, accept \in BOOLEAN : ReviewApplication(actor, p, accept)
        \/ \E p \in Player, g \in GuildId, accept \in BOOLEAN : RespondInvite(p, g, accept)
     /\ UNCHANGED <<leaderOf, granted, goods, purse>>
  \/ /\ \/ \E p \in Player : Leave(p)
        \/ \E actor, target \in Player : Kick(actor, target)
        \/ \E actor, target \in Player, rank \in Rank \ {"LEADER"} : SetRank(actor, target, rank)
     /\ UNCHANGED <<leaderOf, requests, granted, goods, purse>>
  \/ /\ \E actor, target \in Player : TransferLeadership(actor, target)
     /\ UNCHANGED <<requests, granted, goods, purse>>
  \/ /\ \E actor \in Player, rank \in Rank \ {"LEADER"}, rights \in Grants :
          UpdatePermission(actor, rank, rights)
     /\ UNCHANGED <<leaderOf, member, requests, goods, purse>>
  \/ \E actor \in Player : Disband(actor)
  \/ /\ \E p \in Player, e \in EntryId :
          \/ /\ carried[p][e] # NoEntry
             /\ \E quantity \in 1..carried[p][e].quantity : Deposit(p, e, quantity)
          \/ /\ storage[e] # NoEntry
             /\ \E quantity \in 1..storage[e].quantity : Withdraw(p, e, quantity)
     /\ UNCHANGED <<leaderOf, member, requests, granted, purse>>

-----------------------------------------------------------------------------
(* Type correctness; no purse is overdrawn and no entry is empty.          *)
GuildTypeOK ==
  /\ leaderOf \in [GuildId -> Player \cup {NoPlayer}]
  /\ member \in [Player -> Membership \cup {NoGuild}]
  /\ applications \subseteq GuildId \X Player /\ invites \subseteq GuildId \X Player
  /\ granted \in [GuildId -> [Rank \ {"LEADER"} -> SUBSET Right]]
  /\ storage \in [EntryId -> Stored \cup {NoEntry}]
  /\ carried \in [Player -> [EntryId -> Entry \cup {NoEntry}]]
  /\ purse \in [Player -> Nat]

(* Through founding, transfers, kicks, leaving and disbanding: a guild has *)
(* one leader, the member its record names; it is never overfull, however  *)
(* the applications and invitations of several officers cross; and neither *)
(* a member nor a request nor a stored entry outlives its guild.           *)
GuildsAreSound ==
  /\ \A g \in Guilds :
       /\ {p \in MembersOf(g) : member[p].rank = "LEADER"} = {leaderOf[g]}
       /\ Cardinality(MembersOf(g)) <= MaxMembers
  /\ \A g \in GuildId \ Guilds :
       /\ MembersOf(g) = {} /\ StorageOf(g) = {}
       /\ \A p \in Player : <<g, p>> \notin applications \cup invites

(* Deposits and withdrawals, whole and in parts, by members who come, go   *)
(* and are replaced: no piece is made or lost, and no entry id is ever in  *)
(* two places.                                                             *)
QuantityIn(entry, i) == IF entry # NoEntry /\ entry.item = i THEN entry.quantity ELSE 0
Pieces(i) ==
  SumOver([e \in EntryId |-> QuantityIn(storage[e], i)], EntryId)
    + SumOver([p \in Player |->
                 SumOver([e \in EntryId |-> QuantityIn(carried[p][e], i)], EntryId)], Player)
InitialPieces(i) ==
  SumOver([p \in Player |->
             SumOver([e \in EntryId |-> QuantityIn(InitialEntries[p][e], i)], EntryId)], Player)

StorageIsConserved ==
  /\ \A i \in Item : Pieces(i) = InitialPieces(i)
  /\ \A e \in EntryId :
       /\ storage[e] # NoEntry => \A p \in Player : carried[p][e] = NoEntry
       /\ \A p, q \in Player : carried[p][e] # NoEntry /\ carried[q][e] # NoEntry => p = q

(* A leader loses a guild only by handing it to another member, and stays  *)
(* an officer, or by disbanding it with nothing left in its storage: no    *)
(* kick, rank change or departure gets around that.                        *)
LeadershipIsHandedOver ==
  [][\A g \in Guilds :
       \/ leaderOf'[g] = leaderOf[g] /\ member'[leaderOf[g]] = member[leaderOf[g]]
       \/ leaderOf'[g] = NoPlayer /\ StorageOf(g) = {}
       \/ /\ leaderOf'[g] \in MembersOf(g)
          /\ member'[leaderOf[g]] = [guild |-> g, rank |-> "OFFICER"]]_guildVars

=============================================================================
