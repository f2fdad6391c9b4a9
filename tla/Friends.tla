------------------------------ MODULE Friends ------------------------------
(***************************************************************************)
(* Friend requests, friendships and blocks of FriendsService, one          *)
(* transaction of the social repository per action.  Only pending requests *)
(* are kept: the code looks at no other.                                   *)
(***************************************************************************)
EXTENDS Naturals, FiniteSets

CONSTANT Player

VARIABLES
  friendRequests,  \* the pending requests, requester and receiver
  friendships,     \* pairs of players, as sets: the code orders their ids
  blocks           \* blocker and blocked

Blocked(p, q) == <<p, q>> \in blocks \/ <<q, p>> \in blocks
Pending(p, q) == {<<p, q>>, <<q, p>>} \cap friendRequests

(* Bug: a block leaves the pending requests as they are.                   *)
KeptRequests(p, q) == friendRequests

-----------------------------------------------------------------------------
FriendsInit == friendRequests = {} /\ friendships = {} /\ blocks = {}

Open(p, q) == Pending(p, q)

SendRequest(p, q) ==
  /\ p # q /\ ~ Blocked(p, q) /\ {p, q} \notin friendships /\ Open(p, q) = {}
  /\ friendRequests' = friendRequests \cup {<<p, q>>}
  /\ UNCHANGED <<friendships, blocks>>

Respond(p, q, accept) ==
  /\ <<q, p>> \in friendRequests
  /\ accept => ~ Blocked(p, q)
  /\ friendRequests' = friendRequests \ {<<q, p>>}
  /\ friendships' = IF accept THEN friendships \cup {{p, q}} ELSE friendships
  /\ UNCHANGED blocks

Remove(p, q) ==
  /\ {p, q} \in friendships
  /\ friendships' = friendships \ {{p, q}}
  /\ UNCHANGED <<friendRequests, blocks>>

Severed(p, q) == friendRequests \ Pending(p, q)

Block(p, q) ==
  /\ p # q
  /\ blocks' = blocks \cup {<<p, q>>}
  /\ friendships' = friendships \ {{p, q}}
  /\ friendRequests' = Severed(p, q)

Unblock(p, q) ==
  /\ <<p, q>> \in blocks
  /\ blocks' = blocks \ {<<p, q>>}
  /\ UNCHANGED <<friendRequests, friendships>>

FriendsNext ==
  \E p, q \in Player :
    \/ SendRequest(p, q) \/ Remove(p, q) \/ Block(p, q) \/ Unblock(p, q)
    \/ \E accept \in BOOLEAN : Respond(p, q, accept)

-----------------------------------------------------------------------------
FriendsTypeOK ==
  /\ friendRequests \subseteq Player \X Player
  /\ friendships \subseteq SUBSET Player
  /\ blocks \subseteq Player \X Player

(* Whatever order the two sides of a pair act in: a block leaves neither   *)
(* a friendship nor a request that could still be accepted, whoever of the *)
(* two blocked, and requests neither cross nor outlive a friendship.       *)
BlocksSever ==
  /\ \A f \in friendships : Cardinality(f) = 2
  /\ \A p, q \in Player :
       /\ Blocked(p, q) => {p, q} \notin friendships /\ Pending(p, q) = {}
       /\ {p, q} \in friendships => Pending(p, q) = {}
       /\ Cardinality(Pending(p, q)) <= 1

=============================================================================
