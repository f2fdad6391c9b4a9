---------------------------- MODULE PlayerState ----------------------------
(***************************************************************************)
(* What one player owns and has earned: PlayerStateService and             *)
(* ProfessionService over the profile transactions of the repository.      *)
(*                                                                         *)
(* An action is one transaction under an operation key; a refused one, and *)
(* one whose key is known, changes nothing and is no step.  A profession   *)
(* request reads the clock before it waits for its transaction, so it is   *)
(* two steps.  A run's room keeps a copy of the character, levels it up    *)
(* and writes it back with each reward.  Names, statistics and the random  *)
(* parts of a reward are left out.  SlotsOf gives the slots an item has    *)
(* for the player's class, none when it cannot wear it.                    *)
(***************************************************************************)
EXTENDS FiniteSums, Sequences

CONSTANTS
  EntryId, Item, Stackable, Slot, SlotsOf,
  Recipe, RecipeItem, Requirement, Output, OutputQuantity,   \* what a recipe needs and yields
  Loot,                \* loots of an expedition: resources, and recipes in order
  Retained,            \* percent of it that is kept, after success and failure
  Grants,              \* items and quantities an administrator may grant
  Rift, FirstRift, Floors, Prerequisite,        \* unlockRequires: a rift and a floor
  Activity, Resource, Mastery, RiftNeeded,      \* gathering, its resource and demands
  Duration, Quantity, JobXP,                    \* plannedQuantity and plannedXP
  XPRequired, MaxMastery,
  OperationId, MaxRequests,                     \* bounds the requests under way
  Rewards, LevelXP,    \* experience and coins of an encounter; calculateXPRequired
  Levels, Amounts,     \* levels and coins an administrator may set and grant
  InitialInventory, InitialCharacter, NoEntry, NoRift, NoProgress, NoFighter

VARIABLES
  inventory, storage,  \* entries by id
  equipment,           \* the entry in each slot
  learned,             \* learnedRecipes
  journal,             \* what each applied operation was to add and take
  progress,            \* riftProgress
  mastery,             \* professionProgress
  jobs,                \* professionJobs, in the order they were started
  requests,            \* the profession requests before their transaction
  now,
  character,           \* level, experience and coins
  ledger,              \* the coin ledger's rows
  fighter              \* the level and experience the room of a run keeps

places == <<inventory, storage, equipment>>
profession == <<mastery, jobs, requests, now>>
career == <<character, ledger, fighter>>
profileVars == <<places, learned, journal, progress, profession, career>>

Entry == [item : Item, quantity : Nat \ {0}]
Worn == [id : EntryId, item : Item]
Progress == [unlocked : Nat, completed : Nat]
Job == [activity : Activity, quantity : Nat, completesAt : Nat,
        status : {"ACTIVE", "CANCELLED", "COLLECTED"}]

Single(place) ==
  \A d, e \in EntryId :
    /\ place[d] # NoEntry /\ place[e] # NoEntry
    /\ place[d].item \in Stackable /\ place[d].item = place[e].item
    => d = e

ASSUME GoodsAssumption ==
  /\ IsFiniteSet(EntryId) /\ IsFiniteSet(Slot)
  /\ Stackable \subseteq Item /\ SlotsOf \in [Item -> SUBSET Slot]
  /\ \A i \in Stackable : SlotsOf[i] = {}
  /\ RecipeItem \in [Recipe -> Stackable] /\ Output \in [Recipe -> Item]
  /\ OutputQuantity \in [Recipe -> Nat \ {0}]
  /\ Requirement \in [Recipe -> [Item -> Nat]]
  /\ \A r \in Recipe, i \in Item : Requirement[r][i] > 0 => i \in Stackable
  /\ Retained \subseteq 0..100
  /\ \A loot \in Loot : loot.resources \in [Item -> Nat] /\ loot.recipes \in Seq(Recipe)
  /\ \A grant \in Grants : grant.item \in Item /\ grant.quantity \in Nat \ {0}
  /\ NoEntry \notin Entry \cup Worn
  /\ InitialInventory \in [EntryId -> Entry \cup {NoEntry}] /\ Single(InitialInventory)

ASSUME RiftAssumption ==
  /\ FirstRift \in Rift /\ Prerequisite[FirstRift] = NoRift
  /\ Floors \in [Rift -> Nat \ {0}] /\ NoProgress \notin Progress
  /\ \A r \in Rift : Prerequisite[r] # NoRift =>
       Prerequisite[r].rift \in Rift /\ Prerequisite[r].floor \in Nat \ {0}

ASSUME JobAssumption ==
  /\ Resource \in [Activity -> Item] /\ JobXP \in [Activity -> Nat]
  /\ Duration \subseteq Nat /\ Quantity \subseteq Nat \ {0}
  /\ MaxMastery \in Nat \ {0}
  /\ \A l \in 1..(MaxMastery - 1) : XPRequired[l] \in Nat \ {0}

ASSUME CareerAssumption ==
  /\ \A reward \in Rewards : reward.xp \in Nat /\ reward.coins \in Nat
  /\ Levels \subseteq Nat \ {0} /\ Amounts \subseteq Nat
  /\ InitialCharacter \in [level : Nat \ {0}, xp : Nat, coins : Nat]
  /\ InitialCharacter.xp < LevelXP[InitialCharacter.level]
  /\ NoFighter \notin [level : Nat \ {0}, xp : Nat]

Nothing == [i \in Item |-> 0]
Some(item, quantity) == [Nothing EXCEPT ![item] = quantity]
Minus(bag, other) == [i \in Item |-> bag[i] - other[i]]

Active == {j \in DOMAIN jobs : jobs[j].status = "ACTIVE"}

-----------------------------------------------------------------------------
(* Bugs such code could have.                                              *)

(* Bug: the operation keys are not looked at.                              *)
NeverKnown(key) == FALSE

(* Bug: any floor may be completed.                                        *)
AnyFloor(rift, floor) == floor \in 1..Floors[rift]

(* Bug: the job that is collected stays active.                            *)
StaysActive(job) == job

(* Bug: a stack that is used up stays, with no pieces.                     *)
StaysEmpty(entry, quantity) == [entry EXCEPT !.quantity = @ - quantity]

-----------------------------------------------------------------------------
(* Entries: a stackable item has one stack, any other entry has its own id. *)
Held(place) == {e \in EntryId : place[e] # NoEntry}
StackIn(place, i) == {e \in Held(place) : i \in Stackable /\ place[e].item = i}
Count(place, i) ==
  SumOver([e \in EntryId |->
    IF e \in Held(place) /\ place[e].item = i THEN place[e].quantity ELSE 0], EntryId)
Covers(place, bag) == \A i \in Item : bag[i] > 0 => Count(place, i) >= bag[i]

Left(entry, quantity) ==
  IF entry.quantity > quantity THEN [entry EXCEPT !.quantity = @ - quantity] ELSE NoEntry
(* What is taken by kind is stackable.                                     *)
Without(place, bag) ==
  [e \in EntryId |-> IF e \in Held(place) THEN Left(place[e], bag[place[e].item]) ELSE NoEntry]
WithoutEntry(place, e, quantity) == [place EXCEPT ![e] = Left(@, quantity)]

Fresh ==
  EntryId \ (Held(inventory) \cup Held(storage)
               \cup {equipment[s].id : s \in {t \in Slot : equipment[t] # NoEntry}})

(* addItem for every item of the bag: onto its stack, or as a new entry.   *)
NewKinds(place, bag) == {i \in Item : bag[i] > 0 /\ StackIn(place, i) = {}}
NewIds(place, bag, pool) ==
  {ids \in [NewKinds(place, bag) -> pool] :
     \A i, j \in DOMAIN ids : ids[i] = ids[j] => i = j}
With(place, bag, ids) ==
  [e \in EntryId |->
     IF \E i \in DOMAIN ids : ids[i] = e
     THEN LET i == CHOOSE k \in DOMAIN ids : ids[k] = e IN [item |-> i, quantity |-> bag[i]]
     ELSE IF e \in Held(place) /\ e \in StackIn(place, place[e].item)
          THEN [place[e] EXCEPT !.quantity = @ + bag[place[e].item]]
          ELSE place[e]]

ProfileInit ==
  /\ inventory = InitialInventory
  /\ storage = [e \in EntryId |-> NoEntry]
  /\ equipment = [s \in Slot |-> NoEntry]
  /\ learned = {} /\ journal = <<>>
  /\ progress = [r \in Rift |->
       IF r = FirstRift THEN [unlocked |-> 1, completed |-> 0] ELSE NoProgress]
  /\ mastery = [level |-> 1, xp |-> 0]
  /\ jobs = <<>> /\ requests = {} /\ now = 0
  /\ character = InitialCharacter /\ ledger = <<>> /\ fighter = NoFighter

Known(key) == key \in DOMAIN journal

Applied(key, change) ==
  /\ ~ Known(key)
  /\ journal' = [k \in DOMAIN journal \cup {key} |-> IF k = key THEN change ELSE journal[k]]

-----------------------------------------------------------------------------
PutBack(place, worn) ==
  IF worn = NoEntry THEN place
  ELSE [place EXCEPT ![worn.id] = [item |-> worn.item, quantity |-> 1]]

(* One piece is worn; an entry of several, which only a grant can make, is *)
(* cut down to it.                                                         *)
Equip(op, e, slot) ==
  LET entry == inventory[e] IN
  /\ e \in Held(inventory) /\ slot \in SlotsOf[entry.item]
  /\ Applied(<<"equip", op>>, Some(entry.item, 1 - entry.quantity))
  /\ equipment' = [equipment EXCEPT ![slot] = [id |-> e, item |-> entry.item]]
  /\ inventory' = PutBack([inventory EXCEPT ![e] = NoEntry], equipment[slot])
  /\ UNCHANGED <<storage, learned, progress, profession, career>>

Unequip(op, slot) ==
  /\ equipment[slot] # NoEntry /\ Applied(<<"unequip", op>>, Nothing)
  /\ equipment' = [equipment EXCEPT ![slot] = NoEntry]
  /\ inventory' = PutBack(inventory, equipment[slot])
  /\ UNCHANGED <<storage, learned, progress, profession, career>>

Source(toStorage) == IF toStorage THEN inventory ELSE storage

(* A whole entry keeps its id unless it joins a stack.                     *)
Move(op, toStorage, e, quantity) ==
  LET source == Source(toStorage)
      target == IF toStorage THEN storage ELSE inventory
      entry == source[e]
      bag == Some(entry.item, quantity)
      rest == WithoutEntry(source, e, quantity)
      pool == IF quantity = entry.quantity THEN {e} ELSE Fresh
  IN
  /\ e \in Held(source) /\ quantity \in 1..entry.quantity
  /\ Applied(<<"move", op>>, Nothing)
  /\ \E ids \in NewIds(target, bag, pool) :
       IF toStorage THEN inventory' = rest /\ storage' = With(target, bag, ids)
       ELSE storage' = rest /\ inventory' = With(target, bag, ids)
  /\ UNCHANGED <<equipment, learned, progress, profession, career>>

LearnRecipe(op, recipe) ==
  /\ Covers(inventory, Some(RecipeItem[recipe], 1)) /\ recipe \notin learned
  /\ Applied(<<"learn", op>>, Some(RecipeItem[recipe], -1))
  /\ learned' = learned \cup {recipe}
  /\ inventory' = Without(inventory, Some(RecipeItem[recipe], 1))
  /\ UNCHANGED <<storage, equipment, progress, profession, career>>

Craft(op, recipe) ==
  LET rest == Without(inventory, Requirement[recipe])
      yield == Some(Output[recipe], OutputQuantity[recipe])
  IN
  /\ recipe \in learned /\ Covers(inventory, Requirement[recipe])
  /\ Applied(<<"craft", op>>, Minus(yield, Requirement[recipe]))
  /\ \E ids \in NewIds(rest, yield, Fresh) : inventory' = With(rest, yield, ids)
  /\ UNCHANGED <<storage, equipment, learned, progress, profession, career>>

ConsumeItem(op, i) ==
  /\ Covers(inventory, Some(i, 1)) /\ Applied(<<"consume", op>>, Some(i, -1))
  /\ inventory' = Without(inventory, Some(i, 1))
  /\ UNCHANGED <<storage, equipment, learned, progress, profession, career>>

Receive(key, bag) ==
  /\ Applied(key, bag)
  /\ \E ids \in NewIds(inventory, bag, Fresh) : inventory' = With(inventory, bag, ids)
  /\ UNCHANGED <<storage, equipment, learned, career>>

(* Every kind of resource and the recipes are rounded down on their own.   *)
Kept(loot, percent) ==
  LET recipes == SubSeq(loot.recipes, 1, (Len(loot.recipes) * percent) \div 100) IN
  [i \in Item |->
     (loot.resources[i] * percent) \div 100
       + Cardinality({k \in DOMAIN recipes : RecipeItem[recipes[k]] = i})]

CommitLoot(reference, loot, percent) ==
  /\ Receive(<<"extraction", reference>>, Kept(loot, percent))
  /\ UNCHANGED <<progress, profession>>

GrantItem(op, grant) ==
  /\ Receive(<<"admin", op>>, Some(grant.item, grant.quantity))
  /\ UNCHANGED <<progress, profession>>

-----------------------------------------------------------------------------
(* The levels gained are those the experience pays for.                    *)
Price(required, from, to) == SumOver(required, from..(to - 1))
LevelledUp(m, required, limit) ==
  LET reached == {l \in m.level..limit : Price(required, m.level, l) <= m.xp}
      level == CHOOSE l \in reached : \A k \in reached : k <= l
  IN [level |-> level, xp |-> m.xp - Price(required, m.level, level)]

Booked(amount) ==
  ledger' = Append(ledger, [amount |-> amount, balance |-> character.coins + amount])

(* START's reads, and what ends a run whatever its outcome.                *)
EnterRun ==
  /\ fighter = NoFighter /\ fighter' = [level |-> character.level, xp |-> character.xp]
  /\ UNCHANGED <<places, learned, journal, progress, profession, character, ledger>>

LeaveRun ==
  /\ fighter # NoFighter /\ fighter' = NoFighter
  /\ UNCHANGED <<places, learned, journal, progress, profession, character, ledger>>

(* The room levels its copy up and the profile takes the copy's level and  *)
(* experience, whatever it has itself.                                     *)
AwardProgression(reference, reward) ==
  LET earned == [fighter EXCEPT !.xp = @ + reward.xp]
      risen == LevelledUp(earned, LevelXP, earned.level + earned.xp)
  IN
  /\ fighter # NoFighter /\ fighter' = risen
  /\ Applied(<<"encounter", reference>>, Nothing)
  /\ Booked(reward.coins)
  /\ character' = [level |-> risen.level, xp |-> risen.xp, coins |-> character.coins + reward.coins]
  /\ UNCHANGED <<places, learned, progress, profession>>

GrantCoins(op, amount) ==
  /\ Applied(<<"admin", op>>, Nothing) /\ Booked(amount)
  /\ character' = [character EXCEPT !.coins = @ + amount]
  /\ UNCHANGED <<places, learned, progress, profession, fighter>>

SetLevel(op, level) ==
  /\ Applied(<<"admin", op>>, Nothing)
  /\ character' = [character EXCEPT !.level = level, !.xp = 0]
  /\ UNCHANGED <<places, learned, progress, profession, ledger, fighter>>

-----------------------------------------------------------------------------
PrerequisiteMet(r) ==
  Prerequisite[r] # NoRift =>
    LET first == progress[Prerequisite[r].rift] IN
    first # NoProgress /\ first.completed >= Prerequisite[r].floor

Current(r) ==
  IF progress[r] # NoProgress THEN progress[r]
  ELSE [unlocked |-> IF PrerequisiteMet(r) THEN 1 ELSE 0, completed |-> 0]

MayComplete(rift, floor) == floor \in 1..Floors[rift] /\ floor <= Current(rift).unlocked

Larger(a, b) == IF a >= b THEN a ELSE b
Smaller(a, b) == IF a <= b THEN a ELSE b

CompleteRiftFloor(op, rift, floor) ==
  /\ MayComplete(rift, floor) /\ Applied(<<"rift", op>>, Nothing)
  /\ progress' = [r \in Rift |->
       CASE r = rift ->
              [unlocked |-> Larger(Current(r).unlocked, Smaller(Floors[r], floor + 1)),
               completed |-> Larger(Current(r).completed, floor)]
         [] r # rift /\ Prerequisite[r] # NoRift /\ Prerequisite[r].rift = rift
              /\ Prerequisite[r].floor <= floor ->
              IF progress[r] = NoProgress THEN [unlocked |-> 1, completed |-> 0]
              ELSE [progress[r] EXCEPT !.unlocked = Larger(1, @)]
         [] OTHER -> progress[r]]
  /\ UNCHANGED <<places, learned, profession, career>>

ResetRift(op) ==
  /\ Applied(<<"admin", op>>, Nothing)
  /\ progress' = [r \in Rift |->
       IF r = FirstRift THEN [unlocked |-> 1, completed |-> 0] ELSE NoProgress]
  /\ UNCHANGED <<places, learned, profession, career>>

-----------------------------------------------------------------------------
(* The profession jobs, under the client's operation id alone.             *)
ActivityUnlocked(a) ==
  /\ mastery.level >= Mastery[a]
  /\ RiftNeeded[a] # NoRift =>
       LET needed == progress[RiftNeeded[a].rift] IN
       /\ PrerequisiteMet(RiftNeeded[a].rift)
       /\ needed # NoProgress /\ needed.unlocked >= RiftNeeded[a].floor

Ask(kind, op) ==
  /\ Cardinality(requests) < MaxRequests
  /\ requests' = requests \cup {[kind |-> kind, op |-> op, at |-> now]}
  /\ UNCHANGED <<places, learned, journal, progress, mastery, jobs, now, career>>

(* Its transaction may also refuse it, and the request ends as well.       *)
Answer(request) == request \in requests /\ requests' = requests \ {request}

StartJob(request, a, duration, quantity) ==
  /\ Answer(request) /\ request.kind = "start"
  /\ ActivityUnlocked(a) /\ Active = {} /\ Applied(<<"job", request.op>>, Nothing)
  /\ jobs' = Append(jobs, [activity |-> a, quantity |-> quantity,
                           completesAt |-> request.at + duration, status |-> "ACTIVE"])
  /\ UNCHANGED <<places, learned, progress, mastery, now, career>>

CancelJob(request, j) ==
  /\ Answer(request) /\ request.kind = "cancel"
  /\ j \in Active /\ request.at < jobs[j].completesAt /\ Applied(<<"job", request.op>>, Nothing)
  /\ jobs' = [jobs EXCEPT ![j].status = "CANCELLED"]
  /\ UNCHANGED <<places, learned, progress, mastery, now, career>>

Collected(job) == [job EXCEPT !.status = "COLLECTED"]

CollectJob(request, j) ==
  /\ Answer(request) /\ request.kind = "collect"
  /\ j \in Active /\ request.at >= jobs[j].completesAt
  /\ Receive(<<"job", request.op>>, Some(Resource[jobs[j].activity], jobs[j].quantity))
  /\ jobs' = [jobs EXCEPT ![j] = Collected(@)]
  /\ mastery' = LevelledUp([mastery EXCEPT !.xp = @ + JobXP[jobs[j].activity]],
                           XPRequired, MaxMastery)
  /\ UNCHANGED <<progress, now>>

RefuseJob(request) ==
  /\ Answer(request) /\ UNCHANGED <<places, learned, journal, progress, mastery, jobs, now, career>>

TimePasses == now' = now + 1 /\ UNCHANGED <<places, learned, journal, progress, mastery, jobs, requests, career>>

ProfileNext ==
  \/ \E op \in OperationId :
       \/ \E e \in EntryId, slot \in Slot : Equip(op, e, slot)
       \/ \E slot \in Slot : Unequip(op, slot)
       \/ \E toStorage \in BOOLEAN : \E e \in Held(Source(toStorage)) :
            \E quantity \in 1..Source(toStorage)[e].quantity : Move(op, toStorage, e, quantity)
       \/ \E recipe \in Recipe : LearnRecipe(op, recipe) \/ Craft(op, recipe)
       \/ \E i \in Stackable : ConsumeItem(op, i)
       \/ \E loot \in Loot, percent \in Retained : CommitLoot(op, loot, percent)
       \/ \E grant \in Grants : GrantItem(op, grant)
       \/ \E rift \in Rift : \E floor \in 1..Floors[rift] : CompleteRiftFloor(op, rift, floor)
       \/ ResetRift(op)
       \/ \E reward \in Rewards : AwardProgression(op, reward)
       \/ \E amount \in Amounts : GrantCoins(op, amount)
       \/ \E level \in Levels : SetLevel(op, level)
       \/ \E kind \in {"start", "cancel", "collect"} : Ask(kind, op)
  \/ \E request \in requests :
       \/ \E a \in Activity, duration \in Duration, quantity \in Quantity :
            StartJob(request, a, duration, quantity)
       \/ \E j \in DOMAIN jobs : CancelJob(request, j) \/ CollectJob(request, j)
       \/ RefuseJob(request)
  \/ EnterRun
  \/ LeaveRun
  \/ TimePasses

ProfileSpec == ProfileInit /\ [][ProfileNext]_profileVars

-----------------------------------------------------------------------------
(* Type correctness.                                                       *)
ProfileTypeOK ==
  /\ {inventory, storage} \subseteq [EntryId -> Entry \cup {NoEntry}]
  /\ equipment \in [Slot -> Worn \cup {NoEntry}]
  /\ learned \subseteq Recipe
  /\ \A key \in DOMAIN journal : journal[key] \in [Item -> Int]
  /\ progress \in [Rift -> Progress \cup {NoProgress}]
  /\ mastery \in [level : 1..MaxMastery, xp : Nat]
  /\ jobs \in Seq(Job)
  /\ requests \subseteq [kind : {"start", "cancel", "collect"}, op : OperationId, at : Nat]
  /\ now \in Nat
  /\ character \in [level : Nat \ {0}, xp : Nat, coins : Nat]
  /\ ledger \in Seq([amount : Nat, balance : Nat])
  /\ fighter \in [level : Nat \ {0}, xp : Nat] \cup {NoFighter}

(* However equipping, moving, crafting, looting, gathering and granting    *)
(* follow each other, retries included: what is in the inventory, the      *)
(* storage and the slots is what the applied operations add up to, each    *)
(* counted once; no entry is in two places, no slot holds what it cannot,  *)
(* and a stackable item has one stack in each place.  Each row of the coin *)
(* ledger leads from the balance before it to its own, the last to the     *)
(* wallet, and experience that pays for a level has become one.            *)
Pieces(i) ==
  Count(inventory, i) + Count(storage, i)
    + Cardinality({s \in Slot : equipment[s] # NoEntry /\ equipment[s].item = i})
Journalled(i) == SumOver([key \in DOMAIN journal |-> journal[key][i]], DOMAIN journal)

Balance(n) == IF n = 0 THEN InitialCharacter.coins ELSE ledger[n].balance

GoodsReconcile ==
  /\ \A i \in Item : Pieces(i) = Count(InitialInventory, i) + Journalled(i)
  /\ Held(inventory) \cap Held(storage) = {}
  /\ \A s \in Slot : equipment[s] # NoEntry =>
       /\ s \in SlotsOf[equipment[s].item]
       /\ equipment[s].id \notin Held(inventory) \cup Held(storage)
       /\ \A t \in Slot \ {s} : equipment[t] # NoEntry => equipment[t].id # equipment[s].id
  /\ \A i \in Item : \A place \in {inventory, storage} : Cardinality(StackIn(place, i)) <= 1
  /\ \A n \in DOMAIN ledger : Balance(n) = Balance(n - 1) + ledger[n].amount
  /\ character.coins = Balance(Len(ledger)) /\ character.xp < LevelXP[character.level]

(* Floors are unlocked one at a time and in order, and a rift only after   *)
(* the floor it requires, whatever is completed again, late, or after an   *)
(* administrator's reset.                                                  *)
RiftsOpenInOrder ==
  \A r \in Rift : progress[r] # NoProgress =>
    /\ PrerequisiteMet(r)
    /\ progress[r].unlocked = Smaller(Floors[r], progress[r].completed + 1)

(* There is at most one active job, and a job that has ended stays as it   *)
(* is: it is never paid out again, nor cancelled after it was.  It is paid *)
(* out when its time is over, and only then does the mastery rise.         *)
JobStep ==
  /\ Cardinality(Active) <= 1
  /\ \A j \in DOMAIN jobs :
       /\ jobs[j].status # "ACTIVE" => jobs'[j] = jobs[j]
       /\ jobs'[j].status = "COLLECTED" /\ jobs[j].status = "ACTIVE" =>
            now >= jobs[j].completesAt
  /\ mastery'.level >= mastery.level
  /\ mastery' # mastery =>
       \E j \in DOMAIN jobs : jobs[j].status = "ACTIVE" /\ jobs'[j].status = "COLLECTED"
  /\ mastery'.level < MaxMastery => mastery'.xp < XPRequired[mastery'.level]

(* Every step keeps jobs single and final: a job ends once, is paid out    *)
(* only when its time is over, and mastery rises with a collection only.   *)
JobsEndOnce == [][JobStep]_profileVars

=============================================================================
