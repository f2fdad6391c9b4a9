----------------------------- MODULE RiftProofs -----------------------------
(***************************************************************************)
(* For every party, every number of encounters and every choice of failing *)
(* calls: a run ends in one way.  One handler decides the end, the durable *)
(* outcome agrees with the loot, progress is earned in order by the whole  *)
(* party, and a recorded outcome is final.                                 *)
(***************************************************************************)
EXTENDS RiftExpedition, TLAPS

Running == {"COMBAT", "POST_ENCOUNTER"}
Rewarding == {"award", "unlock"}
RoundSteps == {"idle", "fight", "fought", "won"} \cup Rewarding
EndSteps == {"idle", "extract", "finish", "failed"}

(* TypeOK in parts, by what the actions leave unchanged together.          *)
Steps ==
  [at : {"idle", "fight", "fought", "won", "award", "unlock", "extract", "finish", "failed"},
   who : Player \cup {NoOne}, done : SUBSET Player, status : Outcome \cup {"NONE"}]

StepOK(s) == s \in Steps /\ (s.at \in {"award", "unlock", "extract"} => s.who \in Player)

WorkOK == work \in [Handler -> Steps] /\ \A h \in Handler : StepOK(work[h])

FightOK == encounter \in 1 .. Encounters /\ round \in 1 .. MaxRounds[encounter] /\ alive \in SUBSET Player

PeopleOK == members \in SUBSET Player /\ conn \in SUBSET Player /\ late \in SUBSET Player

CombatOK ==
  /\ phase \in Phase /\ recent \in SUBSET Player
  /\ auto \in SUBSET Player /\ asking \in SUBSET Player
  /\ actions \in [Player -> [encounter : 0 .. Encounters, round : Nat]]
  /\ votes \in [Player -> {"NONE", "CONTINUE", "EXIT"}]
  /\ timer \in BOOLEAN /\ openings \in Nat

RetryOK == retry \in [status : Outcome \cup {"NONE"}, left : 0 .. Attempts - 1]

DurableOK ==
  /\ marker \in Outcome \cup {"ACTIVE", "SERVER_INTERRUPTED"}
  /\ awarded \in [Player -> SUBSET (1 .. Encounters)]
  /\ unlocked \in SUBSET Player
  /\ kept \in [Player -> {"NONE", "PART", "ALL"}]

Types == FightOK /\ PeopleOK /\ CombatOK /\ WorkOK /\ RetryOK /\ DurableOK

(* Who may do what in which phase: rounds are resolved in combat, nothing  *)
(* is under way during a vote, and one handler at most ends the run.  The  *)
(* last round of an encounter that is not won leaves nobody alive.         *)
Turns ==
  /\ phase = "COMBAT" =>
       /\ work["vote"].at = "idle" /\ work["expiry"].at = "idle"
       /\ work["round"].at \in RoundSteps
  /\ phase = "POST_ENCOUNTER" => \A h \in Handler : work[h].at = "idle"
  /\ phase \notin Running =>
       /\ \A h \in Handler : work[h].at \in EndSteps
       /\ \A g, h \in Handler : work[g].at # "idle" /\ work[h].at # "idle" => g = h
  /\ work["round"].at = "fought" /\ round = MaxRounds[encounter] => Living = {}

(* The party is complete until the run has ended, and its members have the *)
(* rewards of the encounters they won, those the loops have come to first. *)
Rewarded(p, e) == awarded[p] = 1 .. e

Progress ==
  /\ phase \in Running => members = Player
  /\ \A p \in Player : Rewarded(p, encounter - 1) \/ Rewarded(p, encounter)
  /\ phase = "COMBAT" /\ work["round"].at \notin Rewarding =>
       \A p \in Player : Rewarded(p, encounter - 1)
  /\ work["round"].at = "award" => \A p \in work["round"].done : Rewarded(p, encounter)
  /\ work["round"].at = "unlock" =>
       /\ encounter = Encounters /\ work["round"].done \subseteq unlocked
       /\ \A p \in Player : Rewarded(p, Encounters)
  /\ phase = "POST_ENCOUNTER" =>
       /\ \A p \in Player : Rewarded(p, encounter)
       /\ encounter = Encounters => unlocked = Player
  /\ unlocked # {} => encounter = Encounters /\ \A p \in Player : Rewarded(p, Encounters)

(* What an outcome says of the loot that has been kept and of the floor.   *)
Agrees(status) ==
  /\ status = "FAILED" => \A p \in Player : kept[p] # "ALL"
  /\ status \in {"COMPLETED", "EXITED"} => \A p \in Player : kept[p] # "PART"
  /\ status = "COMPLETED" => unlocked = Player

(* The outcome being settled, the one to be reported again and the one     *)
(* reported each agree with the loot; only a settled run has loot, and     *)
(* what has been reported is settled by nobody any more.                   *)
Settling(h) == work[h].at \in {"extract", "finish", "failed"}

Verdicts ==
  /\ \A h \in Handler : Settling(h) => work[h].status \in Outcome /\ Agrees(work[h].status)
  /\ Settling("round") => work["round"].status = "FAILED"
  /\ \A h \in Handler : work[h].status # "FAILED" =>
       /\ work[h].at = "extract" => \A p \in work[h].done : kept[p] = "ALL"
       /\ work[h].at = "finish" => \A p \in members : kept[p] = "ALL"
  /\ phase \in Running => \A p \in Player : kept[p] = "NONE"
  /\ retry.left > 0 => retry.status \in Outcome
  /\ Agrees(retry.status) /\ Agrees(marker)
  /\ marker # "ACTIVE" \/ retry.left > 0 \/ retry.status # "NONE" =>
       phase = "GONE" /\ \A h \in Handler : work[h].at = "idle"

Sound == Types /\ Turns /\ Progress /\ Verdicts

-----------------------------------------------------------------------------
LEMMA TypesAreTypeOK == Types => TypeOK
BY DEF Types, TypeOK, FightOK, PeopleOK, CombatOK, WorkOK, RetryOK, DurableOK, StepOK, Steps

LEMMA StepIsOK ==
  ASSUME NEW at \in {"idle", "fight", "fought", "won", "award", "unlock", "extract", "finish", "failed"},
         NEW who \in Player \cup {NoOne}, NEW done \in SUBSET Player,
         NEW status \in Outcome \cup {"NONE"},
         at \in {"award", "unlock", "extract"} => who \in Player
  PROVE  StepOK(Step(at, who, done, status))
BY DEF StepOK, Steps, Step

LEMMA IdleIsOK == StepOK(Idle) /\ Idle.at = "idle"
BY StepIsOK DEF Idle, Step

(* A handler goes on to a step of its own; the others stay where they are. *)
LEMMA DoWork ==
  ASSUME WorkOK, NEW h \in Handler, NEW s, StepOK(s), Do(h, s)
  PROVE  /\ WorkOK' /\ work'[h] = s
         /\ \A g \in Handler \ {h} : work'[g] = work[g]
BY DEF WorkOK, StepOK, Do

(* A loop visits a member that it has not come to, or is over.             *)
LEMMA VisitStep ==
  ASSUME WorkOK, PeopleOK, NEW h \in Handler, NEW at \in {"award", "unlock", "extract"},
         NEW done \in SUBSET Player, NEW status \in Outcome \cup {"NONE"},
         NEW after, StepOK(after), Visit(h, at, done, status, after)
  PROVE  /\ WorkOK'
         /\ \A g \in Handler \ {h} : work'[g] = work[g]
         /\ \/ \E p \in members \ done : work'[h] = Step(at, p, done, status)
            \/ members \subseteq done /\ work'[h] = after
<1>1. ASSUME NEW p \in members \ done, Do(h, Step(at, p, done, status))
      PROVE  WorkOK' /\ work'[h] = Step(at, p, done, status)
             /\ \A g \in Handler \ {h} : work'[g] = work[g]
  <2>1. StepOK(Step(at, p, done, status))
    BY StepIsOK DEF PeopleOK
  <2> QED  BY <1>1, <2>1, DoWork
<1>2. ASSUME members \ done = {}, Do(h, after)
      PROVE  WorkOK' /\ work'[h] = after /\ \A g \in Handler \ {h} : work'[g] = work[g]
  BY <1>2, DoWork
<1> QED
  BY <1>1, <1>2 DEF Visit

(* The end of combat and the deletion of the room keep their types.        *)
LEMMA EndCombatTypes ==
  ASSUME NEW next \in Phase, EndCombat(next)
  PROVE  CombatOK' /\ phase' = next
<1>1. NoAction \in [encounter : 0 .. Encounters, round : Nat]
  BY BoundsAssumption DEF NoAction
<1>2. NoActions \in [Player -> [encounter : 0 .. Encounters, round : Nat]]
  BY <1>1 DEF NoActions
<1>3. NoVotes \in [Player -> {"NONE", "CONTINUE", "EXIT"}]
  BY DEF NoVotes
<1> QED
  BY <1>2, <1>3 DEF EndCombat, CombatOK

LEMMA DeleteRoomTypes ==
  ASSUME DeleteRoom
  PROVE  CombatOK' /\ PeopleOK' /\ phase' = "GONE" /\ members' = {}
BY EndCombatTypes DEF DeleteRoom, PeopleOK, Phase

LEMMA AllIdle ==
  ASSUME work' = [h \in Handler |-> Idle]
  PROVE  WorkOK' /\ \A h \in Handler : work'[h].at = "idle"
BY IdleIsOK DEF WorkOK, StepOK

LEMMA ActionsAreTyped ==
  ASSUME FightOK, CombatOK
  PROVE  /\ NoActions \in [Player -> [encounter : 0 .. Encounters, round : Nat]]
         /\ ActionOfNow \in [encounter : 0 .. Encounters, round : Nat]
<1>1. NoAction \in [encounter : 0 .. Encounters, round : Nat]
  BY BoundsAssumption DEF NoAction
<1>2. encounter \in 0 .. Encounters /\ round \in Nat
  BY BoundsAssumption DEF FightOK
<1> QED
  BY <1>1, <1>2 DEF NoActions, ActionOfNow

-----------------------------------------------------------------------------
(* Steps that leave alone what the invariant is about.                     *)
LEMMA Quiet ==
  ASSUME Turns, Progress, Verdicts,
         UNCHANGED <<phase, fight, members, work, retry, durable>>
  PROVE  Turns' /\ Progress' /\ Verdicts'
<1>1. Turns'
  BY DEF Turns, fight, Living
<1>2. Progress'
  BY DEF Progress, Rewarded, fight, durable
<1>3. Verdicts'
  BY DEF Verdicts, Agrees, Settling, fight, durable
<1> QED
  BY <1>1, <1>2, <1>3

LEMMA OpenRoundStep ==
  ASSUME Sound, OpenRound
  PROVE  Sound'
<1>1. FightOK /\ PeopleOK /\ CombatOK /\ WorkOK /\ RetryOK /\ DurableOK
  BY DEF Sound, Types
<1>2. UNCHANGED <<phase, fight, people, work, retry, durable>>
  BY DEF OpenRound
<1>3. CombatOK'
  BY <1>1, ActionsAreTyped DEF OpenRound, StartRound, CombatOK
<1>4. FightOK' /\ PeopleOK' /\ WorkOK' /\ RetryOK' /\ DurableOK'
  BY <1>1, <1>2 DEF FightOK, PeopleOK, WorkOK, RetryOK, DurableOK, fight, people, durable
<1> QED
  BY <1>2, <1>3, <1>4, Quiet DEF Sound, Types, people

LEMMA PlayersAct ==
  ASSUME Sound, NEW p \in Player,
         SubmitAction(p) \/ (\E enabled \in BOOLEAN : SetAutoBattle(p, enabled)) \/ Disconnect(p)
  PROVE  Sound'
<1>1. FightOK /\ PeopleOK /\ CombatOK /\ WorkOK /\ RetryOK /\ DurableOK
  BY DEF Sound, Types
<1>2. UNCHANGED <<phase, fight, members, late, work, retry, durable>>
  BY DEF SubmitAction, SetAutoBattle, Disconnect, people
<1>3. CombatOK' /\ PeopleOK'
  <2>1. CASE SubmitAction(p)
    BY <2>1, <1>1, ActionsAreTyped DEF SubmitAction, CombatOK, PeopleOK, people
  <2>2. CASE \E enabled \in BOOLEAN : SetAutoBattle(p, enabled)
    BY <2>2, <1>1 DEF SetAutoBattle, CombatOK, PeopleOK, people
  <2>3. CASE Disconnect(p)
    BY <2>3, <1>1 DEF Disconnect, CombatOK, PeopleOK
  <2> QED  BY <2>1, <2>2, <2>3
<1>4. FightOK' /\ WorkOK' /\ RetryOK' /\ DurableOK'
  BY <1>1, <1>2 DEF FightOK, WorkOK, RetryOK, DurableOK, fight, durable
<1> QED
  BY <1>2, <1>3, <1>4, Quiet DEF Sound, Types

-----------------------------------------------------------------------------
(* A round is resolved in combat, while nothing else is under way, until   *)
(* nobody is left, the next round starts or the rewards begin.             *)
LEMMA InCombat ==
  ASSUME Sound, phase = "COMBAT"
  PROVE  /\ work["round"].at \in RoundSteps /\ work["vote"].at = "idle" /\ work["expiry"].at = "idle"
         /\ members = Player /\ \A p \in Player : kept[p] = "NONE"
         /\ marker = "ACTIVE" /\ ~ (retry.left > 0) /\ retry.status = "NONE"
BY DEF Sound, Turns, Progress, Verdicts, Running

LEMMA FightingIsCombat ==
  ASSUME Sound, work["round"].at \in {"fight", "fought", "won", "award", "unlock"}
  PROVE  phase = "COMBAT"
<1>1. phase \in Phase
  BY DEF Sound, Types, CombatOK
<1>2. "round" \in Handler
  BY DEF Handler
<1> QED
  BY <1>1, <1>2 DEF Sound, Turns, Running, Phase, EndSteps

(* The round goes on in combat without a change of the rewards.            *)
LEMMA RoundGoesOn ==
  ASSUME Sound, phase = "COMBAT", work["round"].at \notin Rewarding, WorkOK',
         work'["round"].at \in {"idle", "fight", "fought", "won"},
         \A g \in Handler \ {"round"} : work'[g] = work[g],
         work'["round"].at = "fought" /\ round' = MaxRounds[encounter] => Living' = {},
         UNCHANGED <<phase, encounter, members, retry, durable>>
  PROVE  Turns' /\ Progress' /\ Verdicts'
<1>1. Turns'
  BY InCombat DEF Turns, Running, RoundSteps, Handler
<1>2. Progress'
  BY InCombat DEF Sound, Progress, Rewarded, Rewarding, durable
<1>3. Verdicts'
  BY InCombat DEF Sound, Verdicts, Agrees, Settling, durable, Handler, Running
<1> QED
  BY <1>1, <1>2, <1>3

LEMMA BeginRoundStep ==
  ASSUME Sound, BeginRound,
         UNCHANGED <<phase, recent, auto, actions, votes, openings, fight, people, retry, durable>>,
         asking' \in SUBSET Player
  PROVE  Sound'
<1>1. "round" \in Handler /\ WorkOK /\ CombatOK
  BY DEF Sound, Types, Handler
<1>2. Attackers \in SUBSET Player /\ NoOne \in Player \cup {NoOne}
  BY DEF Attackers, Living, Sound, Types, PeopleOK
<1>3. StepOK(Step("fight", NoOne, Attackers, "NONE"))
  BY <1>2, StepIsOK
<1>4. /\ WorkOK' /\ work'["round"] = Step("fight", NoOne, Attackers, "NONE")
      /\ \A g \in Handler \ {"round"} : work'[g] = work[g]
  BY <1>1, <1>3, DoWork DEF BeginRound
<1>5. work["round"].at = "idle" /\ phase = "COMBAT" /\ work'["round"].at = "fight"
  BY <1>4 DEF BeginRound, Resolving, Step
<1>6. Turns' /\ Progress' /\ Verdicts'
  BY <1>4, <1>5, RoundGoesOn DEF fight, people, Rewarding
<1>7. CombatOK'
  BY <1>1 DEF BeginRound, CombatOK
<1>8. FightOK' /\ PeopleOK' /\ RetryOK' /\ DurableOK'
  BY DEF Sound, Types, FightOK, PeopleOK, RetryOK, DurableOK, fight, people, durable
<1> QED
  BY <1>4, <1>6, <1>7, <1>8 DEF Sound, Types

LEMMA TriggersStep ==
  ASSUME Sound, RoundTimer \/ \E p \in Player : ResolveEarly(p)
  PROVE  Sound'
<1>0. CombatOK /\ asking \in SUBSET Player
  BY DEF Sound, Types, CombatOK
<1>1. UNCHANGED <<phase, recent, auto, actions, votes, openings, fight, people, retry, durable>>
  BY DEF RoundTimer, ResolveEarly
<1>2. asking' \in SUBSET Player
  BY <1>0 DEF RoundTimer, ResolveEarly
<1>3. CASE BeginRound
  BY <1>1, <1>2, <1>3, BeginRoundStep
<1>4. CASE work' = work /\ timer' \in BOOLEAN
  <2>1. Turns' /\ Progress' /\ Verdicts'
    BY <1>1, <1>4, Quiet DEF Sound, people
  <2>2. Types'
    BY <1>0, <1>1, <1>2, <1>4
    DEF Sound, Types, FightOK, PeopleOK, WorkOK, CombatOK, RetryOK, DurableOK, fight, people, durable
  <2> QED  BY <2>1, <2>2 DEF Sound
<1>5. BeginRound \/ (work' = work /\ timer' \in BOOLEAN)
  BY <1>0 DEF RoundTimer, ResolveEarly, CombatOK
<1> QED
  BY <1>3, <1>4, <1>5

(* A round's loop over the party visits the next member, or is over.       *)
LEMMA RoundVisit ==
  ASSUME WorkOK, PeopleOK, NEW at \in Rewarding, NEW done \in SUBSET Player,
         Visit("round", at, done, "NONE", Idle)
  PROVE  /\ WorkOK' /\ \A g \in Handler \ {"round"} : work'[g] = work[g]
         /\ ~ (members \subseteq done) => work'["round"].at = at /\ work'["round"].done = done
<1>1. /\ "round" \in Handler /\ at \in {"award", "unlock", "extract"}
      /\ "NONE" \in Outcome \cup {"NONE"} /\ StepOK(Idle)
  BY IdleIsOK DEF Handler, Rewarding
<1>2. ASSUME NEW p \in members \ done, Do("round", Step(at, p, done, "NONE"))
      PROVE  /\ WorkOK' /\ \A g \in Handler \ {"round"} : work'[g] = work[g]
             /\ work'["round"].at = at /\ work'["round"].done = done
  <2> DEFINE s == Step(at, p, done, "NONE")
  <2>1. StepOK(s)
    BY <1>1, StepIsOK DEF PeopleOK
  <2>2. s.at = at /\ s.done = done
    BY DEF Step
  <2> HIDE DEF s
  <2> QED  BY <1>1, <1>2, <2>1, <2>2, DoWork DEF s
<1>3. ASSUME members \subseteq done, Do("round", Idle)
      PROVE  WorkOK' /\ \A g \in Handler \ {"round"} : work'[g] = work[g]
  BY <1>1, <1>3, DoWork
<1> QED
  BY <1>2, <1>3 DEF Visit

-----------------------------------------------------------------------------
(* A run that ends: the handler h has come to the extraction of the loot   *)
(* with an outcome, and nothing has been kept yet.                         *)
LEMMA SettleStep ==
  ASSUME Types, Turns, Progress, Verdicts, phase \in Running, NEW h \in Handler,
         \A g \in Handler \ {h} : work[g].at = "idle",
         NEW status \in Outcome, NEW next \in {"FINISHED", "FAILED"},
         h = "round" => status = "FAILED",
         status = "COMPLETED" => unlocked = Player,
         EndCombat(next), ExtractLoot(h, status),
         UNCHANGED <<fight, members, retry, durable>>
  PROVE  WorkOK' /\ CombatOK' /\ Turns' /\ Progress' /\ Verdicts'
<1>0. WorkOK /\ PeopleOK /\ members \in SUBSET Player
  BY DEF Types, PeopleOK
<1>1. CombatOK' /\ phase' = next
  BY EndCombatTypes DEF Phase
<1>2. StepOK(Step("finish", NoOne, {}, status))
  BY StepIsOK
<1>3. /\ Visit(h, "extract", {}, status, Step("finish", NoOne, {}, status))
      /\ "extract" \in {"award", "unlock", "extract"} /\ {} \in SUBSET Player
      /\ status \in Outcome \cup {"NONE"}
  BY DEF ExtractLoot
<1>4. /\ WorkOK' /\ \A g \in Handler \ {h} : work'[g] = work[g]
      /\ \/ \E p \in members \ {} : work'[h] = Step("extract", p, {}, status)
         \/ members \subseteq {} /\ work'[h] = Step("finish", NoOne, {}, status)
  <2> DEFINE after == Step("finish", NoOne, {}, status)
  <2> HIDE DEF after
  <2> QED  BY <1>0, <1>2, <1>3, VisitStep DEF after
<1>5. /\ work'[h].at \in {"extract", "finish"} /\ work'[h].status = status
      /\ work'[h].done = {} /\ (work'[h].at = "finish" => members = {})
  <2>1. CASE \E p \in members \ {} : work'[h] = Step("extract", p, {}, status)
    BY <2>1 DEF Step
  <2>2. CASE members \subseteq {} /\ work'[h] = Step("finish", NoOne, {}, status)
    BY <2>2 DEF Step
  <2> QED  BY <1>4, <2>1, <2>2
<1>6. \A g \in Handler \ {h} : work'[g].at = "idle"
  BY <1>4
<1>7. Turns'
  BY <1>1, <1>5, <1>6 DEF Turns, Running, EndSteps, Handler
<1>8. Progress'
  BY <1>1, <1>5, <1>6 DEF Progress, Rewarded, Running, Handler, fight, durable
<1>9. Verdicts'
  <2>1. \A p \in Player : kept'[p] = "NONE"
    BY DEF Verdicts, durable
  <2>2. Agrees(status)'
    BY <2>1 DEF Agrees, durable
  <2>3. /\ retry.status = "NONE" /\ ~ (retry.left > 0) /\ marker = "ACTIVE"
        /\ retry' = retry /\ marker' = marker
    BY DEF Verdicts, Running, durable
  <2>4. Agrees("NONE")' /\ Agrees("ACTIVE")'
    BY DEF Agrees
  <2>5. members' = members
    OBVIOUS
  <2> QED
    BY <1>1, <1>5, <1>6, <2>2, <2>3, <2>4, <2>5 DEF Verdicts, Settling, Running, Handler, Agrees
<1> QED
  BY <1>1, <1>4, <1>7, <1>8, <1>9

(* A round that throws: the run has failed and is about to be reported.    *)
LEMMA CatchStep ==
  ASSUME Types, Catch,
         work["vote"].at = "idle", work["expiry"].at = "idle",
         marker = "ACTIVE", ~ (retry.left > 0), retry.status = "NONE",
         \A p \in Player : kept'[p] # "ALL",
         \A p \in Player : Rewarded(p, encounter - 1)' \/ Rewarded(p, encounter)',
         unlocked' # {} => encounter = Encounters /\ \A p \in Player : Rewarded(p, Encounters)',
         UNCHANGED <<encounter, members, retry, marker>>
  PROVE  WorkOK' /\ CombatOK' /\ Turns' /\ Progress' /\ Verdicts'
<1> DEFINE last == Step("finish", NoOne, {}, "FAILED")
<1>1. CombatOK' /\ phase' = "FAILED"
  BY EndCombatTypes DEF Phase, Catch
<1>2. StepOK(last) /\ last.at = "finish" /\ last.status = "FAILED"
  BY StepIsOK DEF Step, Outcome
<1>3. WorkOK /\ "round" \in Handler /\ Do("round", last)
  BY DEF Types, Handler, Catch
<1> HIDE DEF last
<1>4. WorkOK' /\ work'["round"] = last /\ \A g \in Handler \ {"round"} : work'[g] = work[g]
  BY <1>2, <1>3, DoWork
<1>5. \A g \in Handler \ {"round"} : work'[g].at = "idle"
  BY <1>4 DEF Handler
<1>6. Turns'
  BY <1>1, <1>2, <1>4, <1>5 DEF Turns, Running, EndSteps, Handler
<1>7. Progress'
  BY <1>1, <1>2, <1>4 DEF Progress, Rewarded, Running
<1>8. Verdicts'
  <2>1. Agrees("FAILED")' /\ Agrees("NONE")' /\ Agrees("ACTIVE")'
    BY DEF Agrees
  <2> QED
    BY <1>1, <1>2, <1>4, <1>5, <2>1 DEF Verdicts, Settling, Running, Handler, Agrees, Outcome
<1> QED
  BY <1>1, <1>4, <1>6, <1>7, <1>8

LEMMA FightStep ==
  ASSUME Sound, Fight
  PROVE  Sound'
<1>0. /\ phase = "COMBAT" /\ "round" \in Handler
      /\ WorkOK /\ PeopleOK /\ CombatOK /\ FightOK /\ RetryOK /\ DurableOK /\ work["round"].at = "fight"
  BY FightingIsCombat DEF Fight, Sound, Types, Handler
<1>1. CASE /\ Do("round", Step("won", NoOne, {}, "NONE")) /\ UNCHANGED <<alive, combat>>
  <2>1. StepOK(Step("won", NoOne, {}, "NONE")) /\ Step("won", NoOne, {}, "NONE").at = "won"
    BY StepIsOK DEF Step
  <2>2. WorkOK' /\ work'["round"].at = "won" /\ \A g \in Handler \ {"round"} : work'[g] = work[g]
    BY <1>0, <1>1, <2>1, DoWork
  <2>3. Turns' /\ Progress' /\ Verdicts'
    BY <1>0, <1>1, <2>2, RoundGoesOn DEF Fight, combat, people, Rewarding
  <2> QED
    BY <1>0, <1>1, <2>2, <2>3
    DEF Fight, Sound, Types, FightOK, PeopleOK, CombatOK, RetryOK, DurableOK, combat, people, durable
<1>2. ASSUME NEW hit \in SUBSET Living, round = MaxRounds[encounter] => hit = Living,
             alive' = alive \ hit, Do("round", Step("fought", NoOne, {}, "NONE")), UNCHANGED combat
      PROVE  Sound'
  <2>1. StepOK(Step("fought", NoOne, {}, "NONE")) /\ Step("fought", NoOne, {}, "NONE").at = "fought"
    BY StepIsOK DEF Step
  <2>2. WorkOK' /\ work'["round"].at = "fought" /\ \A g \in Handler \ {"round"} : work'[g] = work[g]
    BY <1>0, <1>2, <2>1, DoWork
  <2>3. round' = MaxRounds[encounter] => Living' = {}
    BY <1>2 DEF Fight, Living, people
  <2>4. Turns' /\ Progress' /\ Verdicts'
    BY <1>0, <1>2, <2>2, <2>3, RoundGoesOn DEF Fight, combat, people, Rewarding
  <2> QED
    BY <1>0, <1>2, <2>2, <2>4
    DEF Fight, Sound, Types, FightOK, PeopleOK, CombatOK, RetryOK, DurableOK, combat, people, durable
<1>3. CASE Catch /\ UNCHANGED alive
  <2>1. \A p \in Player : kept'[p] # "ALL"
    BY <1>0, InCombat DEF Fight, durable
  <2>2. /\ \A p \in Player : Rewarded(p, encounter - 1)' \/ Rewarded(p, encounter)'
        /\ unlocked' # {} => encounter = Encounters /\ \A p \in Player : Rewarded(p, Encounters)'
    BY DEF Fight, Sound, Progress, Rewarded, durable
  <2>3. WorkOK' /\ CombatOK' /\ Turns' /\ Progress' /\ Verdicts'
    BY <1>0, <1>3, <2>1, <2>2, InCombat, CatchStep DEF Fight, Sound, people, durable
  <2> QED
    BY <1>0, <1>3, <2>3
    DEF Fight, Sound, Types, FightOK, PeopleOK, RetryOK, DurableOK, people, durable
<1> QED
  BY <1>1, <1>2, <1>3 DEF Fight

LEMMA RoundLostStep ==
  ASSUME Sound, RoundLost
  PROVE  Sound'
<1>1. phase = "COMBAT" /\ phase \in Running /\ "round" \in Handler
  BY FightingIsCombat DEF RoundLost, Running, Handler
<1>2. \A g \in Handler \ {"round"} : work[g].at = "idle"
  BY <1>1, InCombat DEF Handler
<1>3. "FAILED" \in Outcome /\ "FAILED" \in {"FINISHED", "FAILED"}
  BY DEF Outcome
<1>4. WorkOK' /\ CombatOK' /\ Turns' /\ Progress' /\ Verdicts'
  BY <1>1, <1>2, <1>3, SettleStep DEF RoundLost, Sound, people
<1> QED
  BY <1>4 DEF RoundLost, Sound, Types, FightOK, PeopleOK, RetryOK, DurableOK, fight, people, durable

LEMMA NextRoundStep ==
  ASSUME Sound, NextRound
  PROVE  Sound'
<1>0. /\ phase = "COMBAT" /\ "round" \in Handler /\ work["round"].at = "fought"
      /\ WorkOK /\ PeopleOK /\ CombatOK /\ FightOK /\ RetryOK /\ DurableOK
  BY FightingIsCombat DEF NextRound, Sound, Types, Handler
<1>1. WorkOK' /\ work'["round"] = Idle /\ \A g \in Handler \ {"round"} : work'[g] = work[g]
  BY <1>0, IdleIsOK, DoWork DEF NextRound
<1>2. work'["round"].at = "idle"
  BY <1>1, IdleIsOK
<1>3. Turns' /\ Progress' /\ Verdicts'
  BY <1>0, <1>1, <1>2, RoundGoesOn DEF NextRound, people, Rewarding
<1>4. FightOK'
  <2>1. round # MaxRounds[encounter]
    BY <1>0 DEF Sound, Turns, NextRound
  <2>2. MaxRounds[encounter] \in Nat
    BY <1>0, BoundsAssumption DEF FightOK
  <2> QED  BY <1>0, <2>1, <2>2 DEF FightOK, NextRound
<1>5. CombatOK'
  BY <1>0, ActionsAreTyped DEF NextRound, StartRound, CombatOK
<1> QED
  BY <1>0, <1>1, <1>3, <1>4, <1>5 DEF NextRound, Sound, Types, PeopleOK, RetryOK, DurableOK, people, durable

-----------------------------------------------------------------------------
(* The loops over the party after a victory, and the vote they end in.     *)
LEMMA LoopStep ==
  ASSUME Sound, phase = "COMBAT", WorkOK', work'["round"].at \in Rewarding,
         \A g \in Handler \ {"round"} : work'[g] = work[g],
         \A p \in Player : Rewarded(p, encounter - 1)' \/ Rewarded(p, encounter)',
         work'["round"].at = "award" => \A p \in work'["round"].done : Rewarded(p, encounter)',
         work'["round"].at = "unlock" =>
           /\ encounter = Encounters /\ work'["round"].done \subseteq unlocked'
           /\ \A p \in Player : Rewarded(p, Encounters)',
         unlocked' # {} => encounter = Encounters /\ \A p \in Player : Rewarded(p, Encounters)',
         UNCHANGED <<phase, encounter, members, retry, marker, kept>>
  PROVE  Turns' /\ Progress' /\ Verdicts'
<1>1. Turns'
  BY InCombat DEF Turns, Running, RoundSteps, Handler, Rewarding
<1>2. Progress'
  BY InCombat DEF Progress, Rewarded, Rewarding
<1>3. Verdicts'
  BY InCombat DEF Verdicts, Agrees, Settling, Handler, Running, Rewarding
<1> QED
  BY <1>1, <1>2, <1>3

LEMMA OpenVoteStep ==
  ASSUME Sound, phase = "COMBAT", OpenVote,
         \A p \in Player : Rewarded(p, encounter)',
         encounter = Encounters => unlocked' = Player,
         unlocked' # {} => encounter = Encounters,
         UNCHANGED <<encounter, members, retry, marker, kept>>
  PROVE  WorkOK' /\ CombatOK' /\ Turns' /\ Progress' /\ Verdicts'
<1>1. /\ WorkOK' /\ work'["round"].at = "idle" /\ \A g \in Handler \ {"round"} : work'[g] = work[g]
      /\ phase' = "POST_ENCOUNTER"
  BY IdleIsOK, DoWork DEF OpenVote, Sound, Types, Handler
<1>2. CombatOK'
  BY DEF Sound, Types, CombatOK, OpenVote, NoVotes, Phase
<1>3. \A h \in Handler : work'[h].at = "idle"
  BY <1>1, InCombat DEF Handler
<1>4. Turns'
  BY <1>1, <1>3 DEF Turns, Running, Handler
<1>5. Progress'
  BY <1>1, <1>3, InCombat DEF Progress, Rewarded, Running, Handler
<1>6. Verdicts'
  BY <1>1, <1>3, InCombat DEF Verdicts, Agrees, Settling, Handler, Running
<1> QED
  BY <1>1, <1>2, <1>4, <1>5, <1>6

LEMMA EncounterWonStep ==
  ASSUME Sound, EncounterWon
  PROVE  Sound'
<1>0. /\ phase = "COMBAT" /\ "round" \in Handler /\ work["round"].at = "won"
      /\ WorkOK /\ PeopleOK /\ members = Player /\ Player # {}
  BY FightingIsCombat, InCombat, PartyAssumption DEF EncounterWon, Sound, Types, Handler
<1>1. Visit("round", "award", {}, "NONE", Idle) /\ "award" \in Rewarding /\ {} \in SUBSET Player
  BY DEF EncounterWon, Rewarding
<1>2. /\ WorkOK' /\ \A g \in Handler \ {"round"} : work'[g] = work[g]
      /\ work'["round"].at = "award" /\ work'["round"].done = {}
  BY <1>0, <1>1, RoundVisit
<1>3. /\ \A p \in Player : Rewarded(p, encounter - 1)' \/ Rewarded(p, encounter)'
      /\ unlocked' # {} => encounter = Encounters /\ \A p \in Player : Rewarded(p, Encounters)'
  BY DEF EncounterWon, Sound, Progress, Rewarded, fight, durable
<1>4. UNCHANGED <<phase, encounter, members, retry, marker, kept>>
  BY DEF EncounterWon, combat, fight, people, durable
<1>5. Turns' /\ Progress' /\ Verdicts'
  BY <1>0, <1>2, <1>3, <1>4, LoopStep DEF Rewarding
<1> QED
  BY <1>2, <1>5
  DEF EncounterWon, Sound, Types, FightOK, PeopleOK, CombatOK, RetryOK, DurableOK,
      fight, people, combat, durable

(* The reward of one member.                                               *)
LEMMA RewardMember ==
  ASSUME Sound, NEW p \in Player,
         awarded' = [awarded EXCEPT ![p] = @ \cup {encounter}], UNCHANGED <<encounter, unlocked>>
  PROVE  /\ awarded' \in [Player -> SUBSET (1 .. Encounters)]
         /\ Rewarded(p, encounter)'
         /\ \A q \in Player : Rewarded(q, encounter) => Rewarded(q, encounter)'
         /\ \A q \in Player : Rewarded(q, encounter - 1)' \/ Rewarded(q, encounter)'
         /\ unlocked' # {} => encounter = Encounters /\ \A q \in Player : Rewarded(q, Encounters)'
<1>1. encounter \in Nat \ {0} /\ encounter \in 1 .. Encounters /\ Encounters \in Nat
  BY BoundsAssumption DEF Sound, Types, FightOK
<1>2. (1 .. encounter - 1) \cup {encounter} = 1 .. encounter /\ (1 .. encounter) \cup {encounter} = 1 .. encounter
  BY <1>1
<1>3. \A q \in Player : Rewarded(q, encounter - 1) \/ Rewarded(q, encounter)
  BY DEF Sound, Progress
<1>4. awarded \in [Player -> SUBSET (1 .. Encounters)]
  BY DEF Sound, Types, DurableOK
<1>5. awarded'[p] = 1 .. encounter /\ \A q \in Player \ {p} : awarded'[q] = awarded[q]
  BY <1>2, <1>3, <1>4 DEF Rewarded
<1>6. unlocked # {} => encounter = Encounters /\ \A q \in Player : Rewarded(q, Encounters)
  BY DEF Sound, Progress
<1> QED
  BY <1>1, <1>3, <1>4, <1>5, <1>6 DEF Rewarded

(* What follows the last visit of a loop, once its transaction is done.    *)
LEMMA AfterVisitStep ==
  ASSUME Sound, phase = "COMBAT", work["round"].at \in Rewarding,
         NEW at \in Rewarding, NEW done \in SUBSET Player, AfterVisit(at, done),
         \A p \in Player : Rewarded(p, encounter - 1)' \/ Rewarded(p, encounter)',
         at = "award" => \A p \in done : Rewarded(p, encounter)',
         at = "unlock" => /\ encounter = Encounters /\ done \subseteq unlocked'
                          /\ \A p \in Player : Rewarded(p, Encounters)',
         unlocked' # {} => encounter = Encounters /\ \A p \in Player : Rewarded(p, Encounters)',
         unlocked' \subseteq Player,
         UNCHANGED <<fight, people, retry, marker, kept>>
  PROVE  WorkOK' /\ CombatOK' /\ Turns' /\ Progress' /\ Verdicts'
<1> DEFINE rest == members \ done
<1>0. /\ members = Player /\ Player # {} /\ WorkOK /\ PeopleOK /\ CombatOK /\ "round" \in Handler
      /\ encounter \in 1 .. Encounters /\ "NONE" \in Outcome \cup {"NONE"}
      /\ at \in {"award", "unlock"}
      /\ UNCHANGED <<encounter, members>>
  BY InCombat, PartyAssumption DEF Sound, Types, Handler, FightOK, Rewarding, fight, people
<1>1. CASE rest # {} /\ Visit("round", at, done, "NONE", Idle) /\ UNCHANGED combat
  <2>1. /\ WorkOK' /\ \A g \in Handler \ {"round"} : work'[g] = work[g]
        /\ ~ (members \subseteq done) => work'["round"].at = at /\ work'["round"].done = done
    BY <1>0, <1>1, RoundVisit
  <2>3. work'["round"].at = at /\ work'["round"].done = done
    BY <1>1, <2>1
  <2>4. Turns' /\ Progress' /\ Verdicts'
    BY <1>0, <1>1, <2>1, <2>3, LoopStep DEF combat
  <2> QED  BY <1>0, <1>1, <2>1, <2>4 DEF CombatOK, combat
<1>2. CASE /\ rest = {} /\ at = "award" /\ encounter = Encounters
           /\ Visit("round", "unlock", {}, "NONE", Idle) /\ UNCHANGED combat
  <2>1. /\ WorkOK' /\ \A g \in Handler \ {"round"} : work'[g] = work[g]
        /\ ~ (members \subseteq {}) => work'["round"].at = "unlock" /\ work'["round"].done = {}
    <3>1. "unlock" \in Rewarding /\ {} \in SUBSET Player
      BY DEF Rewarding
    <3> QED  BY <1>0, <1>2, <3>1, RoundVisit
  <2>3. work'["round"].at = "unlock" /\ work'["round"].done = {}
    BY <1>0, <2>1
  <2>4. \A p \in Player : Rewarded(p, Encounters)'
    BY <1>0, <1>2 DEF Rewarded
  <2>5. Turns' /\ Progress' /\ Verdicts'
    BY <1>0, <1>2, <2>1, <2>3, <2>4, LoopStep DEF combat, Rewarding
  <2> QED  BY <1>0, <1>2, <2>1, <2>5 DEF CombatOK, combat
<1>3. CASE rest = {} /\ (at = "unlock" \/ encounter < Encounters) /\ OpenVote
  <2>1. \A p \in Player : Rewarded(p, encounter)'
    BY <1>0, <1>3 DEF Rewarded
  <2>2. encounter = Encounters => unlocked' = Player
    BY <1>0, <1>3
  <2> QED  BY <1>0, <1>3, <2>1, <2>2, OpenVoteStep
<1> QED
  BY <1>1, <1>2, <1>3 DEF AfterVisit

LEMMA AwardProgressionStep ==
  ASSUME Sound, AwardProgression
  PROVE  Sound'
<1> SUFFICES ASSUME NEW p, p = work["round"].who, NEW done, done = work["round"].done
             PROVE  Sound'
  OBVIOUS
<1> DEFINE rewarded == [awarded EXCEPT ![p] = @ \cup {encounter}]
<1>0. /\ phase = "COMBAT" /\ work["round"].at = "award" /\ "round" \in Handler
      /\ p \in Player /\ done \in SUBSET Player
      /\ UNCHANGED <<fight, people, retry, marker, unlocked, kept, encounter, members>>
  BY FightingIsCombat DEF AwardProgression, Sound, Types, WorkOK, StepOK, Steps, Handler, fight, people
<1>1. /\ \A q \in done : Rewarded(q, encounter)
      /\ \A q \in Player : Rewarded(q, encounter - 1) \/ Rewarded(q, encounter)
      /\ unlocked # {} => encounter = Encounters /\ \A q \in Player : Rewarded(q, Encounters)
  BY <1>0 DEF Sound, Progress
<1>2. awarded \in [Player -> SUBSET (1 .. Encounters)] /\ unlocked \subseteq Player
  BY DEF Sound, Types, DurableOK
<1>3. CASE awarded' = rewarded /\ AfterVisit("award", done \cup {p})
  <2>1. /\ awarded' \in [Player -> SUBSET (1 .. Encounters)]
        /\ Rewarded(p, encounter)'
        /\ \A q \in Player : Rewarded(q, encounter) => Rewarded(q, encounter)'
        /\ \A q \in Player : Rewarded(q, encounter - 1)' \/ Rewarded(q, encounter)'
        /\ unlocked' # {} => encounter = Encounters /\ \A q \in Player : Rewarded(q, Encounters)'
    BY <1>0, <1>3, RewardMember
  <2>2. \A q \in done \cup {p} : Rewarded(q, encounter)'
    BY <1>0, <1>1, <2>1
  <2>3. /\ "award" \in Rewarding /\ work["round"].at \in Rewarding
        /\ done \cup {p} \in SUBSET Player /\ "award" # "unlock" /\ unlocked' \subseteq Player
    BY <1>0, <1>2 DEF Rewarding
  <2>4. WorkOK' /\ CombatOK' /\ Turns' /\ Progress' /\ Verdicts'
    BY <1>0, <1>3, <2>1, <2>2, <2>3, AfterVisitStep
  <2> QED
    BY <1>0, <2>1, <2>4 DEF Sound, Types, FightOK, PeopleOK, RetryOK, DurableOK, fight, people
<1>4. CASE awarded' \in {awarded, rewarded} /\ Catch
  <2>1. /\ awarded' \in [Player -> SUBSET (1 .. Encounters)]
        /\ \A q \in Player : Rewarded(q, encounter - 1)' \/ Rewarded(q, encounter)'
        /\ unlocked' # {} => encounter = Encounters /\ \A q \in Player : Rewarded(q, Encounters)'
    <3>1. CASE awarded' = awarded
      BY <1>0, <1>1, <1>2, <3>1 DEF Rewarded
    <3>2. CASE awarded' = rewarded
      BY <1>0, <3>2, RewardMember
    <3> QED  BY <1>4, <3>1, <3>2
  <2>2. \A q \in Player : kept'[q] # "ALL"
    BY <1>0, InCombat
  <2>3. WorkOK' /\ CombatOK' /\ Turns' /\ Progress' /\ Verdicts'
    BY <1>0, <1>4, <2>1, <2>2, InCombat, CatchStep DEF Sound
  <2> QED
    BY <1>0, <2>1, <2>3 DEF Sound, Types, FightOK, PeopleOK, RetryOK, DurableOK, fight, people
<1> QED
  BY <1>3, <1>4 DEF AwardProgression

LEMMA CompleteRiftFloorStep ==
  ASSUME Sound, CompleteRiftFloor
  PROVE  Sound'
<1> DEFINE p == work["round"].who
           done == work["round"].done
           completed == unlocked \cup {p}
<1>0. /\ phase = "COMBAT" /\ work["round"].at = "unlock" /\ "round" \in Handler
      /\ p \in Player /\ done \in SUBSET Player
      /\ UNCHANGED <<fight, people, retry, marker, awarded, kept, encounter, members>>
  BY FightingIsCombat DEF CompleteRiftFloor, Sound, Types, WorkOK, StepOK, Steps, Handler, fight, people
<1>1. encounter = Encounters /\ done \subseteq unlocked /\ \A q \in Player : Rewarded(q, Encounters)
  BY <1>0 DEF Sound, Progress
<1>2. unlocked \subseteq Player
  BY DEF Sound, Types, DurableOK
<1>3. /\ \A q \in Player : Rewarded(q, Encounters)' /\ Rewarded(q, encounter)'
      /\ encounter = Encounters
  BY <1>0, <1>1 DEF Rewarded
<1>4. CASE unlocked' = completed /\ AfterVisit("unlock", done \cup {p})
  <2>1. /\ "unlock" \in Rewarding /\ work["round"].at \in Rewarding /\ "unlock" # "award"
        /\ done \cup {p} \in SUBSET Player /\ done \cup {p} \subseteq unlocked'
        /\ unlocked' \subseteq Player
    BY <1>0, <1>1, <1>2, <1>4 DEF Rewarding
  <2>2. WorkOK' /\ CombatOK' /\ Turns' /\ Progress' /\ Verdicts'
    BY <1>0, <1>3, <1>4, <2>1, AfterVisitStep
  <2> QED
    BY <1>0, <2>1, <2>2 DEF Sound, Types, FightOK, PeopleOK, RetryOK, DurableOK, fight, people
<1>5. CASE unlocked' \in {unlocked, completed} /\ Catch
  <2>1. \A q \in Player : kept'[q] # "ALL"
    BY <1>0, InCombat
  <2>2. WorkOK' /\ CombatOK' /\ Turns' /\ Progress' /\ Verdicts'
    BY <1>0, <1>3, <1>5, <2>1, InCombat, CatchStep DEF Sound
  <2> QED
    BY <1>0, <1>2, <1>5, <2>2 DEF Sound, Types, FightOK, PeopleOK, RetryOK, DurableOK, fight, people
<1> QED
  BY <1>4, <1>5 DEF CompleteRiftFloor

-----------------------------------------------------------------------------
(* The vote: nothing else is under way while it is open.                   *)
LEMMA InVote ==
  ASSUME Sound, phase = "POST_ENCOUNTER"
  PROVE  /\ phase \in Running /\ \A h \in Handler : work[h].at = "idle"
         /\ members = Player /\ \A p \in Player : Rewarded(p, encounter) /\ kept[p] = "NONE"
         /\ encounter = Encounters => unlocked = Player
         /\ unlocked # {} => encounter = Encounters
         /\ marker = "ACTIVE" /\ ~ (retry.left > 0) /\ retry.status = "NONE"
BY DEF Sound, Turns, Progress, Verdicts, Running

LEMMA CastVoteStep ==
  ASSUME Sound, NEW p \in Player, NEW v \in {"CONTINUE", "EXIT"}, CastVote(p, v)
  PROVE  Sound'
<1> DEFINE cast == [votes EXCEPT ![p] = v]
           status == IF encounter = Encounters THEN "COMPLETED" ELSE "EXITED"
<1>0. /\ phase = "POST_ENCOUNTER" /\ WorkOK /\ PeopleOK /\ CombatOK /\ FightOK /\ RetryOK /\ DurableOK
      /\ EvaluateVotes(cast) /\ UNCHANGED <<alive, people, retry, durable>>
  BY DEF CastVote, Sound, Types
<1>1. CASE /\ votes' = cast
           /\ UNCHANGED <<encounter, round, phase, recent, auto, actions, asking, timer, openings, work>>
  <2>1. Turns' /\ Progress' /\ Verdicts'
    BY <1>0, <1>1, Quiet DEF Sound, fight, people
  <2>2. CombatOK'
    BY <1>0, <1>1 DEF CombatOK
  <2> QED
    BY <1>0, <1>1, <2>1, <2>2
    DEF Sound, Types, WorkOK, FightOK, PeopleOK, RetryOK, DurableOK, people, durable
<1>2. CASE EndCombat("FINISHED") /\ ExtractLoot("vote", status) /\ UNCHANGED <<encounter, round>>
  <2>1. /\ status \in Outcome /\ "FINISHED" \in {"FINISHED", "FAILED"} /\ "vote" \in Handler
        /\ "vote" # "round" /\ (status = "COMPLETED" => unlocked = Player)
        /\ \A g \in Handler \ {"vote"} : work[g].at = "idle"
    BY <1>0, InVote DEF Outcome, Handler
  <2> HIDE DEF status
  <2>2. WorkOK' /\ CombatOK' /\ Turns' /\ Progress' /\ Verdicts'
    BY <1>0, <1>2, <2>1, InVote, SettleStep DEF Sound, fight, people
  <2> QED
    BY <1>0, <1>2, <2>2 DEF Sound, Types, FightOK, PeopleOK, RetryOK, DurableOK, people, durable
<1>3. CASE /\ encounter # Encounters
           /\ encounter' = encounter + 1 /\ round' = 1
           /\ votes' = NoVotes
           /\ phase' = "COMBAT"
           /\ openings' \in StartsOrNot
           /\ UNCHANGED <<recent, auto, actions, asking, timer, work>>
  <2>1. encounter' \in 1 .. Encounters /\ encounter' - 1 = encounter
    BY <1>0, <1>3, BoundsAssumption DEF FightOK
  <2>2. MaxRounds[encounter'] \in Nat \ {0}
    BY <2>1, BoundsAssumption
  <2>3. FightOK'
    BY <1>0, <1>3, <2>1, <2>2 DEF FightOK
  <2>4. CombatOK'
    BY <1>0, <1>3 DEF CombatOK, NoVotes, Phase, StartsOrNot
  <2>5. Turns'
    BY <1>0, <1>3, InVote DEF Turns, Running, RoundSteps, Handler
  <2>6. Progress'
    BY <1>0, <1>3, <2>1, InVote DEF Progress, Rewarded, Running, Rewarding, Handler, people, durable
  <2>7. Verdicts'
    BY <1>0, <1>3, InVote DEF Verdicts, Agrees, Settling, Handler, durable
  <2> QED
    BY <1>0, <1>3, <2>3, <2>4, <2>5, <2>6, <2>7
    DEF Sound, Types, WorkOK, PeopleOK, RetryOK, DurableOK, people, durable
<1> QED
  BY <1>0, <1>1, <1>2, <1>3 DEF EvaluateVotes

(* The last member present has been away for too long during a vote.       *)
LEMMA ReconnectExpiryStep ==
  ASSUME Sound, NEW p \in Player, ReconnectExpiry(p)
  PROVE  Sound'
<1>0. /\ WorkOK /\ PeopleOK /\ CombatOK /\ FightOK /\ RetryOK /\ DurableOK
      /\ UNCHANGED <<members, conn, fight, retry, durable>> /\ late' = late \cup {p}
  BY DEF ReconnectExpiry, Sound, Types
<1>1. FightOK' /\ PeopleOK' /\ RetryOK' /\ DurableOK'
  BY <1>0 DEF FightOK, PeopleOK, RetryOK, DurableOK, fight, durable
<1>2. CASE phase = "POST_ENCOUNTER" /\ EndCombat("FAILED") /\ ExtractLoot("expiry", "FAILED")
  <2>1. /\ "FAILED" \in Outcome /\ "FAILED" \in {"FINISHED", "FAILED"} /\ "expiry" \in Handler
        /\ \A g \in Handler \ {"expiry"} : work[g].at = "idle"
    BY <1>2, InVote DEF Outcome, Handler
  <2>2. WorkOK' /\ CombatOK' /\ Turns' /\ Progress' /\ Verdicts'
    BY <1>0, <1>2, <2>1, InVote, SettleStep DEF Sound
  <2> QED  BY <1>1, <2>2 DEF Sound, Types
<1>3. CASE UNCHANGED <<combat, work>>
  <2>1. Turns' /\ Progress' /\ Verdicts'
    BY <1>0, <1>3, Quiet DEF Sound, combat
  <2>2. CombatOK' /\ WorkOK'
    BY <1>0, <1>3 DEF CombatOK, WorkOK, combat
  <2> QED  BY <1>1, <2>1, <2>2 DEF Sound, Types
<1> QED
  BY <1>2, <1>3 DEF ReconnectExpiry

-----------------------------------------------------------------------------
(* The room is deleted, whatever its handlers still do.                    *)
LEMMA RoomGone ==
  ASSUME Sound, DeleteRoom, phase \notin Running,
         UNCHANGED <<fight, work, retry, durable>>
  PROVE  Sound'
<1>1. CombatOK' /\ PeopleOK' /\ phase' = "GONE" /\ members' = {}
  BY DeleteRoomTypes
<1>2. Turns'
  BY <1>1 DEF Sound, Turns, Running, fight, Living
<1>3. Progress'
  BY <1>1 DEF Sound, Progress, Rewarded, Running, fight, durable
<1>4. Verdicts'
  BY <1>1 DEF Sound, Verdicts, Agrees, Settling, Running, durable
<1> QED
  BY <1>1, <1>2, <1>3, <1>4 DEF Sound, Types, WorkOK, FightOK, RetryOK, DurableOK, fight, durable

LEMMA ConnectStep ==
  ASSUME Sound, NEW p \in Player, Connect(p)
  PROVE  Sound'
<1>0. UNCHANGED <<fight, work, retry, durable>>
  BY DEF Connect
<1>1. CASE /\ conn' = conn \cup {p} /\ recent' = recent \ {p}
           /\ UNCHANGED <<phase, members, late, auto, actions, asking, votes, timer, openings>>
  <2>1. Turns' /\ Progress' /\ Verdicts'
    BY <1>0, <1>1, Quiet DEF Sound
  <2> QED
    BY <1>0, <1>1, <2>1
    DEF Sound, Types, FightOK, PeopleOK, CombatOK, WorkOK, RetryOK, DurableOK, fight, durable
<1>2. CASE phase \in {"FINISHED", "FAILED"} /\ DeleteRoom
  BY <1>0, <1>2, RoomGone DEF Running
<1> QED
  BY <1>1, <1>2 DEF Connect

LEMMA LeavePartyStep ==
  ASSUME Sound, NEW p \in Player, LeaveParty(p)
  PROVE  Sound'
<1>0. UNCHANGED <<fight, work, retry, durable>> /\ phase \notin Running
  BY DEF LeaveParty, Running
<1>1. CASE DeleteRoom
  BY <1>0, <1>1, RoomGone
<1>2. CASE members' = members \ {p} /\ UNCHANGED <<conn, late, combat>>
  <2>1. phase' = phase /\ members' \subseteq members
    BY <1>2 DEF combat
  <2>2. Turns'
    BY <1>0, <2>1 DEF Sound, Turns, Running, fight, Living
  <2>3. Progress'
    BY <1>0, <2>1 DEF Sound, Progress, Rewarded, Running, fight, durable
  <2>4. Verdicts'
    BY <1>0, <2>1 DEF Sound, Verdicts, Agrees, Settling, Running, durable
  <2> QED
    BY <1>0, <1>2, <2>2, <2>3, <2>4
    DEF Sound, Types, FightOK, PeopleOK, CombatOK, WorkOK, RetryOK, DurableOK, fight, durable, combat
<1> QED
  BY <1>1, <1>2 DEF LeaveParty

-----------------------------------------------------------------------------
(* The end of a run: the loot of one member after the other, the report.   *)
LEMMA InEnd ==
  ASSUME Sound, NEW h \in Handler, work[h].at \in {"extract", "finish"}
  PROVE  /\ phase \notin Running /\ \A g \in Handler \ {h} : work[g].at = "idle"
         /\ marker = "ACTIVE" /\ ~ (retry.left > 0) /\ retry.status = "NONE"
         /\ work[h].status \in Outcome /\ Agrees(work[h].status)
         /\ h = "round" => work[h].status = "FAILED"
<1>1. phase \notin Running
  BY DEF Sound, Turns, Running, RoundSteps, Rewarding, Handler
<1> QED
  BY <1>1 DEF Sound, Turns, Verdicts, Settling

(* A committed extraction agrees with the outcome being settled.           *)
LEMMA CommitLootStep ==
  ASSUME Sound, NEW w \in Steps, w.who \in Player, w.status \in Outcome, Agrees(w.status),
         CommitLoot(w) \/ UNCHANGED kept, UNCHANGED unlocked
  PROVE  /\ kept' \in [Player -> {"NONE", "PART", "ALL"}]
         /\ w.status = "FAILED" => \A p \in Player : kept'[p] # "ALL"
         /\ w.status # "FAILED" => \A p \in Player : kept'[p] # "PART"
         /\ \A p \in Player : kept[p] = "ALL" => kept'[p] = "ALL"
         /\ CommitLoot(w) /\ w.status # "FAILED" => kept'[w.who] = "ALL"
<1>1. kept \in [Player -> {"NONE", "PART", "ALL"}]
  BY DEF Sound, Types, DurableOK
<1> QED
  BY <1>1 DEF CommitLoot, Agrees, Outcome

(* What the invariant needs of the handler that settles, at its next step. *)
LEMMA SettlingGoesOn ==
  ASSUME Sound, NEW h \in Handler, work[h].at \in {"extract", "finish"}, WorkOK',
         NEW status, status = work[h].status,
         \A g \in Handler \ {h} : work'[g] = work[g],
         work'[h].at \in {"extract", "finish", "failed"}, work'[h].status = status,
         status = "FAILED" => \A p \in Player : kept'[p] # "ALL",
         status # "FAILED" =>
           /\ \A p \in Player : kept'[p] # "PART"
           /\ work'[h].at = "extract" => \A p \in work'[h].done : kept'[p] = "ALL"
           /\ work'[h].at = "finish" => \A p \in members : kept'[p] = "ALL",
         UNCHANGED <<phase, fight, members, retry, marker, awarded, unlocked>>
  PROVE  Turns' /\ Progress' /\ Verdicts'
<1>1. /\ phase \notin Running /\ \A g \in Handler \ {h} : work'[g].at = "idle"
      /\ marker = "ACTIVE" /\ ~ (retry.left > 0) /\ retry.status = "NONE"
      /\ status \in Outcome /\ Agrees(status) /\ (h = "round" => status = "FAILED")
  BY InEnd
<1>2. Turns'
  BY <1>1 DEF Sound, Turns, Running, EndSteps, Handler
<1>3. Progress'
  BY <1>1 DEF Sound, Progress, Rewarded, Running, Handler, fight
<1>4. Agrees(status)' /\ Agrees("NONE")' /\ Agrees("ACTIVE")'
  BY <1>1 DEF Agrees, Outcome
<1>5. Verdicts'
  BY <1>1, <1>4 DEF Verdicts, Settling, Handler, Agrees
<1> QED
  BY <1>2, <1>3, <1>5

LEMMA ExtractStep ==
  ASSUME Sound, NEW h \in Handler, Extract(h)
  PROVE  Sound'
<1> SUFFICES ASSUME NEW w, w = work[h]
             PROVE  Sound'
  OBVIOUS
<1> DEFINE last == Step("finish", NoOne, {}, w.status)
           seen == w.done \cup {w.who}
<1>0. /\ WorkOK /\ PeopleOK /\ CombatOK /\ w.at = "extract" /\ w \in Steps /\ w.who \in Player
      /\ w.done \in SUBSET Player
      /\ UNCHANGED <<fight, people, retry, marker, awarded, unlocked, members>>
  BY DEF Extract, Sound, Types, WorkOK, StepOK, Steps, people
<1>1. /\ phase \notin Running /\ \A g \in Handler \ {h} : work[g].at = "idle"
      /\ marker = "ACTIVE" /\ ~ (retry.left > 0) /\ retry.status = "NONE"
      /\ w.status \in Outcome /\ Agrees(w.status)
      /\ h = "round" => w.status = "FAILED"
  BY <1>0, InEnd
<1>2. w.status # "FAILED" => \A p \in w.done : kept[p] = "ALL"
  BY <1>0 DEF Sound, Verdicts
<1>3. CommitLoot(w) \/ UNCHANGED kept
  BY DEF Extract
<1>4. /\ kept' \in [Player -> {"NONE", "PART", "ALL"}]
      /\ w.status = "FAILED" => \A p \in Player : kept'[p] # "ALL"
      /\ w.status # "FAILED" => \A p \in Player : kept'[p] # "PART"
      /\ \A p \in Player : kept[p] = "ALL" => kept'[p] = "ALL"
      /\ CommitLoot(w) /\ w.status # "FAILED" => kept'[w.who] = "ALL"
  BY <1>0, <1>1, <1>3, CommitLootStep
<1>5. DurableOK' /\ FightOK' /\ PeopleOK' /\ RetryOK'
  BY <1>0, <1>4 DEF Sound, Types, DurableOK, FightOK, PeopleOK, RetryOK, fight, people
<1>6. StepOK(last) /\ last.at = "finish" /\ last.status = w.status
  BY <1>1, StepIsOK DEF Step
<1> HIDE DEF last
<1>7. CASE CommitLoot(w) /\ UNCHANGED combat /\ Visit(h, "extract", seen, w.status, last)
  <2>1. /\ seen \in SUBSET Player /\ "extract" \in {"award", "unlock", "extract"}
        /\ w.status \in Outcome \cup {"NONE"}
    BY <1>0, <1>1
  <2>2. w.status # "FAILED" => \A p \in seen : kept'[p] = "ALL"
    BY <1>0, <1>2, <1>4, <1>7
  <2> HIDE DEF seen
  <2>3. /\ WorkOK' /\ \A g \in Handler \ {h} : work'[g] = work[g]
        /\ \/ \E p \in members \ seen : work'[h] = Step("extract", p, seen, w.status)
           \/ members \subseteq seen /\ work'[h] = last
    <3> SUFFICES ASSUME NEW s, s = w.status, NEW d, d = seen
                 PROVE  /\ WorkOK' /\ \A g \in Handler \ {h} : work'[g] = work[g]
                        /\ \/ \E p \in members \ d : work'[h] = Step("extract", p, d, s)
                           \/ members \subseteq d /\ work'[h] = last
      OBVIOUS
    <3> QED  BY <1>0, <1>6, <1>7, <2>1, VisitStep
  <2>4. /\ work'[h].at \in {"extract", "finish"} /\ work'[h].status = w.status
        /\ work'[h].at = "extract" => work'[h].done = seen
        /\ work'[h].at = "finish" => members \subseteq seen
    <3>1. ASSUME NEW p \in members \ seen, work'[h] = Step("extract", p, seen, w.status)
          PROVE  work'[h].at = "extract" /\ work'[h].status = w.status /\ work'[h].done = seen
      BY <3>1 DEF Step
    <3>2. ASSUME members \subseteq seen, work'[h] = last
          PROVE  work'[h].at = "finish" /\ work'[h].status = w.status
      BY <3>2, <1>6
    <3> QED  BY <2>3, <3>1, <3>2
  <2>5. Turns' /\ Progress' /\ Verdicts'
    BY <1>0, <1>4, <1>7, <2>2, <2>3, <2>4, SettlingGoesOn DEF combat
  <2> QED  BY <1>0, <1>5, <1>7, <2>3, <2>5 DEF Sound, Types, CombatOK, combat
<1>8. CASE h = "round" /\ Catch
  <2>1. work["vote"].at = "idle" /\ work["expiry"].at = "idle"
    BY <1>1, <1>8 DEF Handler
  <2>2. \A p \in Player : kept'[p] # "ALL"
    BY <1>1, <1>4, <1>8
  <2>3. /\ \A p \in Player : Rewarded(p, encounter - 1)' \/ Rewarded(p, encounter)'
        /\ unlocked' # {} => encounter = Encounters /\ \A p \in Player : Rewarded(p, Encounters)'
    BY <1>0 DEF Sound, Progress, Rewarded, fight
  <2>4. WorkOK' /\ CombatOK' /\ Turns' /\ Progress' /\ Verdicts'
    BY <1>0, <1>1, <1>8, <2>1, <2>2, <2>3, CatchStep DEF Sound, fight
  <2> QED  BY <1>5, <2>4 DEF Sound, Types
<1>9. CASE Do(h, Step("failed", NoOne, {}, w.status)) /\ UNCHANGED combat
  <2> DEFINE error == Step("failed", NoOne, {}, w.status)
  <2>1. StepOK(error) /\ error.at = "failed" /\ error.status = w.status
    BY <1>1, StepIsOK DEF Step
  <2> HIDE DEF error
  <2>2. WorkOK' /\ work'[h] = error /\ \A g \in Handler \ {h} : work'[g] = work[g]
    BY <1>0, <1>9, <2>1, DoWork DEF error
  <2>3. Turns' /\ Progress' /\ Verdicts'
    BY <1>0, <1>4, <1>9, <2>1, <2>2, SettlingGoesOn DEF combat
  <2> QED  BY <1>0, <1>5, <1>9, <2>2, <2>3 DEF Sound, Types, CombatOK, combat
<1> QED
  BY <1>7, <1>8, <1>9 DEF Extract, last

LEMMA FinishExpeditionStep ==
  ASSUME Sound, NEW h \in Handler, FinishExpedition(h)
  PROVE  Sound'
<1> SUFFICES ASSUME NEW w, w = work[h]
             PROVE  Sound'
  OBVIOUS
<1>0. /\ WorkOK /\ FightOK /\ RetryOK /\ DurableOK /\ w.at = "finish"
      /\ UNCHANGED <<fight, awarded, unlocked, kept>> /\ DeleteRoom /\ Do(h, Idle)
  BY DEF FinishExpedition, Sound, Types
<1>1. /\ phase \notin Running /\ \A g \in Handler \ {h} : work[g].at = "idle"
      /\ marker = "ACTIVE" /\ ~ (retry.left > 0) /\ retry.status = "NONE"
      /\ w.status \in Outcome /\ Agrees(w.status)
  BY <1>0, InEnd
<1>2. /\ marker' \in {"ACTIVE", w.status}
      /\ retry' \in {retry, [status |-> w.status, left |-> Attempts - 1]}
  BY <1>1 DEF FinishExpedition, Finished
<1>3. CombatOK' /\ PeopleOK' /\ phase' = "GONE" /\ members' = {}
  BY <1>0, DeleteRoomTypes
<1>4. WorkOK' /\ \A g \in Handler : work'[g].at = "idle"
  BY <1>0, <1>1, IdleIsOK, DoWork
<1>5. RetryOK' /\ DurableOK' /\ FightOK'
  BY <1>0, <1>1, <1>2, BoundsAssumption DEF RetryOK, DurableOK, FightOK, fight
<1>6. Turns'
  BY <1>3, <1>4 DEF Turns, Running, EndSteps, Handler
<1>7. Progress'
  BY <1>0, <1>3, <1>4 DEF Sound, Progress, Rewarded, Running, Handler, fight
<1>8. Verdicts'
  <2>1. Agrees(w.status)' /\ Agrees("NONE")' /\ Agrees("ACTIVE")'
    <3> SUFFICES ASSUME NEW s, s = w.status
                 PROVE  Agrees(s)' /\ Agrees("NONE")' /\ Agrees("ACTIVE")'
      BY DEF Agrees
    <3> QED  BY <1>0, <1>1 DEF Agrees, Outcome
  <2>2. Agrees(retry.status)' /\ Agrees(marker)'
    BY <1>1, <1>2, <2>1 DEF Agrees
  <2>3. retry'.left > 0 => retry'.status \in Outcome
    BY <1>1, <1>2
  <2> QED
    BY <1>3, <1>4, <2>2, <2>3 DEF Verdicts, Settling, Running, Handler
<1> QED
  BY <1>3, <1>4, <1>5, <1>6, <1>7, <1>8 DEF Sound, Types

LEMMA RetryFinishStep ==
  ASSUME Sound, RetryFinish
  PROVE  Sound'
<1>0. /\ WorkOK /\ RetryOK /\ DurableOK /\ retry.left > 0 /\ retry.status \in Outcome
      /\ phase = "GONE" /\ \A g \in Handler : work[g].at = "idle"
      /\ Agrees(retry.status) /\ Agrees(marker)
      /\ UNCHANGED <<fight, people, combat, work, awarded, unlocked, kept>>
  BY DEF RetryFinish, Sound, Types, Verdicts
<1>1. /\ marker' \in {marker, retry.status}
      /\ retry'.status \in {"NONE", retry.status} /\ RetryOK'
  <2>1. marker' \in {marker, retry.status}
    BY DEF RetryFinish, Finished
  <2>2. /\ retry \in [status : Outcome \cup {"NONE"}, left : 0 .. Attempts - 1]
        /\ \/ retry' = [status |-> "NONE", left |-> 0]
           \/ retry' = [retry EXCEPT !.left = @ - 1]
        /\ Attempts \in Nat \ {0}
    BY <1>0, BoundsAssumption DEF RetryFinish, RetryOK
  <2>3. retry' \in [status : Outcome \cup {"NONE"}, left : 0 .. Attempts - 1]
        /\ retry'.status \in {"NONE", retry.status}
    BY <1>0, <2>2
  <2> QED  BY <2>1, <2>3 DEF RetryOK
<1>2. retry'.left > 0 => retry'.status \in Outcome
  <2>1. CASE retry' = [status |-> "NONE", left |-> 0]
    BY <2>1
  <2>2. CASE retry' = [retry EXCEPT !.left = @ - 1]
    BY <1>0, <2>2 DEF RetryOK
  <2> QED  BY <2>1, <2>2 DEF RetryFinish
<1>3. DurableOK'
  BY <1>0, <1>1 DEF DurableOK
<1>4. Turns' /\ Progress'
  BY <1>0 DEF Sound, Turns, Progress, Rewarded, Living, fight, people, combat
<1>5. Verdicts'
  <2>1. Agrees(retry.status)' /\ Agrees(marker)'
    BY <1>0, <1>1 DEF Agrees
  <2> QED
    BY <1>0, <1>2, <2>1 DEF Sound, Verdicts, Settling, Running, people, combat
<1> QED
  BY <1>0, <1>1, <1>3, <1>4, <1>5
  DEF Sound, Types, WorkOK, FightOK, PeopleOK, CombatOK, fight, people, combat

LEMMA RestartStep ==
  ASSUME Sound, Restart
  PROVE  Sound'
<1>0. /\ DurableOK /\ FightOK /\ DeleteRoom /\ UNCHANGED <<fight, awarded, unlocked, kept>>
      /\ work' = [h \in Handler |-> Idle] /\ retry' = [status |-> "NONE", left |-> 0]
      /\ marker' \in {marker, "SERVER_INTERRUPTED"} /\ Agrees(marker)
  BY DEF Restart, Finished, Sound, Types, Verdicts
<1>1. CombatOK' /\ PeopleOK' /\ phase' = "GONE" /\ members' = {}
  BY <1>0, DeleteRoomTypes
<1>2. WorkOK' /\ \A h \in Handler : work'[h].at = "idle"
  BY <1>0, AllIdle
<1>3. RetryOK' /\ DurableOK' /\ FightOK'
  BY <1>0, BoundsAssumption DEF RetryOK, DurableOK, FightOK, fight
<1>4. Turns'
  BY <1>1, <1>2 DEF Turns, Running, EndSteps, Handler
<1>5. Progress'
  BY <1>0, <1>1, <1>2 DEF Sound, Progress, Rewarded, Running, Handler, fight
<1>6. Verdicts'
  BY <1>0, <1>1, <1>2 DEF Verdicts, Agrees, Settling, Running, Handler
<1> QED
  BY <1>1, <1>2, <1>3, <1>4, <1>5, <1>6 DEF Sound, Types

-----------------------------------------------------------------------------
LEMMA StartIsSound ==
  ASSUME Init
  PROVE  Sound
<1>1. \A h \in Handler : work[h].at = "idle"
  BY IdleIsOK DEF Init
<1>2. encounter = 1 /\ Encounters \in Nat \ {0} /\ MaxRounds[1] \in Nat \ {0}
  BY BoundsAssumption DEF Init
<1>3. CombatOK
  <2>1. NoAction \in [encounter : 0 .. Encounters, round : Nat]
    BY BoundsAssumption DEF NoAction
  <2>2. NoActions \in [Player -> [encounter : 0 .. Encounters, round : Nat]]
    BY <2>1 DEF NoActions
  <2> QED  BY <2>2 DEF Init, CombatOK, Phase, NoVotes
<1>4. FightOK /\ PeopleOK /\ WorkOK /\ RetryOK /\ DurableOK
  BY <1>2, BoundsAssumption, IdleIsOK
  DEF Init, FightOK, PeopleOK, WorkOK, StepOK, RetryOK, DurableOK
<1>5. Turns
  BY <1>1 DEF Init, Turns, Running, RoundSteps, Handler
<1>6. Progress
  BY <1>1, <1>2 DEF Init, Progress, Rewarded, Running, Handler
<1>7. Verdicts
  BY <1>1 DEF Init, Verdicts, Agrees, Settling, Running, Handler
<1> QED
  BY <1>3, <1>4, <1>5, <1>6, <1>7 DEF Sound, Types

LEMMA StutterStep ==
  ASSUME Sound, UNCHANGED vars
  PROVE  Sound'
BY Quiet DEF vars, inMemory, people, combat, Sound, Types, FightOK, PeopleOK, CombatOK, WorkOK,
             RetryOK, DurableOK, fight, durable

LEMMA EveryStep ==
  ASSUME Sound, [Next]_vars
  PROVE  Sound'
<1>1. ASSUME NEW p \in Player, SubmitAction(p) \/ (\E enabled \in BOOLEAN : SetAutoBattle(p, enabled)) \/ Disconnect(p)
      PROVE  Sound'
  BY <1>1, PlayersAct
<1>2. ASSUME NEW p \in Player, ResolveEarly(p)
      PROVE  Sound'
  BY <1>2, TriggersStep
<1>3. ASSUME NEW p \in Player, \E v \in {"CONTINUE", "EXIT"} : CastVote(p, v)
      PROVE  Sound'
  BY <1>3, CastVoteStep
<1>4. ASSUME NEW p \in Player, Connect(p) \/ ReconnectExpiry(p) \/ LeaveParty(p)
      PROVE  Sound'
  BY <1>4, ConnectStep, ReconnectExpiryStep, LeavePartyStep
<1>5. CASE OpenRound \/ RoundTimer \/ RetryFinish \/ Restart
  BY <1>5, OpenRoundStep, TriggersStep, RetryFinishStep, RestartStep
<1>6. CASE ResolveRound
  BY <1>6, FightStep, RoundLostStep, NextRoundStep, EncounterWonStep, AwardProgressionStep,
     CompleteRiftFloorStep DEF ResolveRound
<1>7. ASSUME NEW h \in Handler, EndRun(h)
      PROVE  Sound'
  BY <1>7, ExtractStep, FinishExpeditionStep DEF EndRun
<1>8. CASE UNCHANGED vars
  BY <1>8, StutterStep
<1> QED
  BY <1>1, <1>2, <1>3, <1>4, <1>5, <1>6, <1>7, <1>8 DEF Next

(* Types, turns, progress and verdicts hold in every reachable state.      *)
THEOREM RiftInvariant == Spec => []Sound
<1>1. Init => Sound
  BY StartIsSound
<1>2. Sound /\ [Next]_vars => Sound'
  BY EveryStep
<1> QED
  BY <1>1, <1>2, PTL DEF Spec

(* Encounter, round and loops stay in range, whatever is submitted and     *)
(* whenever players leave: nobody fights past the last round.              *)
THEOREM RiftTypeCorrect == Spec => []TypeOK
<1>1. Sound => TypeOK
  BY TypesAreTypeOK DEF Sound
<1> QED
  BY <1>1, RiftInvariant, PTL

LEMMA SoundIsOneWay ==
  ASSUME Sound
  PROVE  RunEndsOneWay
<1>1. OneOutcome
  <2> SUFFICES ASSUME NEW g \in Handler, NEW h \in Handler, work[g].at # "idle",
                      work[h].at \in {"extract", "finish"}
               PROVE  g = h
    BY DEF OneOutcome
  <2> QED  BY InEnd
<1>2. LootFollowsOutcome
  BY DEF Sound, Verdicts, Agrees, LootFollowsOutcome
<1>3. ProgressIsEarned
  <2> SUFFICES ASSUME NEW p \in Player, NEW q \in Player
               PROVE  /\ \A e \in awarded[p] : \A before \in 1 .. e - 1 : before \in awarded[q]
                      /\ p \in unlocked => awarded[q] = 1 .. Encounters
    BY DEF ProgressIsEarned
  <2>1. /\ awarded[p] = 1 .. encounter - 1 \/ awarded[p] = 1 .. encounter
        /\ awarded[q] = 1 .. encounter - 1 \/ awarded[q] = 1 .. encounter
        /\ p \in unlocked => awarded[q] = 1 .. Encounters
    BY DEF Sound, Progress, Rewarded
  <2>2. encounter \in Nat
    BY BoundsAssumption DEF Sound, Types, FightOK
  <2> QED  BY <2>1, <2>2
<1> QED
  BY <1>1, <1>2, <1>3 DEF RunEndsOneWay

(* However rounds, votes, disconnects, failures and restarts interleave:   *)
(* one handler ends the run, its durable outcome agrees with the loot, and *)
(* the party earns its rewards together and in order.                      *)
THEOREM RunsEndOneWay == Spec => []RunEndsOneWay
<1>1. Sound => RunEndsOneWay
  BY SoundIsOneWay
<1> QED
  BY <1>1, RiftInvariant, PTL

(* Neither a late retry of the report nor a restart rewrites an outcome.   *)
THEOREM OutcomeIsFinal == Spec => MarkerIsFinal
<1>1. [Next]_vars => (marker # "ACTIVE" => marker' = marker)
  <2> SUFFICES ASSUME [Next]_vars, marker # "ACTIVE"
               PROVE  marker' = marker
    OBVIOUS
  <2>1. CASE \E h \in Handler : FinishExpedition(h)
    BY <2>1 DEF FinishExpedition, Finished
  <2>2. CASE RetryFinish
    BY <2>2 DEF RetryFinish, Finished
  <2>3. CASE Restart
    BY <2>3 DEF Restart, Finished
  <2>4. CASE UNCHANGED marker
    BY <2>4
  <2> QED
    BY <2>1, <2>2, <2>3, <2>4
    DEF Next, ResolveRound, EndRun, SubmitAction, ResolveEarly, SetAutoBattle, CastVote, Disconnect,
        Connect, ReconnectExpiry, LeaveParty, OpenRound, RoundTimer, Fight, RoundLost, NextRound,
        EncounterWon, AwardProgression, CompleteRiftFloor, Extract, durable, inMemory, vars
<1>2. [Next]_vars => [marker # "ACTIVE" => marker' = marker]_vars
  BY <1>1
<1> QED
  BY <1>2, PTL DEF Spec, MarkerIsFinal
=============================================================================
