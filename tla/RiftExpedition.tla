--------------------------- MODULE RiftExpedition ---------------------------
(***************************************************************************)
(* One expedition of RoomManager, from the activation of a started room to *)
(* its end: rounds, encounters, votes, disconnects and their grace period, *)
(* loot extraction, the durable marker and a restart of the server.        *)
(*                                                                         *)
(* As in PartyRoom a handler is a chain of steps, cut at its awaits.       *)
(* work[h] is the step that the round resolution, the decision of a vote   *)
(* or the expiry of the last member present has come to; the telemetry a   *)
(* handler awaits never fails (SafeTelemetrySink), the repository may.     *)
(*                                                                         *)
(* A fight is abstracted to what its end depends on: who attacks, who      *)
(* survives the round, whether the enemy falls.  Potions, rewards and loot *)
(* are the transactions that may fail, not their amounts.                  *)
(***************************************************************************)
EXTENDS Integers, FiniteSets

CONSTANTS
  Player,      \* the party at START
  Leader,      \* its leader
  NoOne,
  AutoPlayer,  \* bound: the players who switch Auto Battle
  Encounters,  \* encounters of the floor
  MaxRounds,   \* bound: the rounds within which each encounter is decided
  Attempts,    \* maxAttempts of SafeTelemetrySink
  Failures     \* the repository calls that may fail: "potion", "award",
               \* "unlock", "snapshot", "extract", "finish"

ASSUME PartyAssumption ==
  /\ Leader \in Player /\ IsFiniteSet(Player) /\ NoOne \notin Player
  /\ AutoPlayer \subseteq Player
ASSUME BoundsAssumption ==
  /\ Encounters \in Nat \ {0} /\ Attempts \in Nat \ {0}
  /\ MaxRounds \in [1 .. Encounters -> Nat \ {0}]

VARIABLES
  phase, encounter, round,  \* GONE is a room deleted from the rooms map
  members, alive, conn,     \* in the room; living; with connected = true
  late,      \* disconnected for longer than the grace period
  recent,    \* disconnected in the present round, which is shorter than it
  auto,      \* Auto Battle switched on
  actions,   \* the action of each player, by the round it was given for
  asking,    \* handlers about to ask whether the round can resolve early
  votes,
  timer,     \* whether the round timer is armed
  openings,  \* startRound calls that wait for telemetry
  work,      \* what the handlers that resolve, decide and expire are doing
  marker,    \* the status of the durable expedition marker
  retry,     \* a marker update to be tried again
  awarded, unlocked, kept  \* durable: rewards, floor, extracted loot

fight == <<encounter, round, alive>>
people == <<members, conn, late>>
combat == <<phase, recent, auto, actions, asking, votes, timer, openings>>
inMemory == <<fight, people, combat, work, retry>>
durable == <<marker, awarded, unlocked, kept>>
vars == <<inMemory, durable>>

-----------------------------------------------------------------------------
Phase == {"COMBAT", "POST_ENCOUNTER", "FINISHED", "FAILED", "GONE"}
Outcome == {"COMPLETED", "EXITED", "FAILED"}
Handler == {"round", "vote", "expiry"}

NoAction == [encounter |-> 0, round |-> 0]
ActionOfNow == [encounter |-> encounter, round |-> round]

NoActions == [p \in Player |-> NoAction]
NoVotes == [p \in Player |-> "NONE"]

(* who is the member a loop has come to, done those before it; in "fight"  *)
(* done are the players whose actions attack.  "failed" is a handler that  *)
(* ended with an error while the outcome was being settled.                *)
Step(at, who, done, status) == [at |-> at, who |-> who, done |-> done, status |-> status]
Idle == Step("idle", NoOne, {}, "NONE")
Do(h, step) == work' = [work EXCEPT ![h] = step]

Resolving == work["round"].at # "idle"
Living == members \cap alive
Present == Living \cap conn

(* canResolveEarly *)
CanResolveEarly ==
  /\ Living # {}
  /\ Living \cap auto = {}
  /\ \A p \in Living : p \in conn /\ actions[p] # NoAction

(* The synchronous start of resolveRoomRound: a second call, or a call     *)
(* outside combat, returns at once.  Players without an action attack only *)
(* when connected with Auto Battle; the others just defend.                *)
Attackers == {p \in Living : actions[p] # NoAction \/ p \in auto \cap conn}

BeginRound ==
  /\ ~ Resolving /\ phase = "COMBAT"
  /\ timer' = FALSE
  /\ Do("round", Step("fight", NoOne, Attackers, "NONE"))

StartRound ==
  /\ actions' = NoActions
  /\ timer' = TRUE

(* The next step of a loop over the members: the map is live, so whoever   *)
(* left it meanwhile is not visited.                                       *)
Visit(h, at, done, status, after) ==
  LET rest == members \ done IN
  \/ \E p \in rest : Do(h, Step(at, p, done, status))
  \/ rest = {} /\ Do(h, after)

(* extractLoot, then the report of the outcome.                            *)
ExtractLoot(h, status) ==
  Visit(h, "extract", {}, status, Step("finish", NoOne, {}, status))

(* The run has ended one way or another.  What the room still has of its    *)
(* combat is not read again: a startRound, an early resolution or a timer  *)
(* on its way finds no combat.                                             *)
EndCombat(next) ==
  /\ phase' = next
  /\ auto' = {} /\ asking' = {} /\ recent' = {}
  /\ actions' = NoActions /\ votes' = NoVotes
  /\ timer' = FALSE /\ openings' = 0

DeleteRoom == EndCombat("GONE") /\ members' = {} /\ conn' = {} /\ late' = {}

(* The catch of resolveRoomRound: no loot is extracted.                    *)
Catch ==
  /\ EndCombat("FAILED")
  /\ Do("round", Step("finish", NoOne, {}, "FAILED"))

Fails(call) == call \in Failures

-----------------------------------------------------------------------------
(* startExpedition has activated the room and waits to start the round.    *)
Init ==
  /\ phase = "COMBAT" /\ encounter = 1 /\ round = 1
  /\ members = Player /\ alive = Player
  /\ conn \in SUBSET Player /\ late = {} /\ recent = Player \ conn
  /\ auto = {} /\ asking = {}
  /\ actions = NoActions /\ votes = NoVotes
  /\ timer = FALSE /\ openings = 1
  /\ work = [h \in Handler |-> Idle]
  /\ marker = "ACTIVE"
  /\ retry = [status |-> "NONE", left |-> 0]
  /\ awarded = [p \in Player |-> {}] /\ unlocked = {}
  /\ kept = [p \in Player |-> "NONE"]

(* startRound of START or of a continued run, when telemetry has answered, *)
(* whatever the room has become.                                           *)
OpenRound ==
  /\ openings > 0
  /\ openings' = openings - 1
  /\ StartRound
  /\ recent' = IF Resolving THEN recent ELSE {}
  /\ UNCHANGED <<phase, auto, asking, votes, fight, people, work, retry, durable>>

(* submitAction: an action for the present round; then telemetry.          *)
SubmitAction(p) ==
  /\ phase = "COMBAT" /\ p \in Living \cap conn
  /\ actions' = [actions EXCEPT ![p] = ActionOfNow]
  /\ asking' = asking \cup {p}
  /\ UNCHANGED <<phase, recent, auto, votes, timer, openings, fight, people, work, retry, durable>>

SetAutoBattle(p, enabled) ==
  /\ phase = "COMBAT" /\ p \in members \cap conn \cap AutoPlayer
  /\ auto' = IF enabled THEN auto \cup {p} ELSE auto \ {p}
  /\ asking' = IF enabled THEN asking ELSE asking \cup {p}
  /\ UNCHANGED <<phase, recent, actions, votes, timer, openings, fight, people, work, retry, durable>>

ResolveEarly(p) ==
  /\ p \in asking
  /\ asking' = asking \ {p}
  /\ \/ CanResolveEarly /\ BeginRound
     \/ (~ CanResolveEarly \/ Resolving \/ phase # "COMBAT") /\ UNCHANGED <<timer, work>>
  /\ UNCHANGED <<phase, recent, auto, actions, votes, openings, fight, people, retry, durable>>

RoundTimer ==
  /\ timer
  /\ \/ BeginRound
     \/ (Resolving \/ phase # "COMBAT") /\ timer' = FALSE /\ UNCHANGED work
  /\ UNCHANGED <<phase, recent, auto, actions, asking, votes, openings, fight, people,
                 retry, durable>>

(* The round is fought: potions are consumed first, and a failing          *)
(* transaction ends the run.  Without an attack the enemy does not fall;   *)
(* an enemy that falls strikes nobody.                                     *)
Fight ==
  LET w == work["round"] IN
  /\ w.at = "fight"
  /\ \/ /\ w.done # {} /\ Do("round", Step("won", NoOne, {}, "NONE"))
        /\ UNCHANGED <<alive, combat>>
     \/ \E hit \in SUBSET Living :
          /\ round = MaxRounds[encounter] => hit = Living
          /\ alive' = alive \ hit
          /\ Do("round", Step("fought", NoOne, {}, "NONE"))
          /\ UNCHANGED combat
     \/ w.done # {} /\ Fails("potion") /\ Catch /\ UNCHANGED alive
  /\ UNCHANGED <<encounter, round, people, retry, durable>>

(* Nobody survived: the run has failed; else the next round starts.        *)
RoundLost ==
  /\ work["round"].at = "fought" /\ Living = {}
  /\ EndCombat("FAILED")
  /\ ExtractLoot("round", "FAILED")
  /\ UNCHANGED <<fight, people, retry, durable>>

NextRound ==
  /\ work["round"].at = "fought" /\ Living # {}
  /\ round' = round + 1
  /\ StartRound
  /\ recent' = {}
  /\ Do("round", Idle)
  /\ UNCHANGED <<encounter, alive, phase, auto, asking, votes, openings, people, retry, durable>>

(* completeEncounter: every member is rewarded in a transaction of its own;*)
(* after the last encounter the floor is completed for each.               *)
EncounterWon ==
  /\ work["round"].at = "won"
  /\ Visit("round", "award", {}, "NONE", Idle)
  /\ UNCHANGED <<fight, people, combat, retry, durable>>

OpenVote ==
  /\ phase' = "POST_ENCOUNTER"
  /\ votes' = NoVotes
  /\ recent' = {}
  /\ Do("round", Idle)
  /\ UNCHANGED <<auto, actions, asking, timer, openings>>

(* What follows the visit of the loop's last member.                       *)
AfterVisit(at, done) ==
  LET rest == members \ done IN
  \/ rest # {} /\ Visit("round", at, done, "NONE", Idle) /\ UNCHANGED combat
  \/ /\ rest = {} /\ at = "award" /\ encounter = Encounters
     /\ Visit("round", "unlock", {}, "NONE", Idle) /\ UNCHANGED combat
  \/ rest = {} /\ (at = "unlock" \/ encounter < Encounters) /\ OpenVote

AwardProgression ==
  LET w == work["round"]
      rewarded == [awarded EXCEPT ![w.who] = @ \cup {encounter}]
  IN
  /\ w.at = "award"
  /\ \/ awarded' = rewarded /\ AfterVisit("award", w.done \cup {w.who})
     \/ Fails("award") /\ awarded' \in {awarded, rewarded} /\ Catch
  /\ UNCHANGED <<fight, people, retry, marker, unlocked, kept>>

CompleteRiftFloor ==
  LET w == work["round"]
      completed == unlocked \cup {w.who}
  IN
  /\ w.at = "unlock"
  /\ \/ unlocked' = completed /\ AfterVisit("unlock", w.done \cup {w.who})
     \/ Fails("unlock") /\ unlocked' \in {unlocked, completed} /\ Catch
  /\ UNCHANGED <<fight, people, retry, marker, awarded, kept>>

-----------------------------------------------------------------------------
(* The decision of evaluateVotes among the connected living members, as it *)
(* stands with these votes.                                                *)
Decision(cast) ==
  LET for(v) == {p \in Present : cast[p] = v}
      majority(v) == 2 * Cardinality(for(v)) > Cardinality(Present)
  IN  IF majority("CONTINUE") THEN "CONTINUE"
      ELSE IF majority("EXIT") THEN "EXIT"
      ELSE IF \E p \in Present : cast[p] = "NONE" THEN "NONE"
      ELSE IF cast[Leader] = "NONE" THEN "EXIT" ELSE cast[Leader]

(* The telemetry of a continued run reads the repository before startRound:*)
(* if that read fails there is none.                                       *)
StartsOrNot == {openings + 1} \cup (IF Fails("snapshot") THEN {openings} ELSE {})

(* Bug: one encounter too many.                                            *)
DecidePastLast(cast) ==
  LET decision == Decision(cast)
      over == decision = "EXIT" \/ (decision = "CONTINUE" /\ encounter > Encounters)
  IN
  \/ /\ decision = "NONE" /\ votes' = cast
     /\ UNCHANGED <<encounter, round, phase, recent, auto, actions, asking, timer, openings, work>>
  \/ /\ over
     /\ EndCombat("FINISHED")
     /\ ExtractLoot("vote", IF encounter = Encounters THEN "COMPLETED" ELSE "EXITED")
     /\ UNCHANGED <<encounter, round>>
  \/ /\ decision = "CONTINUE" /\ ~ over
     /\ encounter' = encounter + 1 /\ round' = 1
     /\ votes' = NoVotes
     /\ phase' = "COMBAT"
     /\ openings' \in StartsOrNot
     /\ UNCHANGED <<recent, auto, actions, asking, timer, work>>

(* What evaluateVotes does with it: the run ends, or the next encounter    *)
(* begins with its first round still to be started.                        *)
EvaluateVotes(cast) ==
  LET decision == Decision(cast)
      over == decision = "EXIT" \/ (decision = "CONTINUE" /\ encounter = Encounters)
  IN
  \/ /\ decision = "NONE" /\ votes' = cast
     /\ UNCHANGED <<encounter, round, phase, recent, auto, actions, asking, timer, openings, work>>
  \/ /\ over
     /\ EndCombat("FINISHED")
     /\ ExtractLoot("vote", IF encounter = Encounters THEN "COMPLETED" ELSE "EXITED")
     /\ UNCHANGED <<encounter, round>>
  \/ /\ decision = "CONTINUE" /\ ~ over
     /\ encounter' = encounter + 1 /\ round' = 1
     /\ votes' = NoVotes
     /\ phase' = "COMBAT"
     /\ openings' \in StartsOrNot
     /\ UNCHANGED <<recent, auto, actions, asking, timer, work>>

(* The living members vote, and the leader dead or alive.                  *)
CastVote(p, v) ==
  /\ phase = "POST_ENCOUNTER"
  /\ p \in members \cap conn /\ (p \in alive \/ p = Leader)
  /\ EvaluateVotes([votes EXCEPT ![p] = v])
  /\ UNCHANGED <<alive, people, retry, durable>>

(* Bug: everything is kept of a failed run.                                *)
CommitLootWhole(w) ==
  kept' = [kept EXCEPT ![w.who] = IF @ = "NONE" THEN "ALL" ELSE @]

(* One commitLoot of extractLoot: all of a run that ended well, a part of  *)
(* a failed one, once per player and room.                                 *)
CommitLoot(w) ==
  kept' = [kept EXCEPT ![w.who] = IF @ # "NONE" THEN @
                                  ELSE IF w.status = "FAILED" THEN "PART" ELSE "ALL"]

(* A failing extraction, committed or not, is caught in a round; elsewhere *)
(* it ends the handler and the room stays as it is.                        *)
Extract(h) ==
  LET w == work[h] IN
  /\ w.at = "extract"
  /\ \/ /\ CommitLoot(w) /\ UNCHANGED combat
        /\ Visit(h, "extract", w.done \cup {w.who}, w.status, Step("finish", NoOne, {}, w.status))
     \/ /\ Fails("extract") /\ (CommitLoot(w) \/ UNCHANGED kept)
        /\ \/ h = "round" /\ Catch
           \/ h # "round" /\ Do(h, Step("failed", NoOne, {}, w.status)) /\ UNCHANGED combat
  /\ UNCHANGED <<fight, people, retry, marker, awarded, unlocked>>

(* PlaytestTelemetry.finishExpedition updates an active marker only.       *)
Finished(status) == IF marker = "ACTIVE" THEN status ELSE marker

(* Bug: an update that fails ends the handler before finalizeRoom.         *)
FinishWhenWritten(h) ==
  LET w == work[h] IN
  /\ w.at = "finish"
  /\ \/ marker' = Finished(w.status) /\ DeleteRoom
     \/ Fails("finish") /\ UNCHANGED <<marker, people, combat>>
  /\ Do(h, Idle)
  /\ UNCHANGED <<fight, retry, awarded, unlocked, kept>>

(* The outcome is reported and the room finalized.  An update that fails,  *)
(* or whose answer is lost, is tried again later.                          *)
FinishExpedition(h) ==
  LET w == work[h] IN
  /\ w.at = "finish"
  /\ \/ marker' = Finished(w.status) /\ UNCHANGED retry
     \/ /\ Fails("finish") /\ marker' \in {marker, Finished(w.status)}
        /\ retry' = [status |-> w.status, left |-> Attempts - 1]
  /\ DeleteRoom /\ Do(h, Idle)
  /\ UNCHANGED <<fight, awarded, unlocked, kept>>

RetryFinish ==
  /\ retry.left > 0
  /\ \/ marker' = Finished(retry.status) /\ retry' = [status |-> "NONE", left |-> 0]
     \/ /\ Fails("finish") /\ marker' \in {marker, Finished(retry.status)}
        /\ retry' = [retry EXCEPT !.left = @ - 1]
  /\ UNCHANGED <<fight, people, combat, work, awarded, unlocked, kept>>

-----------------------------------------------------------------------------
Disconnect(p) ==
  /\ p \in members \cap conn
  /\ conn' = conn \ {p}
  /\ recent' = IF phase = "COMBAT" THEN recent \cup {p} ELSE recent
  /\ UNCHANGED <<phase, members, late, auto, actions, asking, votes, timer, openings, fight,
                 work, retry, durable>>

(* connectResolved: within the grace period the member is connected again; *)
(* after it, it is refused as long as the run lasts, and an ended run's    *)
(* room is finalized.                                                      *)
Connect(p) ==
  /\ p \in members \ conn
  /\ \/ /\ p \notin late
        /\ conn' = conn \cup {p} /\ recent' = recent \ {p}
        /\ UNCHANGED <<phase, members, late, auto, actions, asking, votes, timer, openings>>
     \/ p \in late /\ phase \in {"FINISHED", "FAILED"} /\ DeleteRoom
  /\ UNCHANGED <<fight, work, retry, durable>>

(* handleReconnectExpiry: with no living member connected nobody can vote, *)
(* and the run has failed.                                                 *)
ReconnectExpiry(p) ==
  /\ p \in members \ (conn \cup late \cup recent)
  /\ late' = late \cup {p}
  /\ \/ /\ phase = "POST_ENCOUNTER" /\ Present = {}
        /\ EndCombat("FAILED") /\ ExtractLoot("expiry", "FAILED")
     \/ (phase # "POST_ENCOUNTER" \/ Present # {}) /\ UNCHANGED <<combat, work>>
  /\ UNCHANGED <<members, conn, fight, retry, durable>>

(* leaveParty of an ended run whose room is not finalized yet.             *)
LeaveParty(p) ==
  /\ phase \in {"FINISHED", "FAILED"} /\ p \in members \cap conn
  /\ \/ members = {p} /\ DeleteRoom
     \/ members # {p} /\ members' = members \ {p} /\ UNCHANGED <<conn, late, combat>>
  /\ UNCHANGED <<fight, work, retry, durable>>

(* Bug: the recovery does not ask whether the expedition is active.        *)
RestartInterruptsAll ==
  /\ DeleteRoom
  /\ work' = [h \in Handler |-> Idle] /\ retry' = [status |-> "NONE", left |-> 0]
  /\ marker' = "SERVER_INTERRUPTED"
  /\ UNCHANGED <<fight, awarded, unlocked, kept>>

(* The server stops and starts again: memory is lost and                   *)
(* recoverInterruptedExpeditions marks the active expeditions.             *)
Restart ==
  /\ DeleteRoom
  /\ work' = [h \in Handler |-> Idle] /\ retry' = [status |-> "NONE", left |-> 0]
  /\ marker' = Finished("SERVER_INTERRUPTED")
  /\ UNCHANGED <<fight, awarded, unlocked, kept>>

ResolveRound ==
  Fight \/ RoundLost \/ NextRound \/ EncounterWon \/ AwardProgression \/ CompleteRiftFloor

EndRun(h) == Extract(h) \/ FinishExpedition(h)

Next ==
  \/ \E p \in Player :
       \/ SubmitAction(p) \/ ResolveEarly(p)
       \/ \E enabled \in BOOLEAN : SetAutoBattle(p, enabled)
       \/ \E v \in {"CONTINUE", "EXIT"} : CastVote(p, v)
       \/ Disconnect(p) \/ Connect(p) \/ ReconnectExpiry(p) \/ LeaveParty(p)
  \/ OpenRound \/ RoundTimer \/ ResolveRound \/ RetryFinish
  \/ \E h \in Handler : EndRun(h)
  \/ Restart

Spec == Init /\ [][Next]_vars

(* The repository and telemetry answer, and the timers fire.               *)
Fairness ==
  /\ WF_vars(OpenRound) /\ WF_vars(RoundTimer) /\ WF_vars(ResolveRound)
  /\ \A h \in Handler : WF_vars(EndRun(h))
  /\ \A p \in Player : WF_vars(ResolveEarly(p)) /\ WF_vars(ReconnectExpiry(p))

FairSpec == Spec /\ Fairness

-----------------------------------------------------------------------------
(* Type correctness: among others the encounter and the round stay in      *)
(* range and a loop visits one of the party.                               *)
TypeOK ==
  /\ phase \in Phase /\ encounter \in 1 .. Encounters /\ round \in 1 .. MaxRounds[encounter]
  /\ members \in SUBSET Player /\ alive \in SUBSET Player /\ conn \in SUBSET Player
  /\ late \in SUBSET Player /\ recent \in SUBSET Player
  /\ auto \in SUBSET Player /\ asking \in SUBSET Player
  /\ actions \in [Player -> [encounter : 0 .. Encounters, round : Nat]]
  /\ votes \in [Player -> {"NONE", "CONTINUE", "EXIT"}]
  /\ timer \in BOOLEAN /\ openings \in Nat
  /\ work \in [Handler -> [at : {"idle", "fight", "fought", "won", "award", "unlock", "extract", "finish", "failed"},
                           who : Player \cup {NoOne}, done : SUBSET Player,
                           status : Outcome \cup {"NONE"}]]
  /\ \A h \in Handler : work[h].at \in {"award", "unlock", "extract"} => work[h].who \in Player
  /\ marker \in Outcome \cup {"ACTIVE", "SERVER_INTERRUPTED"}
  /\ retry \in [status : Outcome \cup {"NONE"}, left : 0 .. Attempts - 1]
  /\ awarded \in [Player -> SUBSET (1 .. Encounters)]
  /\ unlocked \in SUBSET Player
  /\ kept \in [Player -> {"NONE", "PART", "ALL"}]

(* Only one handler ends the run: vote, expiry and a lost round never      *)
(* extract or report at the same time, nor while a round is resolved.      *)
OneOutcome ==
  \A g, h \in Handler : work[g].at # "idle" /\ work[h].at \in {"extract", "finish"} => g = h

(* A run reported as ended well left nobody a part only, a failed one left *)
(* nobody everything, members still in the room have their loot before the *)
(* report, and a completed floor is recorded for the whole party.          *)
LootFollowsOutcome ==
  /\ marker \in {"COMPLETED", "EXITED"} => \A p \in Player : kept[p] # "PART"
  /\ marker = "FAILED" => \A p \in Player : kept[p] # "ALL"
  /\ \A h \in Handler : work[h].at = "finish" /\ work[h].status # "FAILED" =>
       \A p \in members : kept[p] = "ALL"
  /\ marker = "COMPLETED" => unlocked = Player

(* Nobody has an encounter's reward before all have that of the encounter  *)
(* before, nor the floor before all rewards.                               *)
ProgressIsEarned ==
  \A p, q \in Player :
    /\ \A e \in awarded[p] : \A before \in 1 .. e - 1 : before \in awarded[q]
    /\ p \in unlocked => awarded[q] = 1 .. Encounters

(* The end of a run is one end, whatever interleaves: one handler decides  *)
(* it, the durable outcome agrees with the loot, and durable progress is   *)
(* earned in order by the party as a whole, across failures and restarts.  *)
RunEndsOneWay == OneOutcome /\ LootFollowsOutcome /\ ProgressIsEarned

(* The durable outcome is final: neither a late retry nor a restart        *)
(* rewrites it.                                                            *)
MarkerIsFinal == [][marker # "ACTIVE" => marker' = marker]_vars

(* Combat never stands still: however the players connect and whatever     *)
(* they submit, round after round is resolved and every resolution ends.   *)
RoundsEnd == []<>(phase # "COMBAT" \/ Resolving) /\ []<>~ Resolving

TerminalRoomIsFinalized ==
  phase \in {"FINISHED", "FAILED"} ~>
    phase = "GONE" \/ \E h \in Handler : work[h].at = "failed"

AbandonedRunEnds ==
  members # {} /\ members \subseteq late /\ phase \in {"COMBAT", "POST_ENCOUNTER"}
    ~> phase \notin {"COMBAT", "POST_ENCOUNTER"}

(* A run goes on until it ends and its room is deleted: rounds end;        *)
(* "terminal outcomes centrally clear timers ... room membership, and      *)
(* stale room state", unless the repository failed while a vote or an      *)
(* expiry extracted its loot; and a run that everyone has left for longer  *)
(* than the grace period ends, so that nobody is refused with              *)
(* RIFT_RECONNECT_EXPIRED for ever.                                        *)
RunsEnd == RoundsEnd /\ TerminalRoomIsFinalized /\ AbandonedRunEnds

=============================================================================
