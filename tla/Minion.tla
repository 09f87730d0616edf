------------------------------- MODULE Minion -------------------------------
(***************************************************************************)
(* The minions of a room: statistics, buffs, upgrades, the attack counter   *)
(* (AC) that charges a skill, and the choice between attack and skill when  *)
(* MinionManager::Update visits a minion.                                   *)
(*                                                                          *)
(* Minion objects are pooled.  Reset and Init leave m_attackIsReady and     *)
(* m_skillIsReady as the object's last minion left them, and OnEndWave      *)
(* resets the AC but not the flags, so that a flag and the counter it was   *)
(* computed from can disagree.  An update visits all its minions even if    *)
(* one of them ends the wave: the others attack the dead, with flags and    *)
(* counters that no longer belong together.                                 *)
(*                                                                          *)
(* Times are in ticks of a fixed length.  Of the specification of a default *)
(* attack only maxTargets is kept, which decides how many minions a buff    *)
(* reaches.  What an attack does to enemies is RoomTick's; here it may end  *)
(* the wave or the stage.                                                   *)
(***************************************************************************)
EXTENDS Integers, Sequences, FiniteSets, SequencesExt

CONSTANTS
  Objects,      \* minion objects of the pool
  Kinds,        \* ids of MinionData.json
  Data,         \* the data of a kind and of its skill; a buff that leaves the
                \* specification of attacks alone has -1 for maxTargets
  NoKind,       \* an object in the pool
  MaxCooldown   \* no cooldown is longer

ASSUME MinionAssumption ==
  /\ NoKind \notin Kinds
  /\ MaxCooldown \in Nat
  /\ \A k \in Kinds : /\ Data[k].maxAC \in Nat \ {0}
                      /\ Data[k].skillType \in {"Impact", "Projectile", "AOE", "Buff"}

VARIABLES
  minion,  \* the objects, with their MinionStat
  state,   \* m_gameState; "Intermission" stands for "WaitingForPlayers" too
  turns,   \* minions of the snapshot that Update has not visited yet
  crashed  \* a skill handler has called a strategy that is null

vars == <<minion, state, turns, crashed>>

-----------------------------------------------------------------------------
(* MinionStat *)

Total(values) == FoldLeft(LAMBDA sum, value : sum + value, 0, values)

Bonus(buffs) == Total([i \in DOMAIN buffs |-> buffs[i].value])

\* What m_attackSpecBuffs says of attacks, the latest buff last.
Specs(buffs) == [i \in DOMAIN buffs |-> buffs[i].maxTargets]

CeilDiv(a, b) == (a + b - 1) \div b

AtLeast(low, x) == IF x < low THEN low ELSE x

\* m_current but for currentAC, computed from m_base and the buffs of x.
Stats(x) ==
  [power |-> (x.base.power * (100 + Bonus(x.power))) \div 100,
   cooldown |-> AtLeast(1, CeilDiv(x.base.cooldown * 100, 100 + Bonus(x.speed))),
   maxAC |-> x.base.maxAC,
   skillMaxTargets |-> x.base.skillMaxTargets,
   maxTargets |-> IF Specs(x.spec) = <<>> THEN x.base.maxTargets ELSE Last(Specs(x.spec)),
   custom |-> Specs(x.spec) # <<>>]

Recalculate(x) == [x EXCEPT !.cur = Stats(x)]

\* Mutant: the statistics are left as they are.
ClearBuffs_Only(x) == [x EXCEPT !.power = <<>>, !.speed = <<>>, !.spec = <<>>]

\* Minion::ClearBuffs
ClearBuffs(x) == Recalculate([x EXCEPT !.power = <<>>, !.speed = <<>>, !.spec = <<>>])

\* A buff has left ticks to go; it is permanent if it starts with 0.
Expires(b) == b.left = 1

Unexpired(buffs) == SelectSeq(buffs, LAMBDA b : ~Expires(b))

\* The buffs after a tick in which they do not expire.
Older(buffs) ==
  [i \in DOMAIN buffs |->
     LET b == buffs[i] IN
     [id |-> b.id, value |-> b.value, maxTargets |-> b.maxTargets,
      left |-> IF b.left > 0 THEN b.left - 1 ELSE b.left]]

\* MinionStat::Update
UpdateStats(x) ==
  IF \E b \in ToSet(x.power \o x.speed \o x.spec) : Expires(b)
  THEN Recalculate([x EXCEPT !.power = Older(Unexpired(@)), !.speed = Older(Unexpired(@)),
                             !.spec = Older(Unexpired(@))])
  ELSE [x EXCEPT !.power = Older(@), !.speed = Older(@), !.spec = Older(@)]

\* The AddBase functions (the range is left out), for an amount of 1.
UpgradedBase(base, stat) ==
  CASE stat = "power" -> [base EXCEPT !.power = @ + 1]
    [] stat = "cooldown" -> [base EXCEPT !.cooldown = AtLeast(1, @ - 1)]
    [] stat = "maxAC" -> [base EXCEPT !.maxAC = AtLeast(1, @ - 1)]
    [] stat = "skillMaxTargets" -> [base EXCEPT !.skillMaxTargets = @ + 1]
    [] OTHER -> base

-----------------------------------------------------------------------------
(* A minion *)

BaseStats(k) ==
  [power |-> Data[k].power, cooldown |-> Data[k].cooldown, maxAC |-> Data[k].maxAC,
   skillMaxTargets |-> Data[k].skillMaxTargets, maxTargets |-> Data[k].maxTargets]

NewSlots(k) == [stat \in DOMAIN Data[k].slots |-> 0]

\* Mutant: the attack counter of the last minion is kept.
Initialised_KeepsAC(x, k) ==
  ClearBuffs([x EXCEPT !.kind = k, !.base = BaseStats(k), !.slots = NewSlots(k),
                       !.timer = 0])

\* Minion::Init
Initialised(x, k) ==
  ClearBuffs([x EXCEPT !.kind = k, !.base = BaseStats(k), !.slots = NewSlots(k),
                       !.ac = 0, !.timer = 0])

\* Minion::Reset.  The statistics it leaves behind are gone with the next Init.
ResetMinion(x) == [x EXCEPT !.kind = NoKind, !.timer = 0]

\* A new object, whose statistics are those of no kind.
NewObject ==
  [kind |-> NoKind, base |-> <<>>, cur |-> <<>>, ac |-> 0, slots |-> <<>>,
   power |-> <<>>, speed |-> <<>>, spec |-> <<>>, timer |-> 0,
   attackReady |-> FALSE, skillReady |-> FALSE]

OnBoard == {m \in Objects : minion[m].kind # NoKind}

\* Minion::Update
Updated(x) ==
  LET y == UpdateStats(x)
      timer == IF y.timer < MaxCooldown THEN y.timer + 1 ELSE y.timer
  IN  IF timer < y.cur.cooldown
      THEN [y EXCEPT !.timer = timer]
      ELSE [y EXCEPT !.timer = timer, !.attackReady = TRUE,
                     !.skillReady = @ \/ y.ac >= y.cur.maxAC]

SkillType(x) == Data[x.kind].skillType

\* Mutant: charged as GetMaxTargets sees it, by the counter.
GetTargetType_ByCounter(x) ==
  IF x.ac >= x.cur.maxAC /\ SkillType(x) = "Buff" THEN "Minion" ELSE "Enemy"

GetTargetType(x) == IF x.skillReady /\ SkillType(x) = "Buff" THEN "Minion" ELSE "Enemy"

\* GetMaxTargets; 0 and less is no limit.  A scope that is not in SearchScope, as
\* the data of buffs has it, falls through the switch.
GetMaxTargets(x) ==
  LET scope == Data[x.kind].searchScope IN
  CASE x.ac >= x.cur.maxAC /\ scope = "SingleTarget" -> 1
    [] x.ac >= x.cur.maxAC /\ scope = "MultipleTarget" -> x.cur.skillMaxTargets
    [] x.ac >= x.cur.maxAC /\ scope = "Area" -> 0
    [] OTHER -> x.cur.maxTargets

\* SkillFactory: which strategy is not null.
HasEnemyStrategy(x) == SkillType(x) \in {"Impact", "Projectile", "AOE"}
HasMinionStrategy(x) == SkillType(x) = "Buff"

\* The end of OnEnemyTarget and OnMinionTarget.
Rested(x) == [x EXCEPT !.timer = 0, !.attackReady = FALSE]

\* The skill is spent before its handler runs.
Spent(x) == [x EXCEPT !.ac = 0, !.skillReady = FALSE]

\* The buffs whose id SkillManager has a skill for, and that it is for.
BuffsFor(id, buffs) == SelectSeq(buffs, LAMBDA b : b.id = id)

\* BuffSkillStrategy::Execute, for one of its targets.
Buffed(x, buffs) ==
  LET power == BuffsFor("power", buffs) IN
  Recalculate([x EXCEPT !.power = @ \o power,
                        !.speed = @ \o BuffsFor("attackSpeed", buffs),
                        !.spec = @ \o SelectSeq(power, LAMBDA b : b.maxTargets >= 0)])

-----------------------------------------------------------------------------
(* The room *)

Init ==
  /\ minion = [m \in Objects |-> NewObject]
  /\ state = "Intermission"
  /\ turns = {}
  /\ crashed = FALSE

\* Handlers and commands never run in the middle of an update, which cleans up
\* after a stage that has ended in it.
Idle == turns = {} /\ state # "EndStage" /\ ~crashed

Spawn(m, k) ==
  /\ Idle /\ state = "Intermission" /\ m \notin OnBoard
  /\ minion' = [minion EXCEPT ![m] = Initialised(@, k)]
  /\ UNCHANGED <<state, turns, crashed>>

Sell(m) ==
  /\ Idle /\ m \in OnBoard
  /\ minion' = [minion EXCEPT ![m] = ResetMinion(@)]
  /\ UNCHANGED <<state, turns, crashed>>

Upgrade(m, stat) ==
  LET x == minion[m] IN
  /\ Idle /\ m \in OnBoard
  /\ stat \in DOMAIN x.slots /\ x.slots[stat] < Data[x.kind].slots[stat]
  /\ minion' = [minion EXCEPT
                  ![m] = Recalculate([x EXCEPT !.base = UpgradedBase(@, stat),
                                               !.slots[stat] = @ + 1])]
  /\ UNCHANGED <<state, turns, crashed>>

WaveStart ==
  /\ Idle /\ state = "Intermission"
  /\ state' = "Wave"
  /\ UNCHANGED <<minion, turns, crashed>>

\* MinionManager::OnEndWave
OnEndWave(f) ==
  [m \in Objects |->
     IF m \in OnBoard THEN ClearBuffs([f[m] EXCEPT !.ac = 0]) ELSE f[m]]

\* The last enemy arrives, burns or is hit by a projectile.
WaveEnds ==
  /\ Idle /\ state = "Wave"
  /\ state' = "Intermission"
  /\ minion' = OnEndWave(minion)
  /\ UNCHANGED <<turns, crashed>>

\* At the end of an update in which the stage has ended, or when the last player
\* has left: MinionManager::Clear.
ResetStageState ==
  /\ turns = {} /\ ~crashed
  /\ state' = "Intermission"
  /\ minion' = [m \in Objects |-> IF m \in OnBoard THEN ResetMinion(minion[m])
                                                   ELSE minion[m]]
  /\ UNCHANGED <<turns, crashed>>

-----------------------------------------------------------------------------
(* MinionManager::Update *)

BeginUpdate ==
  /\ Idle /\ state = "Wave" /\ OnBoard # {}
  /\ turns' = OnBoard
  /\ UNCHANGED <<minion, state, crashed>>

Visit(m) == ~crashed /\ m \in turns /\ turns' = turns \ {m}

\* The cooldown is not over, or there is no enemy in range.  (A minion always has
\* itself in range.)
Pass(m) ==
  LET x == Updated(minion[m]) IN
  /\ Visit(m)
  /\ x.attackReady => GetTargetType(x) = "Enemy"
  /\ minion' = [minion EXCEPT ![m] = x]
  /\ UNCHANGED <<state, crashed>>

\* The room after an attack with the minions f, where the attacker rests last.
\* If the attack kills the last enemy it ends the wave or, after the last wave,
\* the stage.  That is once an update: the dead do not die again.
AfterAttack(m, f) ==
  \/ /\ minion' = [f EXCEPT ![m] = Rested(@)]
     /\ UNCHANGED state
  \/ /\ state = "Wave" /\ state' = "Intermission"
     /\ minion' = [OnEndWave(f) EXCEPT ![m] = Rested(@)]
  \/ /\ state = "Wave" /\ state' = "EndStage"
     /\ minion' = [f EXCEPT ![m] = Rested(@)]

\* Whatever the state of the room: FindEnemyInRange asks for active enemies, and
\* the dead stay active until they are used again and in m_enemies until the
\* next EnemyManager::Update, so that the minions visited after the one that
\* ended the wave still find some in range.
MayAttack(m, x) == Visit(m) /\ x.attackReady /\ GetTargetType(x) = "Enemy"

\* OnEnemyTarget with DefaultAttackHandle.
DefaultAttack(m) ==
  LET x == Updated(minion[m]) IN
  /\ MayAttack(m, x) /\ ~x.skillReady
  /\ AfterAttack(m, [minion EXCEPT ![m] = [x EXCEPT !.ac = @ + 1]])
  /\ UNCHANGED crashed

\* OnEnemyTarget with EnemyTargetSkillHandle.
EnemyTargetSkill(m) ==
  LET x == Updated(minion[m]) IN
  /\ MayAttack(m, x) /\ x.skillReady
  /\ IF HasEnemyStrategy(x)
     THEN /\ AfterAttack(m, [minion EXCEPT ![m] = Spent(x)])
          /\ SkillType(x) = "Projectile" => UNCHANGED state
          /\ UNCHANGED crashed
     ELSE crashed' = TRUE /\ UNCHANGED <<minion, state>>

\* FindMinionInRange: the nearest ones, the caster first.
InRange(m, x, targets) ==
  /\ targets \subseteq OnBoard /\ m \in targets
  /\ GetMaxTargets(x) > 0 => Cardinality(targets) <= GetMaxTargets(x)

\* OnMinionTarget with MinionTargetSkillHandle.
MinionTargetSkill(m, targets) ==
  LET x == Updated(minion[m])
      cast == [minion EXCEPT ![m] = Spent(x)]
      buffs == Data[x.kind].buffs
  IN
  /\ Visit(m) /\ x.attackReady /\ GetTargetType(x) = "Minion"
  /\ InRange(m, x, targets)
  /\ UNCHANGED state
  /\ IF HasMinionStrategy(x)
     THEN /\ minion' = [[t \in Objects |-> IF t \in targets THEN Buffed(cast[t], buffs)
                                                            ELSE cast[t]]
                        EXCEPT ![m] = Rested(@)]
          /\ UNCHANGED crashed
     ELSE crashed' = TRUE /\ UNCHANGED minion

-----------------------------------------------------------------------------
Next ==
  \/ \E m \in Objects :
       \/ \E k \in Kinds : Spawn(m, k)
       \/ Sell(m)
       \/ \E stat \in {"power", "cooldown", "maxAC", "skillMaxTargets"} : Upgrade(m, stat)
       \/ Pass(m) \/ DefaultAttack(m) \/ EnemyTargetSkill(m)
       \/ \E targets \in SUBSET Objects : MinionTargetSkill(m, targets)
  \/ WaveStart \/ WaveEnds \/ ResetStageState \/ BeginUpdate

Spec == Init /\ [][Next]_vars

-----------------------------------------------------------------------------
(* Properties *)

\* The attack counter of a minion on the board never passes the maximum of its
\* data, however upgrades lower the current maximum and cooldowns change with
\* buffs: a counter that is full is spent by the next attack.
ChargeIsBounded ==
  \A m \in OnBoard : minion[m].ac \in 0 .. Data[minion[m].kind].maxAC

\* Types, with the bound on the attack counter.  (What a buff list may hold is up
\* to Data.)
TypeOK ==
  /\ \A m \in Objects :
       /\ minion[m].kind \in Kinds \cup {NoKind}
       /\ minion[m].timer \in 0 .. MaxCooldown
       /\ minion[m].attackReady \in BOOLEAN /\ minion[m].skillReady \in BOOLEAN
  /\ ChargeIsBounded
  /\ state \in {"Intermission", "Wave", "EndStage"}
  /\ turns \subseteq OnBoard
  /\ crashed \in BOOLEAN

\* The statistics that attacks are made with are those of the base values and of
\* the buffs that are left, in spite of the many places that have to call
\* Recalculate: no upgrade, buff, expiry, end of a wave or reuse of a pooled
\* object leaves a stale value behind.
StatsAreCurrent == \A m \in OnBoard : minion[m].cur = Stats(minion[m])

\* A skill handler never calls a null strategy: the flag that says that a skill is
\* ready, which outlives its counter at the end of a wave and in the pool, is the
\* same one that chooses the targets.
SkillHasStrategy == ~crashed

=============================================================================
