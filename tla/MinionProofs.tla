---------------------------- MODULE MinionProofs ----------------------------
(***************************************************************************)
(* Proofs about Minion for any minions and data: types with the bound on    *)
(* the attack counter, that the statistics in use are those of the base and *)
(* the buffs, and that no skill handler calls a null strategy.              *)
(*                                                                          *)
(* The bound is not inductive by itself.  Inv adds what makes it so: no     *)
(* upgrade lifts the maximum above that of the data, and a minion whose     *)
(* counter has reached the maximum of the data is not ready for an attack   *)
(* without being ready for its skill.                                       *)
(***************************************************************************)
EXTENDS Minion, TLAPS

Fields == {"kind", "base", "cur", "ac", "slots", "power", "speed", "spec", "timer",
           "attackReady", "skillReady"}
BaseFields == {"power", "cooldown", "maxAC", "skillMaxTargets", "maxTargets"}

MaxAC(x) == Data[x.kind].maxAC

\* What holds of every minion object, its current statistics left out: even in
\* the middle of an attack ...
Loose(x) ==
  /\ DOMAIN x = Fields
  /\ x.kind \in Kinds \cup {NoKind}
  /\ x.timer \in 0 .. MaxCooldown
  /\ x.attackReady \in BOOLEAN /\ x.skillReady \in BOOLEAN
  /\ x.kind # NoKind =>
       /\ DOMAIN x.base = BaseFields
       /\ x.base.maxAC \in 1 .. MaxAC(x)
       /\ x.ac \in 0 .. MaxAC(x)

\* ... and before and after it.
SoundBase(x) ==
  /\ Loose(x)
  /\ x.kind # NoKind /\ x.ac = MaxAC(x) /\ x.attackReady => x.skillReady

\* With the current statistics.
Sound(x) == SoundBase(x) /\ (x.kind # NoKind => x.cur = Stats(x))

Inv ==
  /\ DOMAIN minion = Objects
  /\ \A m \in Objects : Sound(minion[m])
  /\ turns \subseteq OnBoard
  /\ state \in {"Intermission", "Wave", "EndStage"}
  /\ crashed = FALSE

USE MinionAssumption

-----------------------------------------------------------------------------
(* The functions on minions *)

\* What the statistics are computed from.
LEMMA SameStats ==
  ASSUME NEW x, NEW y, y.base = x.base, Bonus(y.power) = Bonus(x.power),
         Bonus(y.speed) = Bonus(x.speed), Specs(y.spec) = Specs(x.spec)
  PROVE  Stats(y) = Stats(x)
  BY DEF Stats

LEMMA StatsMaxAC == ASSUME NEW x PROVE Stats(x).maxAC = x.base.maxAC
  BY DEF Stats

\* A tick in which no buff expires changes no statistic.
LEMMA OlderCounts ==
  ASSUME NEW buffs
  PROVE  Bonus(Older(buffs)) = Bonus(buffs) /\ Specs(Older(buffs)) = Specs(buffs)
<1>1. /\ DOMAIN Older(buffs) = DOMAIN buffs
      /\ \A i \in DOMAIN buffs : /\ Older(buffs)[i].value = buffs[i].value
                                 /\ Older(buffs)[i].maxTargets = buffs[i].maxTargets
  BY DEF Older
<1>2. [i \in DOMAIN Older(buffs) |-> Older(buffs)[i].value] = [i \in DOMAIN buffs |-> buffs[i].value]
  BY <1>1
<1>3. Specs(Older(buffs)) = Specs(buffs)
  BY <1>1 DEF Specs
<1> QED
  BY <1>2, <1>3 DEF Bonus

LEMMA CurrentStays ==
  ASSUME NEW x, NEW y, x.kind # NoKind => x.cur = Stats(x),
         \A f \in {"kind", "base", "cur", "power", "speed", "spec"} : y[f] = x[f]
  PROVE  y.kind # NoKind => y.cur = Stats(y)
<1>1. y.kind = x.kind /\ y.cur = x.cur /\ y.base = x.base
  OBVIOUS
<1>2. y.power = x.power /\ y.speed = x.speed /\ y.spec = x.spec
  OBVIOUS
<1>3. Stats(y) = Stats(x)
  BY <1>1, <1>2, SameStats
<1> QED
  BY <1>1, <1>3

\* Recalculate leaves nothing stale and touches nothing else.
LEMMA RecalculateSound ==
  ASSUME NEW x, SoundBase(x)
  PROVE  Sound(Recalculate(x)) /\ Recalculate(x).kind = x.kind
<1>1. DOMAIN Recalculate(x) = Fields
      /\ \A f \in Fields \ {"cur"} : Recalculate(x)[f] = x[f]
  BY DEF Recalculate, SoundBase, Loose, Fields
<1>2. Recalculate(x).cur = Stats(x)
  BY DEF Recalculate, SoundBase, Loose, Fields
<1>3. Stats(Recalculate(x)) = Stats(x)
  BY <1>1, SameStats DEF Fields
<1>4. SoundBase(Recalculate(x)) /\ Recalculate(x).kind = x.kind
  BY <1>1 DEF SoundBase, Loose, MaxAC, Fields
<1> QED
  BY <1>2, <1>3, <1>4 DEF Sound

LEMMA ClearBuffsSound ==
  ASSUME NEW x, SoundBase(x)
  PROVE  Sound(ClearBuffs(x)) /\ ClearBuffs(x).kind = x.kind
<1> DEFINE y == [x EXCEPT !.power = <<>>, !.speed = <<>>, !.spec = <<>>]
<1>1. SoundBase(y) /\ y.kind = x.kind
  BY DEF SoundBase, Loose, MaxAC, Fields
<1> HIDE DEF y
<1>2. Sound(Recalculate(y)) /\ Recalculate(y).kind = x.kind
  BY <1>1, RecalculateSound
<1> QED
  BY <1>2 DEF ClearBuffs, y

LEMMA BuffedSound ==
  ASSUME NEW x, SoundBase(x), NEW buffs
  PROVE  Sound(Buffed(x, buffs)) /\ Buffed(x, buffs).kind = x.kind
<1> DEFINE power == BuffsFor("power", buffs)
           y == [x EXCEPT !.power = @ \o power,
                          !.speed = @ \o BuffsFor("attackSpeed", buffs),
                          !.spec = @ \o SelectSeq(power, LAMBDA b : b.maxTargets >= 0)]
<1>1. Buffed(x, buffs) = Recalculate(y)
  BY DEF Buffed
<1> HIDE DEF power
<1>2. SoundBase(y) /\ y.kind = x.kind
  BY DEF SoundBase, Loose, MaxAC, Fields
<1> HIDE DEF y
<1> QED
  BY <1>1, <1>2, RecalculateSound

\* Whether or not a buff has run out in this tick.
LEMMA UpdateStatsSound ==
  ASSUME NEW x, Sound(x)
  PROVE  Sound(UpdateStats(x)) /\ UpdateStats(x).kind = x.kind
<1> DEFINE aged == [x EXCEPT !.power = Older(@), !.speed = Older(@), !.spec = Older(@)]
           kept == [x EXCEPT !.power = Older(Unexpired(@)), !.speed = Older(Unexpired(@)),
                             !.spec = Older(Unexpired(@))]
<1>1. UpdateStats(x) = aged \/ UpdateStats(x) = Recalculate(kept)
  BY DEF UpdateStats
<1>2. Sound(aged) /\ aged.kind = x.kind
  <2>1. /\ DOMAIN aged = Fields
        /\ \A f \in Fields \ {"power", "speed", "spec"} : aged[f] = x[f]
        /\ aged.power = Older(x.power) /\ aged.speed = Older(x.speed)
        /\ aged.spec = Older(x.spec)
    BY DEF Sound, SoundBase, Loose, Fields
  <2> HIDE DEF aged
  <2>2. Stats(aged) = Stats(x)
    <3>1. aged.base = x.base
      BY <2>1 DEF Fields
    <3> QED
      BY <2>1, <3>1, OlderCounts, SameStats
  <2>3. SoundBase(aged) /\ aged.kind = x.kind /\ aged.cur = x.cur
    BY <2>1 DEF Sound, SoundBase, Loose, MaxAC, Fields
  <2> QED
    BY <2>2, <2>3 DEF Sound
<1>3. SoundBase(kept) /\ kept.kind = x.kind
  BY DEF Sound, SoundBase, Loose, MaxAC, Fields
<1> HIDE DEF aged, kept
<1> QED
  BY <1>1, <1>2, <1>3, RecalculateSound

\* A minion that becomes ready for an attack with a full counter is ready for
\* its skill.
LEMMA UpdatedSound ==
  ASSUME NEW x, Sound(x)
  PROVE  Sound(Updated(x)) /\ Updated(x).kind = x.kind
<1> DEFINE y == UpdateStats(x)
           timer == IF y.timer < MaxCooldown THEN y.timer + 1 ELSE y.timer
<1>1. Sound(y) /\ y.kind = x.kind
  BY UpdateStatsSound
<1> HIDE DEF y
<1>2. timer \in 0 .. MaxCooldown
  BY <1>1 DEF Sound, SoundBase, Loose
<1> HIDE DEF timer
<1>3. \/ Updated(x) = [y EXCEPT !.timer = timer]
      \/ Updated(x) = [y EXCEPT !.timer = timer, !.attackReady = TRUE,
                                !.skillReady = @ \/ y.ac >= y.cur.maxAC]
  BY DEF Updated, y, timer
<1>4. CASE Updated(x) = [y EXCEPT !.timer = timer]
  <2>1. /\ DOMAIN Updated(x) = Fields /\ Updated(x).timer = timer
        /\ \A f \in Fields \ {"timer"} : Updated(x)[f] = y[f]
    BY <1>1, <1>4 DEF Sound, SoundBase, Loose, Fields
  <2>2. SoundBase(Updated(x)) /\ Updated(x).kind = x.kind
    BY <1>1, <1>2, <2>1 DEF Sound, SoundBase, Loose, MaxAC, Fields
  <2>3. Updated(x).kind # NoKind => Updated(x).cur = Stats(Updated(x))
    BY <1>1, <2>1, CurrentStays DEF Sound, Fields
  <2> QED
    BY <2>2, <2>3 DEF Sound
<1>5. CASE Updated(x) = [y EXCEPT !.timer = timer, !.attackReady = TRUE,
                                  !.skillReady = @ \/ y.ac >= y.cur.maxAC]
  <2>1. /\ DOMAIN Updated(x) = Fields
        /\ \A f \in Fields \ {"timer", "attackReady", "skillReady"} : Updated(x)[f] = y[f]
        /\ Updated(x).timer = timer /\ Updated(x).attackReady = TRUE
        /\ Updated(x).skillReady = (y.skillReady \/ y.ac >= y.cur.maxAC)
    BY <1>1, <1>5 DEF Sound, SoundBase, Loose, Fields
  <2>2. ASSUME y.kind # NoKind, y.ac = MaxAC(y)
        PROVE  Updated(x).skillReady = TRUE
    <3>1. y.kind \in Kinds /\ y.cur.maxAC \in 1 .. MaxAC(y)
      BY <1>1, <2>2, StatsMaxAC DEF Sound, SoundBase, Loose
    <3>2. y.ac >= y.cur.maxAC
      BY <2>2, <3>1 DEF MaxAC
    <3> QED
      BY <2>1, <3>2
  <2>3. SoundBase(Updated(x)) /\ Updated(x).kind = x.kind
    BY <1>1, <1>2, <2>1, <2>2 DEF Sound, SoundBase, Loose, MaxAC, Fields
  <2>4. Updated(x).kind # NoKind => Updated(x).cur = Stats(Updated(x))
    BY <1>1, <2>1, CurrentStays DEF Sound, Fields
  <2> QED
    BY <2>3, <2>4 DEF Sound
<1> QED
  BY <1>3, <1>4, <1>5

LEMMA RestedSound ==
  ASSUME NEW x, Loose(x), x.kind # NoKind => x.cur = Stats(x)
  PROVE  Sound(Rested(x)) /\ Rested(x).kind = x.kind
<1>1. SoundBase(Rested(x)) /\ Rested(x).kind = x.kind
  BY DEF Rested, SoundBase, Loose, MaxAC, Fields
<1>2. \A f \in Fields \ {"timer", "attackReady"} : Rested(x)[f] = x[f]
  BY DEF Rested, Loose, Fields
<1> QED
  BY <1>1, <1>2, CurrentStays DEF Sound, Fields

LEMMA SpentSound ==
  ASSUME NEW x, Sound(x)
  PROVE  Sound(Spent(x)) /\ Spent(x).kind = x.kind
<1>1. SoundBase(Spent(x)) /\ Spent(x).kind = x.kind
  BY DEF Spent, Sound, SoundBase, Loose, MaxAC, Fields
<1>2. \A f \in Fields \ {"ac", "skillReady"} : Spent(x)[f] = x[f]
  BY DEF Spent, Sound, SoundBase, Loose, Fields
<1> QED
  BY <1>1, <1>2, CurrentStays DEF Sound, Fields

\* A minion that is placed starts with an empty counter, whatever flags its
\* object brings.
LEMMA InitialisedSound ==
  ASSUME NEW x, Sound(x), NEW k \in Kinds
  PROVE  Sound(Initialised(x, k)) /\ Initialised(x, k).kind = k
<1> DEFINE y == [x EXCEPT !.kind = k, !.base = BaseStats(k), !.slots = NewSlots(k),
                          !.ac = 0, !.timer = 0]
<1>1. /\ DOMAIN y = Fields
      /\ y.kind = k /\ y.base = BaseStats(k) /\ y.ac = 0 /\ y.timer = 0
      /\ y.attackReady = x.attackReady /\ y.skillReady = x.skillReady
  BY DEF Sound, SoundBase, Loose, Fields
<1> HIDE DEF y
<1>2. DOMAIN BaseStats(k) = BaseFields /\ BaseStats(k).maxAC = Data[k].maxAC
  BY DEF BaseStats, BaseFields
<1>3. SoundBase(y)
  BY <1>1, <1>2 DEF SoundBase, Loose, Sound, MaxAC
<1> QED
  BY <1>1, <1>3, ClearBuffsSound DEF Initialised, y

LEMMA ResetSound ==
  ASSUME NEW x, Sound(x)
  PROVE  Sound(ResetMinion(x)) /\ ResetMinion(x).kind = NoKind
  BY DEF ResetMinion, Sound, SoundBase, Loose, MaxAC, Fields

\* The end of a wave, for all minions.
LEMMA OnEndWaveSound ==
  ASSUME NEW f,
         \A m \in Objects : /\ Loose(f[m]) /\ f[m].kind = minion[m].kind
                            /\ m \notin OnBoard => Sound(f[m])
  PROVE  /\ DOMAIN OnEndWave(f) = Objects
         /\ \A m \in Objects : Sound(OnEndWave(f)[m]) /\ OnEndWave(f)[m].kind = minion[m].kind
<1> SUFFICES ASSUME NEW m \in Objects
             PROVE  Sound(OnEndWave(f)[m]) /\ OnEndWave(f)[m].kind = minion[m].kind
  BY DEF OnEndWave
<1> DEFINE y == [f[m] EXCEPT !.ac = 0]
<1>1. SoundBase(y) /\ y.kind = minion[m].kind
  BY DEF Sound, SoundBase, Loose, MaxAC, Fields
<1> HIDE DEF y
<1>2. Sound(ClearBuffs(y)) /\ ClearBuffs(y).kind = minion[m].kind
  BY <1>1, ClearBuffsSound
<1>3. OnEndWave(f)[m] = IF m \in OnBoard THEN ClearBuffs(y) ELSE f[m]
  BY DEF OnEndWave, y
<1> QED
  BY <1>2, <1>3

-----------------------------------------------------------------------------
(* The invariant *)

\* The minions after a step that leaves them where they are.
Kept(f) ==
  /\ DOMAIN f = Objects
  /\ \A m \in Objects : Sound(f[m]) /\ f[m].kind = minion[m].kind

LEMMA KeptOne ==
  ASSUME Inv, NEW m \in Objects, NEW x, Sound(x), x.kind = minion[m].kind
  PROVE  Kept([minion EXCEPT ![m] = x])
  BY DEF Inv, Kept

LEMMA KeptKeepsInv ==
  ASSUME Inv, Kept(minion'), turns' \subseteq OnBoard, crashed' = FALSE,
         state' \in {"Intermission", "Wave", "EndStage"}
  PROVE  Inv'
  BY DEF Inv, Kept, OnBoard

\* An attack that has raised the counter of m to its maximum is over before m
\* may be asked for its skill, and the end of a wave empties the counter.
LEMMA AfterAttackKeeps ==
  ASSUME Inv, NEW m \in Objects, minion[m].kind \in Kinds,
         NEW x, Loose(x), x.cur = Stats(x), x.kind = minion[m].kind,
         AfterAttack(m, [minion EXCEPT ![m] = x])
  PROVE  Kept(minion') /\ state' \in {"Intermission", "Wave", "EndStage"}
<1> DEFINE f == [minion EXCEPT ![m] = x]
<1>1. /\ DOMAIN f = Objects /\ f[m] = x
      /\ \A o \in Objects \ {m} : f[o] = minion[o] /\ Sound(f[o])
      /\ \A o \in Objects : Loose(f[o]) /\ f[o].kind = minion[o].kind
      /\ m \in OnBoard
  BY DEF Inv, Sound, SoundBase, OnBoard
<1> HIDE DEF f
<1>2. Kept([f EXCEPT ![m] = Rested(@)])
  <2>1. Sound(Rested(x)) /\ Rested(x).kind = x.kind
    BY RestedSound
  <2> QED
    BY <1>1, <2>1 DEF Kept
<1>3. Kept(OnEndWave(f))
  BY <1>1, OnEndWaveSound DEF Kept
<1>4. Kept([OnEndWave(f) EXCEPT ![m] = Rested(@)])
  <2> DEFINE y == OnEndWave(f)[m]
  <2>1. Sound(y) /\ y.kind = minion[m].kind
    BY <1>3 DEF Kept
  <2> HIDE DEF y
  <2>2. Sound(Rested(y)) /\ Rested(y).kind = minion[m].kind
    BY <2>1, RestedSound DEF Sound, SoundBase
  <2> QED
    BY <1>3, <2>2 DEF Kept, y
<1> QED
  BY <1>2, <1>4 DEF AfterAttack, Inv, f

\* The first room has no minions.
THEOREM InitInv == Init => Inv
<1> SUFFICES ASSUME Init PROVE Inv
  OBVIOUS
<1>1. Sound(NewObject)
  BY DEF NewObject, Sound, SoundBase, Loose, Fields
<1> QED
  BY <1>1 DEF Init, Inv

\* Inv is inductive, through updates, waves, sales and objects used again.
THEOREM NextInv == Inv /\ [Next]_vars => Inv'
<1> SUFFICES ASSUME Inv, [Next]_vars PROVE Inv'
  OBVIOUS
<1>0. /\ DOMAIN minion = Objects /\ \A m \in Objects : Sound(minion[m])
      /\ turns \subseteq OnBoard /\ OnBoard \subseteq Objects /\ crashed = FALSE
      /\ state \in {"Intermission", "Wave", "EndStage"}
  BY DEF Inv, OnBoard
<1>1. ASSUME NEW m \in Objects, NEW k \in Kinds, Spawn(m, k)
      PROVE  Inv'
  <2>1. Sound(Initialised(minion[m], k))
    BY <1>0, InitialisedSound
  <2> QED
    BY <1>0, <1>1, <2>1 DEF Spawn, Idle, Inv, OnBoard
<1>2. ASSUME NEW m \in Objects, Sell(m)
      PROVE  Inv'
  <2>1. Sound(ResetMinion(minion[m]))
    BY <1>0, ResetSound
  <2> QED
    BY <1>0, <1>2, <2>1 DEF Sell, Idle, Inv, OnBoard
<1>3. ASSUME NEW m \in Objects, NEW stat, Upgrade(m, stat)
      PROVE  Inv'
  <2> DEFINE x == minion[m]
             y == [x EXCEPT !.base = UpgradedBase(@, stat), !.slots[stat] = @ + 1]
  <2>1. Sound(x) /\ x.kind \in Kinds
    BY <1>0, <1>3 DEF Upgrade, OnBoard, Sound, SoundBase, Loose
  <2> HIDE DEF x
  <2>2. /\ DOMAIN UpgradedBase(x.base, stat) = BaseFields
        /\ UpgradedBase(x.base, stat).maxAC \in 1 .. MaxAC(x)
    <3>1. DOMAIN x.base = BaseFields /\ x.base.maxAC \in 1 .. Data[x.kind].maxAC
          /\ Data[x.kind].maxAC \in Nat
      BY <2>1 DEF Sound, SoundBase, Loose, MaxAC
    <3> QED
      BY <3>1 DEF UpgradedBase, AtLeast, MaxAC, BaseFields
  <2>3. /\ DOMAIN y = Fields /\ y.base = UpgradedBase(x.base, stat)
        /\ \A f \in Fields \ {"base", "slots"} : y[f] = x[f]
    BY <2>1 DEF Sound, SoundBase, Loose, Fields
  <2> HIDE DEF y
  <2>4. SoundBase(y) /\ y.kind = x.kind
    BY <2>1, <2>2, <2>3 DEF Sound, SoundBase, Loose, MaxAC, Fields
  <2>5. Sound(Recalculate(y)) /\ Recalculate(y).kind = minion[m].kind
    BY <2>4, RecalculateSound DEF x
  <2>6. minion' = [minion EXCEPT ![m] = Recalculate(y)] /\ UNCHANGED <<state, turns, crashed>>
    BY <1>3 DEF Upgrade, x, y
  <2> QED
    BY <1>0, <2>5, <2>6, KeptOne, KeptKeepsInv
<1>4. CASE WaveStart \/ BeginUpdate
  BY <1>0, <1>4 DEF WaveStart, BeginUpdate, Inv, OnBoard
<1>5. CASE WaveEnds
  <2>1. Kept(OnEndWave(minion))
    <3>1. \A m \in Objects : Loose(minion[m]) /\ Sound(minion[m])
      BY <1>0 DEF Sound, SoundBase
    <3> QED
      BY <3>1, OnEndWaveSound DEF Kept
  <2> QED
    BY <1>0, <1>5, <2>1, KeptKeepsInv DEF WaveEnds
<1>6. CASE ResetStageState
  <2>1. \A m \in Objects : Sound(ResetMinion(minion[m]))
    BY <1>0, ResetSound
  <2> QED
    BY <1>0, <1>6, <2>1 DEF ResetStageState, Inv, OnBoard
<1>7. ASSUME NEW m \in Objects, Visit(m)
      PROVE  /\ turns' \subseteq OnBoard /\ minion[m].kind \in Kinds
             /\ Sound(Updated(minion[m])) /\ Updated(minion[m]).kind = minion[m].kind
  BY <1>0, <1>7, UpdatedSound DEF Visit, OnBoard, Sound, SoundBase, Loose
<1>8. ASSUME NEW m \in Objects, Pass(m)
      PROVE  Inv'
  BY <1>0, <1>7, <1>8, KeptOne, KeptKeepsInv DEF Pass
<1>9. ASSUME NEW m \in Objects, DefaultAttack(m)
      PROVE  Inv'
  <2> DEFINE x == Updated(minion[m])
  <2>1. /\ turns' \subseteq OnBoard /\ Sound(x) /\ x.kind = minion[m].kind /\ x.kind \in Kinds
    BY <1>7, <1>9 DEF DefaultAttack, MayAttack
  <2>2. x.attackReady /\ ~x.skillReady
    BY <1>9 DEF DefaultAttack, MayAttack
  <2>3. AfterAttack(m, [minion EXCEPT ![m] = [x EXCEPT !.ac = @ + 1]]) /\ UNCHANGED crashed
    BY <1>9 DEF DefaultAttack
  <2> HIDE DEF x
  <2>4. x.ac \in 0 .. Data[x.kind].maxAC /\ x.ac # Data[x.kind].maxAC
        /\ Data[x.kind].maxAC \in Nat
    BY <2>1, <2>2 DEF Sound, SoundBase, Loose, MaxAC
  <2> DEFINE y == [x EXCEPT !.ac = @ + 1]
  <2>5. y.ac = x.ac + 1 /\ DOMAIN y = Fields /\ \A f \in Fields \ {"ac"} : y[f] = x[f]
    BY <2>1 DEF Sound, SoundBase, Loose, Fields
  <2>6. AfterAttack(m, [minion EXCEPT ![m] = y])
    BY <2>3
  <2> HIDE DEF y
  <2>7. Loose(y) /\ y.kind = minion[m].kind
    BY <2>1, <2>4, <2>5 DEF Sound, SoundBase, Loose, MaxAC, Fields
  <2>8. y.cur = Stats(y)
    BY <2>1, <2>5, <2>7, CurrentStays DEF Sound, Fields
  <2>9. Kept(minion') /\ state' \in {"Intermission", "Wave", "EndStage"}
    BY <2>1, <2>6, <2>7, <2>8, AfterAttackKeeps
  <2> QED
    BY <1>0, <2>1, <2>3, <2>9, KeptKeepsInv
<1>10. ASSUME NEW m \in Objects, EnemyTargetSkill(m)
       PROVE  Inv'
  <2> DEFINE x == Updated(minion[m])
  <2>1. /\ turns' \subseteq OnBoard /\ Sound(x) /\ x.kind = minion[m].kind /\ x.kind \in Kinds
    BY <1>7, <1>10 DEF EnemyTargetSkill, MayAttack
  <2>2. x.skillReady /\ GetTargetType(x) = "Enemy"
    BY <1>10 DEF EnemyTargetSkill, MayAttack
  <2>3. HasEnemyStrategy(x)
    BY <2>1, <2>2 DEF GetTargetType, HasEnemyStrategy, SkillType
  <2>4. AfterAttack(m, [minion EXCEPT ![m] = Spent(x)]) /\ UNCHANGED crashed
    BY <1>10, <2>3 DEF EnemyTargetSkill
  <2> HIDE DEF x
  <2>5. Sound(Spent(x)) /\ Spent(x).kind = x.kind
    BY <2>1, SpentSound
  <2>6. Kept(minion') /\ state' \in {"Intermission", "Wave", "EndStage"}
    BY <2>1, <2>4, <2>5, AfterAttackKeeps DEF Sound, SoundBase
  <2> QED
    BY <1>0, <2>1, <2>4, <2>6, KeptKeepsInv
<1>11. ASSUME NEW m \in Objects, NEW targets \in SUBSET Objects, MinionTargetSkill(m, targets)
       PROVE  Inv'
  <2> DEFINE x == Updated(minion[m])
             buffs == Data[x.kind].buffs
             cast == [minion EXCEPT ![m] = Spent(x)]
             f == [t \in Objects |-> IF t \in targets THEN Buffed(cast[t], buffs)
                                                      ELSE cast[t]]
  <2>1. /\ turns' \subseteq OnBoard /\ Sound(x) /\ x.kind = minion[m].kind /\ x.kind \in Kinds
    BY <1>7, <1>11 DEF MinionTargetSkill
  <2>2. HasMinionStrategy(x)
    BY <1>11 DEF MinionTargetSkill, GetTargetType, HasMinionStrategy
  <2>3. minion' = [f EXCEPT ![m] = Rested(@)] /\ UNCHANGED <<state, crashed>>
    BY <1>11, <2>2 DEF MinionTargetSkill
  <2> HIDE DEF x, buffs
  <2>4. Sound(Spent(x)) /\ Spent(x).kind = x.kind
    BY <2>1, SpentSound
  <2>5. Kept(cast)
    BY <2>1, <2>4, KeptOne
  <2> HIDE DEF cast
  <2>6. \A t \in Objects : /\ Sound(Buffed(cast[t], buffs))
                           /\ Buffed(cast[t], buffs).kind = minion[t].kind
    BY <2>5, BuffedSound DEF Kept, Sound
  <2>7. Kept(f)
    BY <2>5, <2>6 DEF Kept
  <2> HIDE DEF f
  <2>8. Sound(Rested(f[m])) /\ Rested(f[m]).kind = minion[m].kind
    BY <2>1, <2>7, RestedSound DEF Kept, Sound, SoundBase
  <2>9. Kept(minion')
    BY <2>3, <2>7, <2>8 DEF Kept
  <2> QED
    BY <1>0, <2>1, <2>3, <2>9, KeptKeepsInv
<1>12. CASE UNCHANGED vars
  BY <1>12 DEF vars, Inv, OnBoard
<1>13. CASE \E m \in Objects :
              \/ \E k \in Kinds : Spawn(m, k)
              \/ Sell(m)
              \/ \E stat \in {"power", "cooldown", "maxAC", "skillMaxTargets"} : Upgrade(m, stat)
              \/ Pass(m) \/ DefaultAttack(m) \/ EnemyTargetSkill(m)
              \/ \E targets \in SUBSET Objects : MinionTargetSkill(m, targets)
  BY <1>1, <1>2, <1>3, <1>8, <1>9, <1>10, <1>11, <1>13
<1> QED
  BY <1>4, <1>5, <1>6, <1>12, <1>13 DEF Next

-----------------------------------------------------------------------------
(* The theorems *)

LEMMA InvTypes == Inv => TypeOK
<1> SUFFICES ASSUME Inv PROVE TypeOK
  OBVIOUS
<1>1. ChargeIsBounded
  BY DEF Inv, Sound, SoundBase, Loose, MaxAC, ChargeIsBounded, OnBoard
<1> QED
  BY <1>1 DEF Inv, Sound, SoundBase, Loose, TypeOK

\* Types, and the bound on the attack counter, for any data and number of minions.
THEOREM MinionTypes == Spec => []TypeOK
  BY InitInv, NextInv, InvTypes, PTL DEF Spec

\* The statistics attacks are made with are never stale: upgrades, buffs that come
\* and run out, ends of waves and objects used again all end in a Recalculate, and
\* a tick without an expiry has nothing to recalculate (MinionStat::Update).
THEOREM MinionStatsAreCurrent == Spec => []StatsAreCurrent
<1>1. Inv => StatsAreCurrent
  BY DEF Inv, Sound, StatsAreCurrent, OnBoard
<1> QED
  BY <1>1, InitInv, NextInv, PTL DEF Spec

\* No skill handler ever calls a null strategy, whatever the flags of the objects
\* it meets.
THEOREM MinionSkillHasStrategy == Spec => []SkillHasStrategy
<1>1. Inv => SkillHasStrategy
  BY DEF Inv, SkillHasStrategy
<1> QED
  BY <1>1, InitInv, NextInv, PTL DEF Spec

=============================================================================
