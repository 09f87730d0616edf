----------------------------- MODULE ObjectPool -----------------------------
(***************************************************************************)
(* The pools of enemies, minions and projectiles that all rooms share:      *)
(* ObjectPool::Acquire and Release, SpawnManager, the Clear and Remove of   *)
(* the three managers, and the life of a projectile as far as it refers to  *)
(* other objects.                                                           *)
(*                                                                          *)
(* Release only puts an object into the pool's queue.  Acquire hands out    *)
(* the first queued object whose use_count() is 1, resets it then, and      *)
(* makes a new one if there is none: whether an object may be reused is     *)
(* decided by who still refers to it, and these references change on the    *)
(* workers of other rooms, outside the lock.                                *)
(*                                                                          *)
(* How a room gets through a wave is RoomTick's subject; here its update    *)
(* goes through the same stages, and in each of them as much happens as the *)
(* room likes.                                                              *)
(***************************************************************************)
EXTENDS Integers, FiniteSets

CONSTANTS
  Rooms,
  Enemies, Minions, Projectiles,  \* objects there is memory for (a bound)
  Flights,                        \* ProjectileType and ProjectileHitType of minions
  MaxName,                        \* bound: objects spawned in all
  Nobody

Objects == Enemies \cup Minions \cup Projectiles

ASSUME PoolAssumption ==
  /\ MaxName \in Nat
  /\ Flights \subseteq [chase : BOOLEAN, pierce : BOOLEAN]
  /\ Nobody \notin Objects
  /\ Enemies \cap Minions = {} /\ Enemies \cap Projectiles = {} /\ Minions \cap Projectiles = {}

VARIABLES
  made,       \* objects that m_creator has made
  pending,    \* ObjectPool::m_pending of the three pools; of the order only
              \* depends which one of several unused objects is taken
  held,       \* room |-> m_enemies, m_minions and m_projectiles of its managers
  shot,       \* projectile |-> its members
  pc,         \* room |-> where its update is, "idle" while handlers run
  todo,       \* room |-> ProjectileManager::Update's currentProjectileIds
  returning,  \* room |-> the projectile that is in ReturnToPool
  name,       \* history: object |-> which of all spawned things it is now
  next        \* history: the next name

roomVars == <<pc, todo, returning>>
poolVars == <<made, pending>>
vars == <<made, pending, held, shot, pc, todo, returning, name, next>>

Names == 1 .. MaxName

Blank == [target |-> Nobody, owner |-> Nobody, hits |-> {}, chase |-> FALSE,
          pierce |-> FALSE, active |-> FALSE, callback |-> FALSE]

Init ==
  /\ made = {}
  /\ pending = {}
  /\ held = [r \in Rooms |-> {}]
  /\ shot = [p \in Projectiles |-> Blank]
  /\ pc = [r \in Rooms |-> "idle"]
  /\ todo = [r \in Rooms |-> {}]
  /\ returning = [r \in Rooms |-> Nobody]
  /\ name = [o \in Objects \cup {Nobody} |-> 0]
  /\ next = 1

-----------------------------------------------------------------------------
(* The pool *)

\* What keeps use_count() above 1 while an object is queued: the members of a
\* projectile, and the attack callback, which captures its own projectile.
Referenced(o) ==
  \/ \E r \in Rooms : o \in held[r]
  \/ \E p \in Projectiles : o \in {shot[p].target, shot[p].owner} \cup shot[p].hits
  \/ o \in Projectiles /\ shot[o].callback

Reusable(Kind) == {o \in pending \cap Kind : ~Referenced(o)}

\* Acquire, with the Init that SpawnManager calls under the same lock.
Acquire(Kind, o) ==
  /\ IF Reusable(Kind) # {}
     THEN o \in Reusable(Kind) /\ pending' = pending \ {o} /\ UNCHANGED made
     ELSE o \in Kind \ made /\ made' = made \cup {o} /\ UNCHANGED pending
  /\ next \in Names
  /\ name' = [name EXCEPT ![o] = next]
  /\ next' = next + 1

Release(S) == pending' = pending \cup S /\ UNCHANGED made

\* SpawnMinion and SpawnEnemy of the managers
Spawn(r, Kind, o) ==
  /\ Acquire(Kind, o)
  /\ held' = [held EXCEPT ![r] = @ \cup {o}]

\* Room::ResetStageState: the managers empty their maps and release what was in
\* them.  Nothing is reset: a projectile that was flying keeps its members.
ResetStageState(r) ==
  /\ Release(held[r])
  /\ held' = [held EXCEPT ![r] = {}]

-----------------------------------------------------------------------------
(* Handlers, which run while no room is updated *)

Polling == \A r \in Rooms : pc[r] = "idle"

SpawnMinion(r, m) ==
  /\ Polling
  /\ Spawn(r, Minions, m)
  /\ UNCHANGED <<shot, roomVars>>

SellMinion(r, m) ==
  /\ Polling /\ m \in held[r] \cap Minions
  /\ held' = [held EXCEPT ![r] = @ \ {m}]
  /\ Release({m})
  /\ UNCHANGED <<shot, roomVars, name, next>>

\* Leave, of the last player.
LastLeaves(r) ==
  /\ Polling
  /\ ResetStageState(r)
  /\ UNCHANGED <<shot, roomVars, name, next>>

-----------------------------------------------------------------------------
(* Update, on a worker: enemies, minions, projectiles, the end of the stage *)

BeginTick ==
  /\ Polling
  /\ pc' = [r \in Rooms |-> "enemies"]
  /\ UNCHANGED <<poolVars, held, shot, todo, returning, name, next>>

SpawnEnemy(r, e) ==
  /\ pc[r] = "enemies"
  /\ Spawn(r, Enemies, e)
  /\ UNCHANGED <<shot, roomVars>>

\* EnemyManager::Update releases the enemies that died or arrived.  Its local
\* vectors hold them until all are released.
RemoveEnemies(r, S) ==
  /\ pc[r] = "enemies"
  /\ held' = [held EXCEPT ![r] = @ \ S]
  /\ Release(S)
  /\ pc' = [pc EXCEPT ![r] = "minions"]
  /\ UNCHANGED <<shot, todo, returning, name, next>>

\* Mutant: the attack callback does not capture the projectile.
NewShot_NoCapture(e, m, flight) ==
  [Blank EXCEPT !.target = e, !.owner = m, !.active = TRUE,
                !.chase = flight.chase, !.pierce = flight.pierce]

\* Projectile::Init, and the callbacks Room::SpawnProjectile sets.
NewShot(e, m, flight) ==
  [Blank EXCEPT !.target = e, !.owner = m, !.active = TRUE, !.callback = TRUE,
                !.chase = flight.chase, !.pierce = flight.pierce]

SpawnProjectile(r, p, e, m, flight) ==
  /\ pc[r] = "minions"
  /\ e \in held[r] \cap Enemies /\ m \in held[r] \cap Minions
  /\ Spawn(r, Projectiles, p)
  /\ shot' = [shot EXCEPT ![p] = NewShot(e, m, flight)]
  /\ UNCHANGED roomVars

\* MinionManager::Update is over; Room::Update goes on with the projectiles
\* unless the stage has ended.
MinionsDone(r) ==
  /\ pc[r] = "minions"
  /\ \/ pc' = [pc EXCEPT ![r] = "projectiles"]
        /\ todo' = [todo EXCEPT ![r] = held[r] \cap Projectiles]
     \/ pc' = [pc EXCEPT ![r] = "cleanup"] /\ UNCHANGED todo
  /\ UNCHANGED <<poolVars, held, shot, returning, name, next>>

Updates(r, p) == pc[r] = "projectiles" /\ p \in todo[r]

\* Nothing is hit, or hit no more, in this update.  An entry whose projectile is
\* not active is erased, and not released.
FlyOn(r, p) ==
  /\ Updates(r, p)
  /\ held' = IF shot[p].active THEN held ELSE [held EXCEPT ![r] = @ \ {p}]
  /\ todo' = [todo EXCEPT ![r] = @ \ {p}]
  /\ UNCHANGED <<poolVars, shot, pc, returning, name, next>>

Forget(s) == [s EXCEPT !.target = Nobody, !.owner = Nobody, !.hits = {},
                       !.chase = FALSE, !.active = FALSE]

\* Mutant: Reset first, so that RemoveProjectile is called with instance id 0.
ReturnToPool_ResetFirst(r, p, s) ==
  /\ shot' = [shot EXCEPT ![p] = Forget(s)]
  /\ returning' = [returning EXCEPT ![r] = p]
  /\ pc' = [pc EXCEPT ![r] = "returning"]
  /\ UNCHANGED <<poolVars, held>>

\* ReturnToPool up to the end of m_onReturn: the projectile is queued, and what
\* is left to do for this worker is the Reset.
ReturnToPool(r, p, s) ==
  /\ shot' = [shot EXCEPT ![p] = [s EXCEPT !.active = FALSE]]
  /\ held' = [held EXCEPT ![r] = @ \ {p}]
  /\ Release({p})
  /\ returning' = [returning EXCEPT ![r] = p]
  /\ pc' = [pc EXCEPT ![r] = "returning"]

\* OnHit: a projectile that does not pierce and chases hits its target only.
Hit(r, p, e) ==
  LET s == [shot[p] EXCEPT !.hits = @ \cup {e}] IN
  /\ Updates(r, p)
  /\ p \in held[r] /\ s.active
  /\ e \in (held[r] \cap Enemies) \ shot[p].hits
  /\ s.chase /\ ~s.pierce => e = s.target
  /\ IF ~s.pierce \/ (s.chase /\ e = s.target)
     THEN ReturnToPool(r, p, s)
     ELSE shot' = [shot EXCEPT ![p] = s] /\ UNCHANGED <<poolVars, held, returning, pc>>
  /\ UNCHANGED <<todo, name, next>>

\* Direct: the time is up.
Expire(r, p) ==
  /\ Updates(r, p)
  /\ p \in held[r] /\ shot[p].active /\ ~shot[p].chase
  /\ ReturnToPool(r, p, shot[p])
  /\ UNCHANGED <<todo, name, next>>

\* The last line of ReturnToPool.
Reset(r) ==
  LET p == returning[r] IN
  /\ pc[r] = "returning"
  /\ shot' = [shot EXCEPT ![p] = Forget(@)]
  /\ returning' = [returning EXCEPT ![r] = Nobody]
  /\ todo' = [todo EXCEPT ![r] = @ \ {p}]
  /\ pc' = [pc EXCEPT ![r] = "projectiles"]
  /\ UNCHANGED <<poolVars, held, name, next>>

ProjectilesDone(r) ==
  /\ pc[r] = "projectiles" /\ todo[r] = {}
  /\ pc' = [pc EXCEPT ![r] = "cleanup"]
  /\ UNCHANGED <<poolVars, held, shot, todo, returning, name, next>>

\* The stage may have ended on the way.
Cleanup(r) ==
  /\ pc[r] = "cleanup"
  /\ ResetStageState(r) \/ UNCHANGED <<poolVars, held>>
  /\ pc' = [pc EXCEPT ![r] = "done"]
  /\ UNCHANGED <<shot, todo, returning, name, next>>

EndTick ==
  /\ \A r \in Rooms : pc[r] = "done"
  /\ pc' = [r \in Rooms |-> "idle"]
  /\ UNCHANGED <<poolVars, held, shot, todo, returning, name, next>>

-----------------------------------------------------------------------------
Next ==
  \/ \E r \in Rooms :
       \/ \E m \in Minions : SpawnMinion(r, m) \/ SellMinion(r, m)
       \/ LastLeaves(r)
       \/ \E e \in Enemies : SpawnEnemy(r, e)
       \/ \E S \in SUBSET (held[r] \cap Enemies) : RemoveEnemies(r, S)
       \/ \E p \in Projectiles, e \in Enemies, m \in Minions, flight \in Flights :
            SpawnProjectile(r, p, e, m, flight)
       \/ MinionsDone(r)
       \/ \E p \in Projectiles : FlyOn(r, p) \/ Expire(r, p)
       \/ \E p \in Projectiles, e \in Enemies : Hit(r, p, e)
       \/ Reset(r)
       \/ ProjectilesDone(r)
       \/ Cleanup(r)
  \/ BeginTick \/ EndTick

Spec == Init /\ [][Next]_vars

-----------------------------------------------------------------------------
(* Properties *)

TypeOK ==
  /\ made \subseteq Objects
  /\ pending \subseteq Objects
  /\ held \in [Rooms -> SUBSET Objects]
  /\ \A p \in Projectiles :
       /\ shot[p].target \in Enemies \cup {Nobody}
       /\ shot[p].owner \in Minions \cup {Nobody}
       /\ shot[p].hits \subseteq Enemies
       /\ {shot[p].chase, shot[p].pierce, shot[p].active, shot[p].callback} \subseteq BOOLEAN
  /\ pc \in [Rooms -> {"idle", "enemies", "minions", "projectiles", "returning",
                       "cleanup", "done"}]
  /\ todo \in [Rooms -> SUBSET Projectiles]
  /\ returning \in [Rooms -> Projectiles \cup {Nobody}]
  /\ name \in [Objects \cup {Nobody} -> Names \cup {0}]
  /\ next \in 1 .. MaxName + 1

\* No object is lost and none is in two places: whatever was made is in the
\* managers of one room or in its pool, through every hit, sale, removal and
\* end of a stage, although rooms give objects back in five different ways.
EveryObjectHasOnePlace ==
  /\ made = pending \cup UNION {held[r] : r \in Rooms}
  /\ \A r \in Rooms : held[r] \cap pending = {}
  /\ \A r, s \in Rooms : r # s => held[r] \cap held[s] = {}

InFlight == {f \in Rooms \X Projectiles : f[2] \in held[f[1]]}

\* The enemies and minions of each room, and the projectiles that fly, as things
\* that are spawned once.
Things == [r \in Rooms |-> {name[o] : o \in held[r] \ Projectiles}]

Shots ==
  [n \in {name[f[2]] : f \in InFlight} |->
     LET f == CHOOSE g \in InFlight : name[g[2]] = n
         s == shot[f[2]]
     IN  [room |-> f[1], target |-> name[s.target], owner |-> name[s.owner],
          hits |-> {name[e] : e \in s.hits}]]

\* That objects are reused cannot be told: rooms see new things only, nothing
\* changes hands while a projectile refers to it, and the Reset at the end of
\* ReturnToPool, which runs when the projectile is in the pool already, never
\* meets one that another room has taken out.
AsArena == INSTANCE Arena WITH things <- Things, shots <- Shots

IsArena == AsArena!Spec

\* What a pool is for: a projectile is only made when none that is out of use
\* is waiting in the pool.
MadeOnlyWhenNeeded ==
  [][Projectiles \cap made' # Projectiles \cap made =>
       pending \cap Projectiles \subseteq {returning[r] : r \in Rooms}]_vars

=============================================================================
