-------------------------- MODULE ObjectPoolProofs --------------------------
(***************************************************************************)
(* For any number of rooms and objects: what is made is in one place, and   *)
(* the pools with their managers implement Arena.                           *)
(***************************************************************************)
EXTENDS ObjectPool, TLAPS

PcStates == {"idle", "enemies", "minions", "projectiles", "returning", "cleanup", "done"}

ShotRecords ==
  [target : Enemies \cup {Nobody}, owner : Minions \cup {Nobody}, hits : SUBSET Enemies,
   chase : BOOLEAN, pierce : BOOLEAN, active : BOOLEAN, callback : BOOLEAN]

Types ==
  /\ made \subseteq Objects /\ pending \subseteq Objects
  /\ held \in [Rooms -> SUBSET Objects]
  /\ shot \in [Projectiles -> ShotRecords]
  /\ pc \in [Rooms -> PcStates]
  /\ returning \in [Rooms -> Projectiles \cup {Nobody}]
  /\ todo \in [Rooms -> SUBSET Projectiles]

\* A projectile of a room is active and has its callback: Update's erase of
\* inactive entries, which gives nothing back, never finds one.
HeldAreActive ==
  \A r \in Rooms : \A p \in held[r] \cap Projectiles : shot[p].active /\ shot[p].callback

\* Between the release of a projectile and its Reset it is queued, and its own
\* callback keeps Acquire from taking it.
ReturningIsKept ==
  \A r \in Rooms : pc[r] = "returning" =>
    /\ returning[r] \in Projectiles /\ returning[r] \in pending
    /\ shot[returning[r]].callback

Inv == Types /\ EveryObjectHasOnePlace /\ HeldAreActive /\ ReturningIsKept

-----------------------------------------------------------------------------
(* The moves of objects *)

\* Objects go from a room to the pool.
LEMMA ReleaseKeepsPlaces ==
  ASSUME EveryObjectHasOnePlace, held \in [Rooms -> SUBSET Objects],
         NEW r \in Rooms, NEW S \in SUBSET held[r],
         held' = [held EXCEPT ![r] = @ \ S], Release(S)
  PROVE  EveryObjectHasOnePlace'
<1>1. /\ held'[r] = held[r] \ S
      /\ \A q \in Rooms \ {r} : held'[q] = held[q]
  OBVIOUS
<1>2. made' = made /\ pending' = pending \cup S
  BY DEF Release
<1>3. made' = pending' \cup UNION {held'[q] : q \in Rooms}
  <2>1. ASSUME NEW o \in made' PROVE o \in pending' \cup UNION {held'[q] : q \in Rooms}
    <3>1. CASE o \in pending
      BY <1>2, <3>1
    <3>2. CASE \E q \in Rooms : o \in held[q]
      BY <1>1, <1>2, <3>2
    <3>3. QED
      BY <1>2, <2>1, <3>1, <3>2 DEF EveryObjectHasOnePlace
  <2>2. ASSUME NEW o \in pending' \cup UNION {held'[q] : q \in Rooms} PROVE o \in made'
    <3>1. o \in pending \/ \E q \in Rooms : o \in held[q]
      BY <1>1, <1>2, <2>2
    <3>2. QED
      BY <1>2, <3>1 DEF EveryObjectHasOnePlace
  <2>3. QED
    BY <2>1, <2>2
<1>4. \A q \in Rooms : held'[q] \cap pending' = {}
  <2>1. ASSUME NEW q \in Rooms, NEW o \in held'[q], o \in pending' PROVE FALSE
    <3>1. CASE q = r
      BY <1>1, <1>2, <2>1, <3>1 DEF EveryObjectHasOnePlace
    <3>2. CASE q # r
      BY <1>1, <1>2, <2>1, <3>2 DEF EveryObjectHasOnePlace
    <3>3. QED
      BY <3>1, <3>2
  <2>2. QED
    BY <2>1
<1>5. \A q, s \in Rooms : held'[q] \subseteq held[q] /\ held'[s] \subseteq held[s]
  BY <1>1
<1>6. \A q, s \in Rooms : q # s => held'[q] \cap held'[s] = {}
  BY <1>5 DEF EveryObjectHasOnePlace
<1>7. QED
  BY <1>3, <1>4, <1>6 DEF EveryObjectHasOnePlace

\* Acquire hands out what is in no room: a queued object that nothing refers
\* to, or a new one.
LEMMA AcquireTakesUnused ==
  ASSUME EveryObjectHasOnePlace, NEW Kind, NEW o, Acquire(Kind, o)
  PROVE  /\ \A q \in Rooms : o \notin held[q]
         /\ made' = made \cup {o} /\ pending' = pending \ {o}
         /\ o \in Kind
<1>1. CASE Reusable(Kind) # {}
  BY <1>1 DEF Acquire, Reusable, EveryObjectHasOnePlace
<1>2. CASE Reusable(Kind) = {}
  BY <1>2 DEF Acquire, EveryObjectHasOnePlace
<1>3. QED
  BY <1>1, <1>2

LEMMA SpawnKeepsPlaces ==
  ASSUME EveryObjectHasOnePlace, held \in [Rooms -> SUBSET Objects],
         NEW r \in Rooms, NEW Kind, NEW o, Spawn(r, Kind, o)
  PROVE  EveryObjectHasOnePlace'
<1>1. /\ \A q \in Rooms : o \notin held[q]
      /\ made' = made \cup {o} /\ pending' = pending \ {o}
  BY AcquireTakesUnused DEF Spawn
<1>2. /\ held'[r] = held[r] \cup {o}
      /\ \A q \in Rooms \ {r} : held'[q] = held[q]
  BY DEF Spawn
<1>3. made' = pending' \cup UNION {held'[q] : q \in Rooms}
  <2>1. ASSUME NEW x \in made' PROVE x \in pending' \cup UNION {held'[q] : q \in Rooms}
    <3>1. CASE x = o
      BY <1>2, <3>1
    <3>2. CASE x # o
      <4>1. x \in pending \/ \E q \in Rooms : x \in held[q]
        BY <1>1, <2>1, <3>2 DEF EveryObjectHasOnePlace
      <4>2. QED
        BY <1>1, <1>2, <3>2, <4>1
    <3>3. QED
      BY <3>1, <3>2
  <2>2. ASSUME NEW x \in pending' \cup UNION {held'[q] : q \in Rooms} PROVE x \in made'
    <3>1. x = o \/ x \in pending \/ \E q \in Rooms : x \in held[q]
      BY <1>1, <1>2, <2>2
    <3>2. QED
      BY <1>1, <3>1 DEF EveryObjectHasOnePlace
  <2>3. QED
    BY <2>1, <2>2
<1>4. \A q \in Rooms : held'[q] \cap pending' = {}
  <2>1. \A q \in Rooms : held'[q] \subseteq held[q] \cup {o}
    BY <1>2
  <2>2. QED
    BY <1>1, <2>1 DEF EveryObjectHasOnePlace
<1>5. \A q, s \in Rooms : q # s => held'[q] \cap held'[s] = {}
  BY <1>1, <1>2 DEF EveryObjectHasOnePlace
<1>6. QED
  BY <1>3, <1>4, <1>5 DEF EveryObjectHasOnePlace

LEMMA SameKeepsPlaces ==
  ASSUME EveryObjectHasOnePlace, made' = made, pending' = pending, held' = held
  PROVE  EveryObjectHasOnePlace'
BY DEF EveryObjectHasOnePlace

\* A projectile in ReturnToPool is not what Acquire hands out.
LEMMA KeptIsNotTaken ==
  ASSUME ReturningIsKept, EveryObjectHasOnePlace, NEW Kind, NEW o, Acquire(Kind, o)
  PROVE  \A r \in Rooms : pc[r] = "returning" => returning[r] # o
<1>1. CASE Reusable(Kind) # {}
  <2>1. o \in pending /\ ~Referenced(o)
    BY <1>1 DEF Acquire, Reusable
  <2>2. QED
    BY <2>1 DEF Referenced, ReturningIsKept
<1>2. CASE Reusable(Kind) = {}
  <2>1. o \notin pending
    BY <1>2 DEF Acquire, EveryObjectHasOnePlace
  <2>2. QED
    BY <2>1 DEF ReturningIsKept
<1>3. QED
  BY <1>1, <1>2

-----------------------------------------------------------------------------
(* Projectiles *)

LEMMA ForgetType ==
  ASSUME NEW s \in ShotRecords
  PROVE  Forget(s) \in ShotRecords /\ Forget(s).callback = s.callback
BY DEF Forget, ShotRecords

LEMMA NewShotType ==
  ASSUME NEW e \in Enemies, NEW m \in Minions, NEW flight \in Flights
  PROVE  /\ NewShot(e, m, flight) \in ShotRecords
         /\ NewShot(e, m, flight).active = TRUE /\ NewShot(e, m, flight).callback = TRUE
<1>1. flight.chase \in BOOLEAN /\ flight.pierce \in BOOLEAN
  BY PoolAssumption
<1>2. Blank \in ShotRecords
  BY DEF Blank, ShotRecords
<1>3. QED
  BY <1>1, <1>2 DEF NewShot, Blank, ShotRecords

-----------------------------------------------------------------------------
(* The invariant *)

LEMMA InitInv == Init => Inv
<1> SUFFICES ASSUME Init PROVE Inv
  OBVIOUS
<1>1. Blank \in ShotRecords
  BY DEF Blank, ShotRecords
<1>2. Types
  BY <1>1 DEF Init, Types, PcStates
<1>3. EveryObjectHasOnePlace
  BY DEF Init, EveryObjectHasOnePlace
<1>4. HeldAreActive /\ ReturningIsKept
  BY DEF Init, HeldAreActive, ReturningIsKept
<1>5. QED
  BY <1>2, <1>3, <1>4 DEF Inv

\* What a room gives back with nothing but its own managers changed.
LEMMA ReleaseInv ==
  ASSUME Inv, NEW r \in Rooms, NEW S \in SUBSET held[r],
         held' = [held EXCEPT ![r] = @ \ S], Release(S), UNCHANGED <<shot, returning>>,
         todo' \in [Rooms -> SUBSET Projectiles], pc' \in [Rooms -> PcStates],
         \A q \in Rooms : pc'[q] = "returning" => pc[q] = "returning"
  PROVE  Inv'
<1>1. EveryObjectHasOnePlace'
  BY ReleaseKeepsPlaces DEF Inv, Types
<1>2. \A q \in Rooms : held'[q] \subseteq held[q]
  BY DEF Inv, Types
<1>3. made' = made /\ pending' = pending \cup S
  BY DEF Release
<1>4. Types'
  <2>1. held' \in [Rooms -> SUBSET Objects]
    BY DEF Inv, Types
  <2>2. pending' \subseteq Objects
    BY <1>3 DEF Inv, Types
  <2>3. QED
    BY <1>3, <2>1, <2>2 DEF Inv, Types
<1>5. HeldAreActive'
  BY <1>2 DEF Inv, HeldAreActive
<1>6. ReturningIsKept'
  BY <1>3 DEF Inv, ReturningIsKept
<1>7. QED
  BY <1>1, <1>4, <1>5, <1>6 DEF Inv

\* No object moves and no projectile changes.
LEMMA StayInv ==
  ASSUME Inv, UNCHANGED <<made, pending, held, shot, returning>>,
         todo' \in [Rooms -> SUBSET Projectiles], pc' \in [Rooms -> PcStates],
         \A q \in Rooms : pc'[q] = "returning" => pc[q] = "returning"
  PROVE  Inv'
<1>1. EveryObjectHasOnePlace'
  BY SameKeepsPlaces DEF Inv
<1>2. Types'
  BY DEF Inv, Types
<1>3. HeldAreActive' /\ ReturningIsKept'
  BY DEF Inv, HeldAreActive, ReturningIsKept
<1>4. QED
  BY <1>1, <1>2, <1>3 DEF Inv

LEMMA ResetStageInv ==
  ASSUME Inv, NEW r \in Rooms, ResetStageState(r), UNCHANGED <<shot, todo, returning>>,
         pc' \in [Rooms -> PcStates],
         \A q \in Rooms : pc'[q] = "returning" => pc[q] = "returning"
  PROVE  Inv'
<1>1. held' = [held EXCEPT ![r] = @ \ held[r]] /\ Release(held[r])
  BY DEF ResetStageState, Inv, Types
<1>2. held[r] \in SUBSET held[r] /\ todo' \in [Rooms -> SUBSET Projectiles]
  BY DEF Inv, Types
<1>3. QED
  BY <1>1, <1>2, ReleaseInv

\* Enemies and minions are spawned.
LEMMA SpawnInv ==
  ASSUME Inv, NEW r \in Rooms, NEW Kind \in {Enemies, Minions}, NEW o \in Kind,
         Spawn(r, Kind, o), UNCHANGED <<shot, roomVars>>
  PROVE  Inv'
<1>1. EveryObjectHasOnePlace'
  BY SpawnKeepsPlaces DEF Inv, Types
<1>2. o \in Objects \ Projectiles
  BY PoolAssumption DEF Objects
<1>3. made' = made \cup {o} /\ pending' = pending \ {o}
  BY AcquireTakesUnused DEF Spawn, Inv
<1>4. held' = [held EXCEPT ![r] = @ \cup {o}]
  BY DEF Spawn
<1>5. held' \in [Rooms -> SUBSET Objects] /\ \A q \in Rooms : held'[q] \subseteq held[q] \cup {o}
  BY <1>2, <1>4 DEF Inv, Types
<1>6. Types'
  BY <1>2, <1>3, <1>5 DEF Inv, Types, roomVars
<1>7. HeldAreActive'
  BY <1>2, <1>5 DEF Inv, HeldAreActive
<1>8. ReturningIsKept'
  BY <1>2, <1>3 DEF Inv, ReturningIsKept, roomVars
<1>9. QED
  BY <1>1, <1>6, <1>7, <1>8 DEF Inv

\* A shot is fired: the projectile taken out is nobody's, and not in the middle
\* of its ReturnToPool, so overwriting its members harms no one.
LEMMA FireInv ==
  ASSUME Inv, NEW r \in Rooms, NEW p \in Projectiles, NEW e \in Enemies, NEW m \in Minions,
         NEW flight \in Flights, SpawnProjectile(r, p, e, m, flight)
  PROVE  Inv'
<1> DEFINE s == NewShot(e, m, flight)
<1>1. s \in ShotRecords /\ s.active = TRUE /\ s.callback = TRUE
  BY NewShotType
<1> HIDE DEF s
<1>2. Spawn(r, Projectiles, p) /\ shot' = [shot EXCEPT ![p] = s] /\ UNCHANGED roomVars
  BY DEF SpawnProjectile, s
<1>3. EveryObjectHasOnePlace'
  BY <1>2, SpawnKeepsPlaces DEF Inv, Types
<1>4. made' = made \cup {p} /\ pending' = pending \ {p}
  BY <1>2, AcquireTakesUnused DEF Spawn, Inv
<1>5. held' = [held EXCEPT ![r] = @ \cup {p}] /\ p \in Objects
  BY <1>2 DEF Spawn, Objects
<1>6. held' \in [Rooms -> SUBSET Objects] /\ \A q \in Rooms : held'[q] \subseteq held[q] \cup {p}
  BY <1>5 DEF Inv, Types
<1>7. /\ shot' \in [Projectiles -> ShotRecords] /\ shot'[p] = s
      /\ \A q \in Projectiles \ {p} : shot'[q] = shot[q]
  BY <1>1, <1>2 DEF Inv, Types
<1>8. Types'
  BY <1>2, <1>4, <1>5, <1>6, <1>7 DEF Inv, Types, roomVars
<1>9. HeldAreActive'
  <2>1. ASSUME NEW q \in Rooms, NEW x \in held'[q] \cap Projectiles
        PROVE  shot'[x].active /\ shot'[x].callback
    <3>1. CASE x = p
      BY <1>1, <1>7, <3>1
    <3>2. CASE x # p
      BY <1>6, <1>7, <2>1, <3>2 DEF Inv, HeldAreActive
    <3>3. QED
      BY <3>1, <3>2
  <2>2. QED
    BY <2>1 DEF HeldAreActive
<1>10. ReturningIsKept'
  <2>1. \A q \in Rooms : pc[q] = "returning" => returning[q] # p
    BY <1>2, KeptIsNotTaken DEF Spawn, Inv
  <2>2. QED
    BY <1>2, <1>4, <1>7, <2>1 DEF Inv, ReturningIsKept, roomVars
<1>11. QED
  BY <1>3, <1>8, <1>9, <1>10 DEF Inv

LEMMA FlyOnInv == ASSUME Inv, NEW r \in Rooms, NEW p \in Projectiles, FlyOn(r, p) PROVE Inv'
<1>1. UNCHANGED <<made, pending, shot, pc, returning>> /\ todo' = [todo EXCEPT ![r] = @ \ {p}]
  BY DEF FlyOn, poolVars
<1>2. held' = held
  <2>1. CASE shot[p].active
    BY <2>1 DEF FlyOn
  <2>2. CASE ~shot[p].active
    <3>1. p \notin held[r]
      BY <2>2 DEF Inv, HeldAreActive
    <3>2. held' = [held EXCEPT ![r] = @ \ {p}]
      BY <2>2 DEF FlyOn
    <3>3. QED
      BY <3>1, <3>2 DEF Inv, Types
  <2>3. QED
    BY <2>1, <2>2
<1>3. todo' \in [Rooms -> SUBSET Projectiles] /\ pc' \in [Rooms -> PcStates]
  BY <1>1 DEF Inv, Types
<1>4. QED
  BY <1>1, <1>2, <1>3, StayInv

\* A hit that ends the flight, and the end of the time: the projectile goes to
\* the pool with its callback.
LEMMA ReturnInv ==
  ASSUME Inv, NEW r \in Rooms, NEW p \in Projectiles, NEW s \in ShotRecords,
         s.callback, p \in held[r], ReturnToPool(r, p, s), todo' = todo
  PROVE  Inv'
<1>1. /\ shot' = [shot EXCEPT ![p] = [s EXCEPT !.active = FALSE]]
      /\ held' = [held EXCEPT ![r] = @ \ {p}]
      /\ made' = made /\ pending' = pending \cup {p}
      /\ returning' = [returning EXCEPT ![r] = p]
      /\ pc' = [pc EXCEPT ![r] = "returning"]
  BY DEF ReturnToPool, Release
<1>2. EveryObjectHasOnePlace'
  <2>1. {p} \in SUBSET held[r] /\ Release({p})
    BY DEF ReturnToPool
  <2>2. QED
    BY <1>1, <2>1, ReleaseKeepsPlaces DEF Inv, Types
<1> DEFINE z == [s EXCEPT !.active = FALSE]
<1>3. z \in ShotRecords /\ z.callback
  BY DEF ShotRecords
<1> HIDE DEF z
<1>4. /\ shot' \in [Projectiles -> ShotRecords] /\ shot'[p] = z
      /\ \A q \in Projectiles \ {p} : shot'[q] = shot[q]
  BY <1>1, <1>3 DEF Inv, Types, z
<1>5. /\ held' \in [Rooms -> SUBSET Objects] /\ held'[r] = held[r] \ {p}
      /\ \A q \in Rooms \ {r} : held'[q] = held[q]
  BY <1>1 DEF Inv, Types
<1>6. \A q \in Rooms \ {r} : p \notin held[q]
  BY DEF Inv, EveryObjectHasOnePlace
<1>7. /\ pc' \in [Rooms -> PcStates]
      /\ \A q \in Rooms \ {r} : pc'[q] = pc[q]
  BY <1>1 DEF Inv, Types, PcStates
<1>8. Types'
  BY <1>1, <1>4, <1>5, <1>7 DEF Inv, Types, Objects
<1>9. HeldAreActive'
  <2>1. ASSUME NEW q \in Rooms, NEW x \in held'[q] \cap Projectiles
        PROVE  shot'[x].active /\ shot'[x].callback
    <3>1. x # p /\ x \in held[q]
      BY <1>5, <1>6
    <3>2. QED
      BY <1>4, <3>1 DEF Inv, HeldAreActive
  <2>2. QED
    BY <2>1 DEF HeldAreActive
<1>10. ReturningIsKept'
  <2>1. ASSUME NEW q \in Rooms, pc'[q] = "returning"
        PROVE  returning'[q] \in Projectiles /\ returning'[q] \in pending'
               /\ shot'[returning'[q]].callback
    <3>1. CASE returning'[q] = p
      BY <1>1, <1>3, <1>4, <3>1
    <3>2. CASE returning'[q] # p
      <4>1. q # r /\ returning'[q] = returning[q]
        BY <1>1, <3>2 DEF Inv, Types
      <4>2. QED
        BY <1>1, <1>4, <1>7, <2>1, <3>2, <4>1 DEF Inv, ReturningIsKept
    <3>3. QED
      BY <3>1, <3>2
  <2>2. QED
    BY <2>1 DEF ReturningIsKept
<1>11. QED
  BY <1>2, <1>8, <1>9, <1>10 DEF Inv

LEMMA ExpireInv == ASSUME Inv, NEW r \in Rooms, NEW p \in Projectiles, Expire(r, p) PROVE Inv'
<1>1. p \in held[r] /\ ReturnToPool(r, p, shot[p]) /\ todo' = todo
  BY DEF Expire
<1>2. shot[p] \in ShotRecords /\ shot[p].callback
  BY <1>1 DEF Inv, Types, HeldAreActive
<1>3. QED
  BY <1>1, <1>2, ReturnInv

LEMMA HitInv ==
  ASSUME Inv, NEW r \in Rooms, NEW p \in Projectiles, NEW e \in Enemies, Hit(r, p, e)
  PROVE  Inv'
<1> DEFINE s == [shot[p] EXCEPT !.hits = @ \cup {e}]
<1>1. p \in held[r] /\ todo' = todo /\ UNCHANGED <<name, next>>
  BY DEF Hit
<1>2. s \in ShotRecords /\ s.callback = shot[p].callback /\ s.active = shot[p].active
  BY DEF Inv, Types, ShotRecords
<1>3. shot[p].active /\ shot[p].callback
  BY <1>1 DEF Inv, HeldAreActive
<1>4. \/ ReturnToPool(r, p, s)
      \/ shot' = [shot EXCEPT ![p] = s] /\ UNCHANGED <<poolVars, held, returning, pc>>
  BY DEF Hit
<1> HIDE DEF s
<1>5. CASE ReturnToPool(r, p, s)
  BY <1>1, <1>2, <1>3, <1>5, ReturnInv
<1>6. CASE shot' = [shot EXCEPT ![p] = s] /\ UNCHANGED <<poolVars, held, returning, pc>>
  <2>1. UNCHANGED <<made, pending, held, returning, pc, todo>>
    BY <1>1, <1>6 DEF poolVars
  <2>2. /\ shot' \in [Projectiles -> ShotRecords]
        /\ \A q \in Projectiles : shot'[q].active = shot[q].active
                                  /\ shot'[q].callback = shot[q].callback
    BY <1>2, <1>6 DEF Inv, Types
  <2>3. Types'
    BY <2>1, <2>2 DEF Inv, Types
  <2>4. EveryObjectHasOnePlace'
    BY <2>1, SameKeepsPlaces DEF Inv
  <2>5. HeldAreActive' /\ ReturningIsKept'
    BY <2>1, <2>2 DEF Inv, HeldAreActive, ReturningIsKept
  <2>6. QED
    BY <2>3, <2>4, <2>5 DEF Inv
<1>7. QED
  BY <1>4, <1>5, <1>6

\* The late Reset meets a projectile that is still in the pool.
LEMMA ResetInv == ASSUME Inv, NEW r \in Rooms, Reset(r) PROVE Inv'
<1> DEFINE p == returning[r]
<1>1. /\ pc[r] = "returning"
      /\ shot' = [shot EXCEPT ![p] = Forget(@)]
      /\ returning' = [returning EXCEPT ![r] = Nobody]
      /\ todo' = [todo EXCEPT ![r] = @ \ {p}]
      /\ pc' = [pc EXCEPT ![r] = "projectiles"]
      /\ UNCHANGED <<made, pending, held>>
  BY DEF Reset, poolVars
<1>2. p \in Projectiles /\ p \in pending /\ \A q \in Rooms : p \notin held[q]
  BY <1>1 DEF Inv, ReturningIsKept, EveryObjectHasOnePlace
<1> HIDE DEF p
<1>3. Forget(shot[p]) \in ShotRecords /\ Forget(shot[p]).callback = shot[p].callback
  BY <1>2, ForgetType DEF Inv, Types
<1>4. /\ shot' \in [Projectiles -> ShotRecords] /\ shot'[p].callback = shot[p].callback
      /\ \A q \in Projectiles \ {p} : shot'[q] = shot[q]
  BY <1>1, <1>2, <1>3 DEF Inv, Types
<1>5. /\ pc' \in [Rooms -> PcStates] /\ pc'[r] = "projectiles"
      /\ \A q \in Rooms \ {r} : pc'[q] = pc[q] /\ returning'[q] = returning[q]
  BY <1>1 DEF Inv, Types, PcStates
<1>6. Types'
  BY <1>1, <1>4, <1>5 DEF Inv, Types
<1>7. EveryObjectHasOnePlace'
  BY <1>1, SameKeepsPlaces DEF Inv
<1>8. HeldAreActive'
  BY <1>1, <1>2, <1>4 DEF Inv, HeldAreActive
<1>9. ReturningIsKept'
  <2>1. ASSUME NEW q \in Rooms, pc'[q] = "returning"
        PROVE  returning'[q] \in Projectiles /\ returning'[q] \in pending'
               /\ shot'[returning'[q]].callback
    <3>1. q # r /\ pc[q] = "returning" /\ returning'[q] = returning[q]
      BY <1>5, <2>1
    <3>2. returning[q] \in Projectiles /\ returning[q] \in pending /\ shot[returning[q]].callback
      BY <3>1 DEF Inv, ReturningIsKept
    <3>3. QED
      BY <1>1, <1>4, <3>1, <3>2
  <2>2. QED
    BY <2>1 DEF ReturningIsKept
<1>10. QED
  BY <1>6, <1>7, <1>8, <1>9 DEF Inv

\* Where a room's update goes on without touching an object.
LEMMA MinionsDoneInv == ASSUME Inv, NEW r \in Rooms, MinionsDone(r) PROVE Inv'
<1>1. UNCHANGED <<made, pending, held, shot, returning>>
  BY DEF MinionsDone, poolVars
<1>2. /\ pc' \in [Rooms -> PcStates]
      /\ \A q \in Rooms : pc'[q] = "returning" => pc[q] = "returning"
  BY DEF MinionsDone, Inv, Types, PcStates
<1>3. todo' \in [Rooms -> SUBSET Projectiles]
  BY DEF MinionsDone, Inv, Types
<1>4. QED
  BY <1>1, <1>2, <1>3, StayInv

LEMMA ProjectilesDoneInv == ASSUME Inv, NEW r \in Rooms, ProjectilesDone(r) PROVE Inv'
<1>1. UNCHANGED <<made, pending, held, shot, returning>>
  BY DEF ProjectilesDone, poolVars
<1>2. /\ pc' \in [Rooms -> PcStates]
      /\ \A q \in Rooms : pc'[q] = "returning" => pc[q] = "returning"
  BY DEF ProjectilesDone, Inv, Types, PcStates
<1>3. todo' \in [Rooms -> SUBSET Projectiles]
  BY DEF ProjectilesDone, Inv, Types
<1>4. QED
  BY <1>1, <1>2, <1>3, StayInv

LEMMA TickInv == ASSUME Inv, BeginTick \/ EndTick PROVE Inv'
<1>1. UNCHANGED <<made, pending, held, shot, todo, returning>>
  BY DEF BeginTick, EndTick, poolVars
<1>2. /\ pc' \in [Rooms -> PcStates]
      /\ \A q \in Rooms : pc'[q] = "returning" => pc[q] = "returning"
  BY DEF BeginTick, EndTick, PcStates
<1>3. todo' \in [Rooms -> SUBSET Projectiles]
  BY <1>1 DEF Inv, Types
<1>4. QED
  BY <1>1, <1>2, <1>3, StayInv

LEMMA CleanupInv == ASSUME Inv, NEW r \in Rooms, Cleanup(r) PROVE Inv'
<1>1. UNCHANGED <<shot, todo, returning>> /\ todo' \in [Rooms -> SUBSET Projectiles]
  BY DEF Cleanup, Inv, Types
<1>2. /\ pc' \in [Rooms -> PcStates]
      /\ \A q \in Rooms : pc'[q] = "returning" => pc[q] = "returning"
  BY DEF Cleanup, Inv, Types, PcStates
<1>3. CASE ResetStageState(r)
  BY <1>1, <1>2, <1>3, ResetStageInv
<1>4. CASE UNCHANGED <<poolVars, held>>
  BY <1>1, <1>2, <1>4, StayInv DEF poolVars
<1>5. QED
  BY <1>3, <1>4 DEF Cleanup

LEMMA SellInv == ASSUME Inv, NEW r \in Rooms, NEW m \in Minions, SellMinion(r, m) PROVE Inv'
<1>1. /\ {m} \in SUBSET held[r] /\ held' = [held EXCEPT ![r] = @ \ {m}] /\ Release({m})
      /\ UNCHANGED <<shot, pc, todo, returning>>
  BY DEF SellMinion, roomVars
<1>2. todo' \in [Rooms -> SUBSET Projectiles] /\ pc' \in [Rooms -> PcStates]
  BY <1>1 DEF Inv, Types
<1>3. QED
  BY <1>1, <1>2, ReleaseInv

LEMMA RemoveEnemiesInv ==
  ASSUME Inv, NEW r \in Rooms, NEW S \in SUBSET (held[r] \cap Enemies), RemoveEnemies(r, S)
  PROVE  Inv'
<1>1. /\ S \in SUBSET held[r] /\ held' = [held EXCEPT ![r] = @ \ S] /\ Release(S)
      /\ UNCHANGED <<shot, todo, returning>> /\ pc' = [pc EXCEPT ![r] = "minions"]
  BY DEF RemoveEnemies
<1>2. /\ todo' \in [Rooms -> SUBSET Projectiles] /\ pc' \in [Rooms -> PcStates]
      /\ \A q \in Rooms : pc'[q] = "returning" => pc[q] = "returning"
  BY <1>1 DEF Inv, Types, PcStates
<1>3. QED
  BY <1>1, <1>2, ReleaseInv

LEMMA LastLeavesInv == ASSUME Inv, NEW r \in Rooms, LastLeaves(r) PROVE Inv'
<1>1. ResetStageState(r) /\ UNCHANGED <<shot, pc, todo, returning>>
  BY DEF LastLeaves, roomVars
<1>2. pc' \in [Rooms -> PcStates]
  BY <1>1 DEF Inv, Types
<1>3. QED
  BY <1>1, <1>2, ResetStageInv

LEMMA SpawnMinionInv == ASSUME Inv, NEW r \in Rooms, NEW m \in Minions, SpawnMinion(r, m) PROVE Inv'
BY SpawnInv DEF SpawnMinion

LEMMA SpawnEnemyInv == ASSUME Inv, NEW r \in Rooms, NEW e \in Enemies, SpawnEnemy(r, e) PROVE Inv'
BY SpawnInv DEF SpawnEnemy

LEMMA StepInv == Inv /\ [Next]_vars => Inv'
<1> SUFFICES ASSUME Inv, [Next]_vars PROVE Inv'
  OBVIOUS
<1>1. CASE UNCHANGED vars
  <2>1. UNCHANGED <<made, pending, held, shot, pc, todo, returning>>
    BY <1>1 DEF vars
  <2>2. todo' \in [Rooms -> SUBSET Projectiles] /\ pc' \in [Rooms -> PcStates]
    BY <2>1 DEF Inv, Types
  <2>3. QED
    BY <2>1, <2>2, StayInv
<1>2. CASE BeginTick \/ EndTick
  BY <1>2, TickInv
<1>3. ASSUME NEW r \in Rooms,
             \/ LastLeaves(r) \/ MinionsDone(r) \/ Reset(r)
             \/ ProjectilesDone(r) \/ Cleanup(r)
      PROVE  Inv'
  BY <1>3, LastLeavesInv, MinionsDoneInv, ResetInv, ProjectilesDoneInv, CleanupInv
<1>4. ASSUME NEW r \in Rooms, \E m \in Minions : SpawnMinion(r, m) \/ SellMinion(r, m)
      PROVE  Inv'
  BY <1>4, SpawnMinionInv, SellInv
<1>5. ASSUME NEW r \in Rooms,
             \/ \E e \in Enemies : SpawnEnemy(r, e)
             \/ \E S \in SUBSET (held[r] \cap Enemies) : RemoveEnemies(r, S)
      PROVE  Inv'
  BY <1>5, SpawnEnemyInv, RemoveEnemiesInv
<1>6. ASSUME NEW r \in Rooms,
             \E p \in Projectiles, e \in Enemies, m \in Minions, flight \in Flights :
               SpawnProjectile(r, p, e, m, flight)
      PROVE  Inv'
  BY <1>6, FireInv
<1>7. ASSUME NEW r \in Rooms,
             \/ \E p \in Projectiles : FlyOn(r, p) \/ Expire(r, p)
             \/ \E p \in Projectiles, e \in Enemies : Hit(r, p, e)
      PROVE  Inv'
  BY <1>7, FlyOnInv, ExpireInv, HitInv
<1>8. QED
  BY <1>1, <1>2, <1>3, <1>4, <1>5, <1>6, <1>7 DEF Next

\* Where objects are is inductive together with two facts about projectiles: a
\* room's projectiles are active and carry their callback, and one between its
\* release and its Reset is queued and kept from Acquire by that callback
\* (Projectile::ReturnToPool, ObjectPool::Acquire).
THEOREM ObjectPoolInv == Spec => []Inv
<1>1. Init => Inv
  BY InitInv
<1>2. Inv /\ [Next]_vars => Inv'
  BY StepInv
<1>3. QED
  BY <1>1, <1>2, PTL DEF Spec

\* No object of the three pools is lost or in two places, whatever the rooms
\* do at the same time.
THEOREM ObjectPoolOnePlace == Spec => []EveryObjectHasOnePlace
<1>1. Inv => EveryObjectHasOnePlace
  BY DEF Inv
<1>2. QED
  BY <1>1, ObjectPoolInv, PTL

-----------------------------------------------------------------------------
(* Names *)

\* What is made has a name of its own, all names are older than the next, and a
\* projectile refers to nothing that was not made.
NameInv ==
  /\ name \in [Objects \cup {Nobody} -> Nat]
  /\ next \in Nat
  /\ \A o \in Objects : name[o] < next
  /\ \A o, q \in made : name[o] = name[q] => o = q

RefsMade ==
  \A p \in Projectiles :
    /\ shot[p].target \in made \cup {Nobody}
    /\ shot[p].owner \in made \cup {Nobody}
    /\ shot[p].hits \subseteq made

ArenaInv == Inv /\ NameInv /\ RefsMade

LEMMA HeldIsMade == ASSUME Inv, NEW r \in Rooms PROVE held[r] \subseteq made /\ held[r] \subseteq Objects
  BY DEF Inv, EveryObjectHasOnePlace, Types

\* The object that Acquire hands out is in no room and no projectile refers to
\* it, and it gets a name nothing else has.
LEMMA AcquireIsNew ==
  ASSUME ArenaInv, NEW Kind \in {Enemies, Minions, Projectiles}, NEW o, Acquire(Kind, o)
  PROVE  /\ o \in Kind /\ o \in Objects /\ o # Nobody
         /\ \A r \in Rooms : o \notin held[r]
         /\ \A p \in Projectiles : o \notin {shot[p].target, shot[p].owner} \cup shot[p].hits
         /\ made' = made \cup {o}
         /\ next' = next + 1
         /\ name' \in [Objects \cup {Nobody} -> Nat] /\ name'[o] = next
         /\ \A q \in (Objects \cup {Nobody}) \ {o} : name'[q] = name[q]
<1>1. /\ o \in Kind /\ made' = made \cup {o} /\ \A r \in Rooms : o \notin held[r]
  BY AcquireTakesUnused DEF ArenaInv, Inv
<1>2. o \in Objects /\ o # Nobody
  BY <1>1, PoolAssumption DEF Objects
<1>3. \A p \in Projectiles : o \notin {shot[p].target, shot[p].owner} \cup shot[p].hits
  <2>1. CASE Reusable(Kind) # {}
    BY <2>1 DEF Acquire, Reusable, Referenced
  <2>2. CASE Reusable(Kind) = {}
    BY <1>2, <2>2 DEF Acquire, ArenaInv, RefsMade
  <2>3. QED
    BY <2>1, <2>2
<1>4. name' = [name EXCEPT ![o] = next] /\ next' = next + 1
  BY DEF Acquire
<1>5. QED
  BY <1>1, <1>2, <1>3, <1>4 DEF ArenaInv, NameInv

LEMMA NameInvInit == Init => NameInv /\ RefsMade
  BY DEF Init, NameInv, RefsMade, Blank

\* Objects change hands, and none is taken out.
LEMMA SameNames ==
  ASSUME NameInv, UNCHANGED <<made, name, next>>
  PROVE  NameInv'
  BY DEF NameInv

LEMMA AcquireNames ==
  ASSUME ArenaInv, NEW Kind \in {Enemies, Minions, Projectiles}, NEW o, Acquire(Kind, o)
  PROVE  NameInv'
<1>1. /\ o \in Objects /\ made' = made \cup {o} /\ next' = next + 1
      /\ name' \in [Objects \cup {Nobody} -> Nat] /\ name'[o] = next
      /\ \A q \in (Objects \cup {Nobody}) \ {o} : name'[q] = name[q]
  BY AcquireIsNew
<1>2. /\ next \in Nat /\ \A q \in Objects : name[q] < next /\ name[q] \in Nat
      /\ \A q, x \in made : name[q] = name[x] => q = x
      /\ made \subseteq Objects
  BY DEF ArenaInv, NameInv, Inv, Types
<1>3. next' \in Nat /\ \A q \in Objects : name'[q] < next'
  BY <1>1, <1>2
<1>4. ASSUME NEW q \in made', NEW x \in made', name'[q] = name'[x] PROVE q = x
  <2>1. CASE q = o \/ x = o
    BY <1>1, <1>2, <1>4, <2>1
  <2>2. CASE q # o /\ x # o
    BY <1>1, <1>2, <1>4, <2>2
  <2>3. QED
    BY <2>1, <2>2
<1>5. QED
  BY <1>1, <1>3, <1>4 DEF NameInv

\* References stay with what is made.
LEMMA RefsStay ==
  ASSUME RefsMade, made \subseteq made',
         \A p \in Projectiles :
           /\ shot'[p].target \in {shot[p].target, Nobody} \cup made
           /\ shot'[p].owner \in {shot[p].owner, Nobody} \cup made
           /\ shot'[p].hits \subseteq shot[p].hits \cup made
  PROVE  RefsMade'
  BY DEF RefsMade

\* Every step but a spawn keeps names and what is made; of the references, a shot
\* takes those of its room, a hit adds one, and a Reset forgets them.
LEMMA StepNames == ArenaInv /\ [Next]_vars => NameInv' /\ RefsMade'
<1> SUFFICES ASSUME ArenaInv, [Next]_vars PROVE NameInv' /\ RefsMade'
  OBVIOUS
<1>0. /\ NameInv /\ RefsMade /\ Inv
      /\ \A r \in Rooms : held[r] \subseteq made /\ held[r] \subseteq Objects
      /\ shot \in [Projectiles -> ShotRecords]
  BY HeldIsMade DEF ArenaInv, Inv, Types
<1>1. ASSUME UNCHANGED <<made, shot, name, next>> PROVE NameInv' /\ RefsMade'
  BY <1>0, <1>1, SameNames, RefsStay
<1>2. ASSUME NEW r \in Rooms, NEW Kind \in {Enemies, Minions}, NEW o, Spawn(r, Kind, o),
             UNCHANGED shot
      PROVE  NameInv' /\ RefsMade'
  <2>1. Acquire(Kind, o)
    BY <1>2 DEF Spawn
  <2>2. made \subseteq made'
    BY <2>1, AcquireIsNew
  <2>3. QED
    BY <1>0, <1>2, <2>1, <2>2, AcquireNames, RefsStay
<1>3. ASSUME NEW r \in Rooms, NEW p \in Projectiles, NEW e \in Enemies, NEW m \in Minions,
             NEW flight \in Flights, SpawnProjectile(r, p, e, m, flight)
      PROVE  NameInv' /\ RefsMade'
  <2>1. Acquire(Projectiles, p) /\ e \in made /\ m \in made
    BY <1>0, <1>3 DEF SpawnProjectile, Spawn
  <2>2. made \subseteq made'
    BY <2>1, AcquireIsNew
  <2>3. /\ NewShot(e, m, flight).target = e /\ NewShot(e, m, flight).owner = m
        /\ NewShot(e, m, flight).hits = {}
    BY DEF NewShot, Blank
  <2>4. /\ shot'[p] = NewShot(e, m, flight)
        /\ \A q \in Projectiles \ {p} : shot'[q] = shot[q]
    BY <1>0, <1>3 DEF SpawnProjectile
  <2>5. RefsMade'
    BY <1>0, <2>1, <2>2, <2>3, <2>4, RefsStay
  <2>6. QED
    BY <2>1, <2>5, AcquireNames
<1>4. ASSUME NEW p \in Projectiles, NEW s, shot' = [shot EXCEPT ![p] = s],
             s.target \in {shot[p].target, Nobody} \cup made,
             s.owner \in {shot[p].owner, Nobody} \cup made,
             s.hits \subseteq shot[p].hits \cup made,
             UNCHANGED <<made, name, next>>
      PROVE  NameInv' /\ RefsMade'
  <2>1. shot'[p] = s /\ \A q \in Projectiles \ {p} : shot'[q] = shot[q]
    BY <1>0, <1>4
  <2>2. RefsMade'
    BY <1>0, <1>4, <2>1, RefsStay
  <2>3. QED
    BY <1>0, <1>4, <2>2, SameNames
<1>5. ASSUME NEW r \in Rooms, NEW p \in Projectiles, Expire(r, p)
      PROVE  NameInv' /\ RefsMade'
  <2> DEFINE s == [shot[p] EXCEPT !.active = FALSE]
  <2>1. /\ shot' = [shot EXCEPT ![p] = s] /\ UNCHANGED <<made, name, next>>
    BY <1>5 DEF Expire, ReturnToPool, Release
  <2>2. s.target = shot[p].target /\ s.owner = shot[p].owner /\ s.hits = shot[p].hits
    BY <1>0 DEF ShotRecords
  <2> HIDE DEF s
  <2>3. QED
    BY <1>4, <2>1, <2>2
<1>6. ASSUME NEW r \in Rooms, NEW p \in Projectiles, NEW e \in Enemies, Hit(r, p, e)
      PROVE  NameInv' /\ RefsMade'
  <2> DEFINE s == [shot[p] EXCEPT !.hits = @ \cup {e}]
             z == [s EXCEPT !.active = FALSE]
  <2>1. e \in made /\ UNCHANGED <<made, name, next>>
        /\ (shot' = [shot EXCEPT ![p] = z] \/ shot' = [shot EXCEPT ![p] = s])
    BY <1>0, <1>6 DEF Hit, ReturnToPool, Release, poolVars
  <2>2. /\ s.target = shot[p].target /\ s.owner = shot[p].owner /\ s.hits = shot[p].hits \cup {e}
        /\ z.target = shot[p].target /\ z.owner = shot[p].owner /\ z.hits = shot[p].hits \cup {e}
    BY <1>0 DEF ShotRecords
  <2> HIDE DEF s, z
  <2>3. QED
    BY <1>4, <2>1, <2>2
<1>7. ASSUME NEW r \in Rooms, Reset(r)
      PROVE  NameInv' /\ RefsMade'
  <2> DEFINE p == returning[r]
             s == Forget(shot[p])
  <2>1. p \in Projectiles /\ shot' = [shot EXCEPT ![p] = s] /\ UNCHANGED <<made, name, next>>
    BY <1>0, <1>7 DEF Reset, Inv, ReturningIsKept, poolVars
  <2>2. s.target = Nobody /\ s.owner = Nobody /\ s.hits = {}
    BY <1>0, <2>1 DEF Forget, ShotRecords
  <2> HIDE DEF p, s
  <2>3. QED
    BY <1>4, <2>1, <2>2
<1>8. CASE UNCHANGED vars
  BY <1>1, <1>8 DEF vars
<1>9. CASE BeginTick \/ EndTick
  BY <1>1, <1>9 DEF BeginTick, EndTick, poolVars
<1>10. ASSUME NEW r \in Rooms,
              \/ LastLeaves(r) \/ MinionsDone(r) \/ ProjectilesDone(r) \/ Cleanup(r)
              \/ \E m \in Minions : SellMinion(r, m)
              \/ \E S \in SUBSET (held[r] \cap Enemies) : RemoveEnemies(r, S)
              \/ \E p \in Projectiles : FlyOn(r, p)
       PROVE  NameInv' /\ RefsMade'
  BY <1>1, <1>10
  DEF LastLeaves, MinionsDone, ProjectilesDone, Cleanup, SellMinion, RemoveEnemies, FlyOn,
      ResetStageState, Release, poolVars
<1>11. ASSUME NEW r \in Rooms,
              \/ \E m \in Minions : SpawnMinion(r, m)
              \/ \E e \in Enemies : SpawnEnemy(r, e)
       PROVE  NameInv' /\ RefsMade'
  BY <1>2, <1>11 DEF SpawnMinion, SpawnEnemy
<1>12. QED
  BY <1>3, <1>5, <1>6, <1>7, <1>8, <1>9, <1>10, <1>11 DEF Next

\* The invariant of the refinement.
LEMMA ArenaInvAlways == Spec => []ArenaInv
<1>1. Init => ArenaInv
  BY InitInv, NameInvInit DEF ArenaInv
<1>2. ArenaInv /\ [Next]_vars => ArenaInv'
  BY StepInv, StepNames DEF ArenaInv
<1>3. QED
  BY <1>1, <1>2, PTL DEF Spec

-----------------------------------------------------------------------------
(* The arena that rooms see *)

\* Things and Shots for managers h, members sh and names nm.
FlyingIn(h) == {f \in Rooms \X Projectiles : f[2] \in h[f[1]]}

ViewOf(r, s, nm) ==
  [room |-> r, target |-> nm[s.target], owner |-> nm[s.owner], hits |-> {nm[e] : e \in s.hits}]

ThingsOf(h, nm) == [r \in Rooms |-> {nm[o] : o \in h[r] \ Projectiles}]

ShotsOf(h, sh, nm) ==
  [n \in {nm[f[2]] : f \in FlyingIn(h)} |->
     LET f == CHOOSE g \in FlyingIn(h) : nm[g[2]] = n
     IN  ViewOf(f[1], sh[f[2]], nm)]

LEMMA ArenaStates ==
  /\ Things = ThingsOf(held, name) /\ Shots = ShotsOf(held, shot, name)
  /\ Things' = ThingsOf(held', name') /\ Shots' = ShotsOf(held', shot', name')
  BY DEF Things, ThingsOf, Shots, ShotsOf, InFlight, FlyingIn, ViewOf

\* A name of a flying projectile tells which one it is, and where.
Distinct(h, nm) ==
  \A r, s \in Rooms : \A p \in h[r] \cap Projectiles, q \in h[s] \cap Projectiles :
    nm[p] = nm[q] => p = q /\ r = s

LEMMA NamesAreDistinct == ASSUME Inv, NameInv PROVE Distinct(held, name)
  BY HeldIsMade DEF Inv, NameInv, Distinct, EveryObjectHasOnePlace

LEMMA NamesAreDistinctNext == ASSUME Inv', NameInv' PROVE Distinct(held', name')
<1>1. \A r \in Rooms : held'[r] \subseteq made'
  BY DEF Inv, EveryObjectHasOnePlace
<1>2. \A r, s \in Rooms : r # s => held'[r] \cap held'[s] = {}
  BY DEF Inv, EveryObjectHasOnePlace
<1>3. QED
  BY <1>1, <1>2 DEF NameInv, Distinct

\* A flying projectile is seen under its name, as it is.
LEMMA ShotsOfFacts ==
  ASSUME NEW h, NEW sh, NEW nm, Distinct(h, nm)
  PROVE  /\ ShotsOf(h, sh, nm) = [n \in DOMAIN ShotsOf(h, sh, nm) |-> ShotsOf(h, sh, nm)[n]]
         /\ \A n : n \in DOMAIN ShotsOf(h, sh, nm)
                     <=> \E r \in Rooms : \E p \in h[r] \cap Projectiles : n = nm[p]
         /\ \A r \in Rooms : \A p \in h[r] \cap Projectiles :
              ShotsOf(h, sh, nm)[nm[p]] = ViewOf(r, sh[p], nm)
<1>1. ShotsOf(h, sh, nm) = [n \in DOMAIN ShotsOf(h, sh, nm) |-> ShotsOf(h, sh, nm)[n]]
  BY DEF ShotsOf
<1>2. ASSUME NEW n
      PROVE  n \in DOMAIN ShotsOf(h, sh, nm)
               <=> \E r \in Rooms : \E p \in h[r] \cap Projectiles : n = nm[p]
  <2>1. n \in DOMAIN ShotsOf(h, sh, nm) <=> \E f \in FlyingIn(h) : n = nm[f[2]]
    BY DEF ShotsOf
  <2>2. ASSUME NEW f \in FlyingIn(h), n = nm[f[2]]
        PROVE  \E r \in Rooms : \E p \in h[r] \cap Projectiles : n = nm[p]
    <3>1. f[1] \in Rooms /\ f[2] \in h[f[1]] \cap Projectiles
      BY DEF FlyingIn
    <3>2. QED
      BY <2>2, <3>1
  <2>3. ASSUME NEW r \in Rooms, NEW p \in h[r] \cap Projectiles, n = nm[p]
        PROVE  \E f \in FlyingIn(h) : n = nm[f[2]]
    <3>1. <<r, p>> \in FlyingIn(h) /\ n = nm[<<r, p>>[2]]
      BY <2>3 DEF FlyingIn
    <3>2. QED
      BY <3>1
  <2>4. QED
    BY <2>1, <2>2, <2>3
<1>3. ASSUME NEW r \in Rooms, NEW p \in h[r] \cap Projectiles
      PROVE  ShotsOf(h, sh, nm)[nm[p]] = ViewOf(r, sh[p], nm)
  <2> DEFINE f == CHOOSE g \in FlyingIn(h) : nm[g[2]] = nm[p]
  <2>1. <<r, p>> \in FlyingIn(h) /\ nm[<<r, p>>[2]] = nm[p]
    BY DEF FlyingIn
  <2>2. f \in FlyingIn(h) /\ nm[f[2]] = nm[p]
    BY <2>1
  <2>3. nm[p] \in {nm[g[2]] : g \in FlyingIn(h)}
    BY <2>1
  <2>4. ShotsOf(h, sh, nm)[nm[p]] = ViewOf(f[1], sh[f[2]], nm)
    BY <2>3 DEF ShotsOf
  <2> HIDE DEF f
  <2>5. f[1] = r /\ f[2] = p
    BY <2>2 DEF FlyingIn, Distinct
  <2>6. QED
    BY <2>4, <2>5
<1>4. QED
  BY <1>1, <1>2, <1>3

\* What rooms see of shots h2, sh2, nm2 after h, sh, nm: the shots K of them, as
\* they were.
LEMMA FewerShots ==
  ASSUME NEW h, NEW sh, NEW nm, Distinct(h, nm),
         NEW h2, NEW sh2, NEW nm2, Distinct(h2, nm2),
         \A r \in Rooms : h2[r] \cap Projectiles \subseteq h[r] \cap Projectiles,
         \A r \in Rooms : \A p \in h2[r] \cap Projectiles :
           nm2[p] = nm[p] /\ ViewOf(r, sh2[p], nm2) = ViewOf(r, sh[p], nm),
         NEW K \in SUBSET DOMAIN ShotsOf(h, sh, nm),
         \A r \in Rooms : \A p \in h[r] \cap Projectiles : nm[p] \in K <=> p \in h2[r]
  PROVE  ShotsOf(h2, sh2, nm2) = [n \in K |-> ShotsOf(h, sh, nm)[n]]
<1>1. ASSUME NEW n PROVE n \in DOMAIN ShotsOf(h2, sh2, nm2) <=> n \in K
  <2>1. ASSUME n \in DOMAIN ShotsOf(h2, sh2, nm2) PROVE n \in K
    <3>1. PICK r \in Rooms : \E p \in h2[r] \cap Projectiles : n = nm2[p]
      BY <2>1, ShotsOfFacts
    <3>2. PICK p \in h2[r] \cap Projectiles : n = nm2[p]
      BY <3>1
    <3>3. QED
      BY <3>2
  <2>2. ASSUME n \in K PROVE n \in DOMAIN ShotsOf(h2, sh2, nm2)
    <3>1. \E r \in Rooms : \E p \in h[r] \cap Projectiles : n = nm[p]
      BY <2>2, ShotsOfFacts
    <3>2. PICK r \in Rooms : \E p \in h[r] \cap Projectiles : n = nm[p]
      BY <3>1
    <3>3. PICK p \in h[r] \cap Projectiles : n = nm[p]
      BY <3>2
    <3>4. p \in h2[r] \cap Projectiles /\ n = nm2[p]
      BY <2>2, <3>3
    <3>5. QED
      BY <3>4, ShotsOfFacts
  <2>3. QED
    BY <2>1, <2>2
<1>2. ASSUME NEW n \in K PROVE ShotsOf(h2, sh2, nm2)[n] = ShotsOf(h, sh, nm)[n]
  <2>1. PICK r \in Rooms : \E p \in h2[r] \cap Projectiles : n = nm2[p]
    BY <1>1, ShotsOfFacts
  <2>2. PICK p \in h2[r] \cap Projectiles : n = nm2[p]
    BY <2>1
  <2>3. ShotsOf(h2, sh2, nm2)[n] = ViewOf(r, sh2[p], nm2)
    BY <2>2, ShotsOfFacts
  <2>4. p \in h[r] \cap Projectiles /\ n = nm[p]
    BY <2>2
  <2>5. ShotsOf(h, sh, nm)[n] = ViewOf(r, sh[p], nm)
    BY <2>4, ShotsOfFacts
  <2>6. QED
    BY <2>2, <2>3, <2>5
<1>3. DOMAIN ShotsOf(h2, sh2, nm2) = K
  BY <1>1
<1>4. ShotsOf(h2, sh2, nm2) = [n \in DOMAIN ShotsOf(h2, sh2, nm2) |-> ShotsOf(h2, sh2, nm2)[n]]
  BY ShotsOfFacts
<1>5. QED
  BY <1>2, <1>3, <1>4

\* The same projectiles fly, and look as they did.
LEMMA SameShots ==
  ASSUME NEW h, NEW sh, NEW nm, Distinct(h, nm),
         NEW h2, NEW sh2, NEW nm2, Distinct(h2, nm2),
         \A r \in Rooms : h2[r] \cap Projectiles = h[r] \cap Projectiles,
         \A r \in Rooms : \A p \in h2[r] \cap Projectiles :
           nm2[p] = nm[p] /\ ViewOf(r, sh2[p], nm2) = ViewOf(r, sh[p], nm)
  PROVE  ShotsOf(h2, sh2, nm2) = ShotsOf(h, sh, nm)
<1> DEFINE K == DOMAIN ShotsOf(h, sh, nm)
<1>1. \A r \in Rooms : \A p \in h[r] \cap Projectiles : nm[p] \in K <=> p \in h2[r]
  BY ShotsOfFacts
<1>2. \A r \in Rooms : h2[r] \cap Projectiles \subseteq h[r] \cap Projectiles
  OBVIOUS
<1>3. ShotsOf(h2, sh2, nm2) = [n \in K |-> ShotsOf(h, sh, nm)[n]]
  BY <1>1, <1>2, FewerShots
<1>4. ShotsOf(h, sh, nm) = [n \in K |-> ShotsOf(h, sh, nm)[n]]
  BY ShotsOfFacts
<1>5. QED
  BY <1>3, <1>4

-----------------------------------------------------------------------------
(* Each step is one of the arena, or none *)

ArenaStep == AsArena!Next \/ UNCHANGED AsArena!vars

\* The name of what is taken out is nothing that a shot shows.
LEMMA AcquireKeepsViews ==
  ASSUME ArenaInv, NEW Kind \in {Enemies, Minions, Projectiles}, NEW o, Acquire(Kind, o),
         NEW r, NEW p \in Projectiles
  PROVE  ViewOf(r, shot[p], name') = ViewOf(r, shot[p], name)
<1>1. /\ shot[p].target \in made \cup {Nobody} /\ shot[p].owner \in made \cup {Nobody}
      /\ shot[p].hits \subseteq made /\ made \subseteq Objects
  BY DEF ArenaInv, RefsMade, Inv, Types
<1>2. /\ o \notin {shot[p].target, shot[p].owner} \cup shot[p].hits
      /\ \A q \in (Objects \cup {Nobody}) \ {o} : name'[q] = name[q]
  BY AcquireIsNew
<1>3. /\ name'[shot[p].target] = name[shot[p].target]
      /\ name'[shot[p].owner] = name[shot[p].owner]
      /\ \A e \in shot[p].hits : name'[e] = name[e]
  BY <1>1, <1>2
<1>4. QED
  BY <1>3 DEF ViewOf

\* Nothing rooms could see has changed.
LEMMA NothingIsSeen ==
  ASSUME ArenaInv, ArenaInv', UNCHANGED <<held, name, next>>,
         \A r \in Rooms : \A p \in held[r] \cap Projectiles : shot'[p] = shot[p]
  PROVE  UNCHANGED AsArena!vars
<1>1. Distinct(held, name) /\ Distinct(held', name')
  BY NamesAreDistinct, NamesAreDistinctNext DEF ArenaInv
<1>2. ShotsOf(held', shot', name') = ShotsOf(held, shot, name)
  <2>1. \A r \in Rooms : \A p \in held'[r] \cap Projectiles :
          name'[p] = name[p] /\ ViewOf(r, shot'[p], name') = ViewOf(r, shot[p], name)
    OBVIOUS
  <2>2. QED
    BY <1>1, <2>1, SameShots
<1>3. ThingsOf(held', name') = ThingsOf(held, name)
  BY DEF ThingsOf
<1>4. QED
  BY <1>2, <1>3, ArenaStates DEF AsArena!vars

\* Enemies and minions come.
LEMMA SpawnIsSpawn ==
  ASSUME ArenaInv, ArenaInv', NEW r \in Rooms, NEW Kind \in {Enemies, Minions}, NEW o,
         Spawn(r, Kind, o), UNCHANGED shot
  PROVE  AsArena!Spawn(r)
<1>1. Acquire(Kind, o) /\ held' = [held EXCEPT ![r] = @ \cup {o}]
  BY DEF Spawn
<1>2. /\ o \in Kind /\ o \in Objects /\ \A q \in Rooms : o \notin held[q]
      /\ next' = next + 1 /\ name'[o] = next
      /\ \A q \in (Objects \cup {Nobody}) \ {o} : name'[q] = name[q]
  BY <1>1, AcquireIsNew
<1>3. o \notin Projectiles
  BY <1>2, PoolAssumption
<1>4. held \in [Rooms -> SUBSET Objects] /\ made \subseteq Objects
  BY DEF ArenaInv, Inv, Types
<1>5. Distinct(held, name) /\ Distinct(held', name')
  BY NamesAreDistinct, NamesAreDistinctNext DEF ArenaInv
<1>6. \A q \in Rooms : held'[q] \cap Projectiles = held[q] \cap Projectiles
  BY <1>1, <1>3, <1>4
<1>7. ASSUME NEW q \in Rooms, NEW p \in held'[q] \cap Projectiles
      PROVE  name'[p] = name[p] /\ ViewOf(q, shot'[p], name') = ViewOf(q, shot[p], name)
  <2>1. p \in Objects /\ p # o
    BY <1>3, <1>4, <1>6
  <2>2. ViewOf(q, shot[p], name') = ViewOf(q, shot[p], name)
    BY <1>1, AcquireKeepsViews
  <2>3. QED
    BY <1>2, <2>1, <2>2
<1>8. ShotsOf(held', shot', name') = ShotsOf(held, shot, name)
  BY <1>5, <1>6, <1>7, SameShots
<1>9. ThingsOf(held', name') = [ThingsOf(held, name) EXCEPT ![r] = @ \cup {next}]
  <2>1. ASSUME NEW q \in Rooms
        PROVE  {name'[x] : x \in held'[q] \ Projectiles}
                 = IF q = r THEN {name[x] : x \in held[q] \ Projectiles} \cup {next}
                            ELSE {name[x] : x \in held[q] \ Projectiles}
    <3>1. \A x \in held[q] : x # o /\ name'[x] = name[x]
      BY <1>2, <1>4
    <3>2. CASE q = r
      <4>1. held'[q] \ Projectiles = (held[q] \ Projectiles) \cup {o}
        BY <1>1, <1>3, <1>4, <3>2
      <4>2. QED
        BY <1>2, <3>1, <3>2, <4>1
    <3>3. CASE q # r
      <4>1. held'[q] = held[q]
        BY <1>1, <1>4, <3>3
      <4>2. QED
        BY <3>1, <3>3, <4>1
    <3>4. QED
      BY <3>2, <3>3
  <2>2. QED
    BY <2>1 DEF ThingsOf
<1>10. QED
  BY <1>2, <1>8, <1>9, ArenaStates DEF AsArena!Spawn

\* A shot is fired at an enemy of the room by a minion of the room.
LEMMA FireIsFire ==
  ASSUME ArenaInv, ArenaInv', NEW r \in Rooms, NEW p \in Projectiles, NEW e \in Enemies,
         NEW m \in Minions, NEW flight \in Flights, SpawnProjectile(r, p, e, m, flight)
  PROVE  /\ name[e] \in Things[r] /\ name[m] \in Things[r]
         /\ AsArena!Fire(r, name[e], name[m])
<1> DEFINE z == NewShot(e, m, flight)
           shots == ShotsOf(held, shot, name)
           shots2 == ShotsOf(held', shot', name')
           new == [room |-> r, target |-> name[e], owner |-> name[m], hits |-> {}]
<1>1. /\ Acquire(Projectiles, p) /\ held' = [held EXCEPT ![r] = @ \cup {p}]
      /\ shot' = [shot EXCEPT ![p] = z] /\ e \in held[r] /\ m \in held[r]
  BY DEF SpawnProjectile, Spawn
<1>2. z.target = e /\ z.owner = m /\ z.hits = {}
  BY DEF NewShot, Blank
<1> HIDE DEF z
<1>3. /\ p \in Objects /\ \A q \in Rooms : p \notin held[q]
      /\ next' = next + 1 /\ name'[p] = next
      /\ \A q \in (Objects \cup {Nobody}) \ {p} : name'[q] = name[q]
  BY <1>1, AcquireIsNew
<1>4. /\ held \in [Rooms -> SUBSET Objects] /\ made \subseteq Objects
      /\ shot \in [Projectiles -> ShotRecords]
      /\ \A o \in Objects : name[o] < next /\ name[o] \in Nat
      /\ next \in Nat
  BY DEF ArenaInv, Inv, Types, NameInv
<1>5. e \notin Projectiles /\ m \notin Projectiles /\ e \in Objects /\ m \in Objects
  BY PoolAssumption DEF Objects
<1>6. Distinct(held, name) /\ Distinct(held', name')
  BY NamesAreDistinct, NamesAreDistinctNext DEF ArenaInv
<1>7. name[e] \in Things[r] /\ name[m] \in Things[r]
  BY <1>1, <1>5 DEF Things
<1>8. /\ held'[r] = held[r] \cup {p} /\ \A q \in Rooms \ {r} : held'[q] = held[q]
      /\ shot'[p] = z /\ \A q \in Projectiles \ {p} : shot'[q] = shot[q]
  BY <1>1, <1>4
<1>9. name'[e] = name[e] /\ name'[m] = name[m]
  BY <1>3, <1>5
<1>10. \A n : n \in DOMAIN shots2 <=> n \in DOMAIN shots \cup {next}
  <2>1. \A q \in Rooms : \A x \in held[q] \cap Projectiles : x # p /\ name'[x] = name[x]
    BY <1>3, <1>4
  <2>2. ASSUME NEW n, n \in DOMAIN shots2 PROVE n \in DOMAIN shots \cup {next}
    <3>1. PICK q \in Rooms : \E x \in held'[q] \cap Projectiles : n = name'[x]
      BY <1>6, <2>2, ShotsOfFacts
    <3>2. PICK x \in held'[q] \cap Projectiles : n = name'[x]
      BY <3>1
    <3>3. CASE x = p
      BY <1>3, <3>2, <3>3
    <3>4. CASE x # p
      <4>1. x \in held[q] \cap Projectiles /\ n = name[x]
        BY <1>8, <2>1, <3>2, <3>4
      <4>2. QED
        BY <1>6, <4>1, ShotsOfFacts
    <3>5. QED
      BY <3>3, <3>4
  <2>3. ASSUME NEW n, n \in DOMAIN shots PROVE n \in DOMAIN shots2
    <3>1. PICK q \in Rooms : \E x \in held[q] \cap Projectiles : n = name[x]
      BY <1>6, <2>3, ShotsOfFacts
    <3>2. PICK x \in held[q] \cap Projectiles : n = name[x]
      BY <3>1
    <3>3. x \in held'[q] \cap Projectiles /\ n = name'[x]
      BY <1>8, <2>1, <3>2
    <3>4. QED
      BY <1>6, <3>3, ShotsOfFacts
  <2>4. next \in DOMAIN shots2
    <3>1. p \in held'[r] \cap Projectiles /\ next = name'[p]
      BY <1>3, <1>8
    <3>2. QED
      BY <1>6, <3>1, ShotsOfFacts
  <2>5. QED
    BY <2>2, <2>3, <2>4
<1>11. shots2[next] = new
  <2>1. shots2[name'[p]] = ViewOf(r, shot'[p], name')
    BY <1>6, <1>8, ShotsOfFacts
  <2>2. {name'[x] : x \in z.hits} = {}
    BY <1>2
  <2>3. QED
    BY <1>2, <1>3, <1>8, <1>9, <2>1, <2>2 DEF ViewOf
<1>12. ASSUME NEW n \in DOMAIN shots, n # next PROVE shots2[n] = shots[n]
  <2>1. PICK q \in Rooms : \E x \in held[q] \cap Projectiles : n = name[x]
    BY <1>6, <1>12, ShotsOfFacts
  <2>2. PICK x \in held[q] \cap Projectiles : n = name[x]
    BY <2>1
  <2>3. x # p /\ name'[x] = name[x] /\ x \in held'[q] \cap Projectiles /\ shot'[x] = shot[x]
    BY <1>3, <1>4, <1>8, <2>2
  <2>4. shots2[n] = ViewOf(q, shot'[x], name')
    BY <1>6, <2>2, <2>3, ShotsOfFacts
  <2>5. shots[n] = ViewOf(q, shot[x], name)
    BY <1>6, <2>2, ShotsOfFacts
  <2>6. ViewOf(q, shot[x], name') = ViewOf(q, shot[x], name)
    BY <1>1, <2>2, AcquireKeepsViews
  <2>7. QED
    BY <2>3, <2>4, <2>5, <2>6
<1>13. shots2 = [n \in DOMAIN shots2 |-> shots2[n]]
  BY <1>6, ShotsOfFacts
<1> HIDE DEF shots, shots2, new
<1>14. shots2 = [n \in DOMAIN shots \cup {next} |-> IF n = next THEN new ELSE shots[n]]
  <2>1. DOMAIN shots2 = DOMAIN shots \cup {next}
    BY <1>10
  <2>2. \A n \in DOMAIN shots2 : shots2[n] = IF n = next THEN new ELSE shots[n]
    BY <1>11, <1>12, <2>1
  <2>3. QED
    BY <1>13, <2>1, <2>2
<1>15. ThingsOf(held', name') = ThingsOf(held, name)
  <2>1. ASSUME NEW q \in Rooms
        PROVE  {name'[x] : x \in held'[q] \ Projectiles} = {name[x] : x \in held[q] \ Projectiles}
    <3>1. held'[q] \ Projectiles = held[q] \ Projectiles
      BY <1>8
    <3>2. \A x \in held[q] : name'[x] = name[x]
      BY <1>3, <1>4
    <3>3. QED
      BY <3>1, <3>2
  <2>2. QED
    BY <2>1 DEF ThingsOf
<1>16. Shots' = [n \in DOMAIN Shots \cup {next} |-> IF n = next THEN new ELSE Shots[n]]
  BY <1>14, ArenaStates DEF shots, shots2
<1>17. QED
  BY <1>3, <1>7, <1>15, <1>16, ArenaStates DEF AsArena!Fire, new

\* Enemies and minions S of a room are given up.
LEMMA RemoveIsRemove ==
  ASSUME ArenaInv, ArenaInv', NEW r \in Rooms, NEW S \in SUBSET (held[r] \ Projectiles),
         held' = [held EXCEPT ![r] = @ \ S], UNCHANGED <<shot, name, next>>
  PROVE  AsArena!Next
<1> DEFINE N == {name[o] : o \in S}
<1>1. held \in [Rooms -> SUBSET Objects] /\ \A q \in Rooms : held[q] \subseteq made
  BY HeldIsMade DEF ArenaInv, Inv, Types
<1>2. Distinct(held, name) /\ Distinct(held', name')
  BY NamesAreDistinct, NamesAreDistinctNext DEF ArenaInv
<1>3. held'[r] = held[r] \ S /\ \A q \in Rooms \ {r} : held'[q] = held[q]
  BY <1>1
<1>4. ShotsOf(held', shot', name') = ShotsOf(held, shot, name)
  <2>1. \A q \in Rooms : held'[q] \cap Projectiles = held[q] \cap Projectiles
    BY <1>3
  <2>2. Distinct(held', name)
    BY <1>2
  <2>3. ShotsOf(held', shot, name) = ShotsOf(held, shot, name)
    BY ONLY <1>2, <2>1, <2>2, SameShots
  <2>4. QED
    BY <2>3
<1>5. ThingsOf(held', name') = [ThingsOf(held, name) EXCEPT ![r] = @ \ N]
  <2>1. ASSUME NEW q \in Rooms
        PROVE  {name'[x] : x \in held'[q] \ Projectiles}
                 = IF q = r THEN {name[x] : x \in held[q] \ Projectiles} \ N
                            ELSE {name[x] : x \in held[q] \ Projectiles}
    <3>1. CASE q = r
      <4>1. \A x \in held[r] : x \notin S => name[x] \notin N
        BY <1>1 DEF ArenaInv, NameInv
      <4>2. QED
        BY <1>3, <3>1, <4>1
    <3>2. CASE q # r
      BY <1>3, <3>2
    <3>3. QED
      BY <3>1, <3>2
  <2>2. QED
    BY <2>1 DEF ThingsOf
<1>6. N \in SUBSET Things[r]
  BY DEF Things
<1>7. AsArena!Remove(r, N)
  BY <1>4, <1>5, ArenaStates DEF AsArena!Remove
<1>8. QED
  BY <1>6, <1>7 DEF AsArena!Next

\* A room that is emptied gives up all it had, its projectiles in flight with it.
LEMMA CloseIsClose ==
  ASSUME ArenaInv, ArenaInv', NEW r \in Rooms, ResetStageState(r), UNCHANGED <<shot, name, next>>
  PROVE  AsArena!Next
<1> DEFINE shots == ShotsOf(held, shot, name)
           K == {n \in DOMAIN shots : shots[n].room # r}
<1>1. held \in [Rooms -> SUBSET Objects]
  BY DEF ArenaInv, Inv, Types
<1>2. Distinct(held, name) /\ Distinct(held', name')
  BY NamesAreDistinct, NamesAreDistinctNext DEF ArenaInv
<1>3. held'[r] = {} /\ \A q \in Rooms \ {r} : held'[q] = held[q]
  BY <1>1 DEF ResetStageState
<1>4. ASSUME NEW q \in Rooms, NEW p \in held[q] \cap Projectiles
      PROVE  name[p] \in K <=> p \in held'[q]
  <2>1. shots[name[p]] = ViewOf(q, shot[p], name) /\ name[p] \in DOMAIN shots
    BY <1>2, ShotsOfFacts
  <2>2. shots[name[p]].room = q
    BY <2>1 DEF ViewOf
  <2>3. QED
    BY <1>3, <2>1, <2>2
<1>5. \A q \in Rooms : held'[q] \cap Projectiles \subseteq held[q] \cap Projectiles
  BY <1>3
<1>6. K \in SUBSET DOMAIN shots
  OBVIOUS
<1>7. ShotsOf(held', shot', name') = [n \in K |-> shots[n]]
  <2> HIDE DEF K
  <2>1. QED
    BY <1>2, <1>4, <1>5, <1>6, FewerShots
<1>8. ThingsOf(held', name') = [ThingsOf(held, name) EXCEPT ![r] = {}]
  BY <1>3 DEF ThingsOf
<1>9. AsArena!Close(r)
  BY <1>7, <1>8, ArenaStates DEF AsArena!Close
<1>10. QED
  BY <1>9 DEF AsArena!Next

\* A projectile is given back: it is seen no more, whatever its members are.
LEMMA EndIsEnd ==
  ASSUME ArenaInv, ArenaInv', NEW r \in Rooms, NEW p \in held[r] \cap Projectiles, NEW s,
         ReturnToPool(r, p, s), UNCHANGED <<name, next>>
  PROVE  AsArena!Next
<1> DEFINE shots == ShotsOf(held, shot, name)
           K == DOMAIN shots \ {name[p]}
<1>1. /\ held \in [Rooms -> SUBSET Objects] /\ shot \in [Projectiles -> ShotRecords]
      /\ EveryObjectHasOnePlace
  BY DEF ArenaInv, Inv, Types
<1>2. Distinct(held, name) /\ Distinct(held', name')
  BY NamesAreDistinct, NamesAreDistinctNext DEF ArenaInv
<1>3. /\ held'[r] = held[r] \ {p} /\ \A q \in Rooms \ {r} : held'[q] = held[q]
      /\ \A q \in Projectiles \ {p} : shot'[q] = shot[q]
  BY <1>1 DEF ReturnToPool
<1>4. \A q \in Rooms : p \notin held'[q]
  BY <1>1, <1>3 DEF EveryObjectHasOnePlace
<1>5. ASSUME NEW q \in Rooms, NEW x \in held[q] \cap Projectiles
      PROVE  name[x] \in K <=> x \in held'[q]
  <2>1. name[x] \in DOMAIN shots
    BY <1>2, ShotsOfFacts
  <2>2. name[x] = name[p] <=> x = p
    BY <1>2 DEF Distinct
  <2>3. QED
    BY <1>3, <1>4, <2>1, <2>2
<1>6. \A q \in Rooms : held'[q] \cap Projectiles \subseteq held[q] \cap Projectiles
  BY <1>3
<1>7. \A q \in Rooms : \A x \in held'[q] \cap Projectiles : shot'[x] = shot[x]
  BY <1>3, <1>4
<1>8. K \in SUBSET DOMAIN shots
  OBVIOUS
<1>9. ShotsOf(held', shot', name') = [n \in K |-> shots[n]]
  <2> HIDE DEF K
  <2>1. QED
    BY <1>2, <1>5, <1>6, <1>7, <1>8, FewerShots
<1>10. ThingsOf(held', name') = ThingsOf(held, name)
  <2>1. \A q \in Rooms : held'[q] \ Projectiles = held[q] \ Projectiles
    BY <1>3
  <2>2. QED
    BY <2>1 DEF ThingsOf
<1>11. name[p] \in DOMAIN Shots
  BY <1>2, ShotsOfFacts, ArenaStates
<1>12. AsArena!End(name[p])
  BY <1>9, <1>10, ArenaStates DEF AsArena!End
<1>13. QED
  BY <1>11, <1>12 DEF AsArena!Next

\* A projectile that flies on has one more on its list.
LEMMA HitIsHit ==
  ASSUME ArenaInv, ArenaInv', NEW r \in Rooms, NEW p \in held[r] \cap Projectiles,
         NEW e \in (held[r] \cap Enemies) \ shot[p].hits,
         shot' = [shot EXCEPT ![p].hits = @ \cup {e}], UNCHANGED <<held, name, next>>
  PROVE  AsArena!Next
<1> DEFINE shots == ShotsOf(held, shot, name)
           shots2 == ShotsOf(held', shot', name')
           more == [shots EXCEPT ![name[p]].hits = @ \cup {name[e]}]
<1>1. /\ shot \in [Projectiles -> ShotRecords] /\ EveryObjectHasOnePlace
      /\ held[r] \subseteq made /\ shot[p].hits \subseteq made
      /\ \A o, q \in made : name[o] = name[q] => o = q
  BY HeldIsMade DEF ArenaInv, Inv, Types, NameInv, RefsMade
<1>2. Distinct(held, name) /\ Distinct(held', name')
  BY NamesAreDistinct, NamesAreDistinctNext DEF ArenaInv
<1>3. /\ shot'[p].target = shot[p].target /\ shot'[p].owner = shot[p].owner
      /\ shot'[p].hits = shot[p].hits \cup {e}
      /\ \A q \in Projectiles \ {p} : shot'[q] = shot[q]
  BY <1>1 DEF ShotRecords
<1>4. name[p] \in DOMAIN shots /\ shots[name[p]] = ViewOf(r, shot[p], name)
  BY <1>2, ShotsOfFacts
<1>5. ViewOf(r, shot'[p], name) = [ViewOf(r, shot[p], name) EXCEPT !.hits = @ \cup {name[e]}]
  <2>1. {name[x] : x \in shot'[p].hits} = {name[x] : x \in shot[p].hits} \cup {name[e]}
    BY <1>3
  <2> DEFINE was == {name[x] : x \in shot[p].hits}
  <2>2. ViewOf(r, shot[p], name) = [room |-> r, target |-> name[shot[p].target],
                                    owner |-> name[shot[p].owner], hits |-> was]
    BY DEF ViewOf
  <2>3. ViewOf(r, shot'[p], name) = [room |-> r, target |-> name[shot[p].target],
                                     owner |-> name[shot[p].owner], hits |-> was \cup {name[e]}]
    BY <1>3, <2>1 DEF ViewOf
  <2> HIDE DEF was
  <2>4. QED
    BY <2>2, <2>3
<1>6. \A n : n \in DOMAIN shots2 <=> n \in DOMAIN shots
  <2>1. \A n : n \in DOMAIN shots2 <=> \E q \in Rooms : \E x \in held'[q] \cap Projectiles : n = name'[x]
    BY <1>2, ShotsOfFacts
  <2>2. \A n : n \in DOMAIN shots <=> \E q \in Rooms : \E x \in held[q] \cap Projectiles : n = name[x]
    BY <1>2, ShotsOfFacts
  <2> HIDE DEF shots, shots2
  <2>3. QED
    BY <2>1, <2>2
<1>7. ASSUME NEW n \in DOMAIN shots PROVE shots2[n] = more[n]
  <2>1. PICK q \in Rooms : \E x \in held[q] \cap Projectiles : n = name[x]
    BY <1>2, ShotsOfFacts
  <2>2. PICK x \in held[q] \cap Projectiles : n = name[x]
    BY <2>1
  <2>3. x \in held'[q] \cap Projectiles
    OBVIOUS
  <2>4. shots2[name'[x]] = ViewOf(q, shot'[x], name')
    BY ONLY <1>2, <2>3, ShotsOfFacts
  <2>5. shots[n] = ViewOf(q, shot[x], name)
    BY <1>2, <2>2, ShotsOfFacts
  <2>6. CASE x = p
    <3>1. q = r /\ n = name[p]
      BY <1>1, <2>2, <2>6 DEF EveryObjectHasOnePlace
    <3> HIDE DEF shots, shots2
    <3>2. more[n] = [shots[n] EXCEPT !.hits = @ \cup {name[e]}]
      BY <3>1
    <3>3. shots2[n] = ViewOf(r, shot'[p], name)
      BY <2>2, <2>4, <2>6, <3>1
    <3>4. QED
      BY <1>4, <1>5, <3>1, <3>2, <3>3
  <2>7. CASE x # p
    <3>1. n # name[p]
      BY <1>2, <2>2, <2>7 DEF Distinct
    <3> HIDE DEF shots, shots2
    <3>2. more[n] = shots[n]
      BY <3>1
    <3>3. shots2[n] = ViewOf(q, shot[x], name)
      BY <1>3, <2>2, <2>4, <2>7
    <3>4. QED
      BY <2>5, <3>2, <3>3
  <2>8. QED
    BY <2>6, <2>7
<1>8. shots2 = [n \in DOMAIN shots2 |-> shots2[n]] /\ shots = [n \in DOMAIN shots |-> shots[n]]
  <2>1. shots2 = [n \in DOMAIN shots2 |-> shots2[n]]
    BY ONLY <1>2, ShotsOfFacts
  <2>2. shots = [n \in DOMAIN shots |-> shots[n]]
    BY <1>2, ShotsOfFacts
  <2> HIDE DEF shots, shots2
  <2>3. QED
    BY <2>1, <2>2
<1>9. shots2 = more
  <2> HIDE DEF shots, shots2
  <2>1. DOMAIN shots2 = DOMAIN shots
    BY <1>6
  <2>2. more = [n \in DOMAIN shots |-> more[n]]
    BY <1>8
  <2> HIDE DEF more
  <2>3. QED
    BY <1>7, <1>8, <2>1, <2>2
<1>10. name[e] \in Things[r] \ shots[name[p]].hits
  <2>1. e \in held[r] \ Projectiles
    BY PoolAssumption
  <2>2. shots[name[p]].hits = {name[x] : x \in shot[p].hits}
    BY <1>4 DEF ViewOf
  <2>3. e \in made /\ e \notin shot[p].hits
    BY <1>1
  <2> HIDE DEF shots
  <2>4. QED
    BY <1>1, <2>1, <2>2, <2>3 DEF Things
<1>11. shots[name[p]].room = r
  BY <1>4 DEF ViewOf
<1>12. ThingsOf(held', name') = ThingsOf(held, name)
  BY DEF ThingsOf
<1> HIDE DEF shots, shots2
<1>13. shots = Shots /\ shots2 = Shots' /\ Things' = Things
  BY <1>12, ArenaStates DEF shots, shots2
<1>14. AsArena!Hit(name[p], name[e])
  BY <1>9, <1>10, <1>11, <1>13 DEF AsArena!Hit
<1>15. name[p] \in DOMAIN Shots /\ name[e] \in Things[Shots[name[p]].room]
  BY <1>4, <1>10, <1>11, <1>13
<1>16. QED
  BY <1>14, <1>15 DEF AsArena!Next

LEMMA InitIsInit == Init => AsArena!Init
<1> SUFFICES ASSUME Init PROVE AsArena!Init
  OBVIOUS
<1>1. \A r \in Rooms : held[r] = {}
  BY DEF Init
<1>2. Things = [r \in Rooms |-> {}]
  BY <1>1 DEF Things
<1>3. Shots = [n \in {} |-> {}]
  <2>1. InFlight = {}
    BY <1>1 DEF InFlight
  <2>2. QED
    BY <2>1 DEF Shots
<1>4. QED
  BY <1>2, <1>3 DEF Init, AsArena!Init

\* A projectile that flies on or hits stays a projectile of its room; Reset meets
\* one that no room holds.
LEMMA StepIsArena == ArenaInv /\ ArenaInv' /\ [Next]_vars => ArenaStep
<1> SUFFICES ASSUME ArenaInv, ArenaInv', [Next]_vars PROVE ArenaStep
  OBVIOUS
<1>0. /\ shot \in [Projectiles -> ShotRecords] /\ held \in [Rooms -> SUBSET Objects]
      /\ EveryObjectHasOnePlace /\ HeldAreActive /\ ReturningIsKept
  BY DEF ArenaInv, Inv, Types
<1>1. ASSUME UNCHANGED <<held, shot, name, next>> PROVE ArenaStep
  BY <1>1, NothingIsSeen DEF ArenaStep
<1>2. ASSUME NEW r \in Rooms, NEW m \in Minions, SpawnMinion(r, m) PROVE ArenaStep
  BY <1>2, SpawnIsSpawn DEF SpawnMinion, ArenaStep, AsArena!Next
<1>3. ASSUME NEW r \in Rooms, NEW e \in Enemies, SpawnEnemy(r, e) PROVE ArenaStep
  BY <1>3, SpawnIsSpawn DEF SpawnEnemy, ArenaStep, AsArena!Next
<1>4. ASSUME NEW r \in Rooms, NEW m \in Minions, SellMinion(r, m) PROVE ArenaStep
  <2>1. {m} \in SUBSET (held[r] \ Projectiles)
    BY <1>4, PoolAssumption DEF SellMinion
  <2>2. held' = [held EXCEPT ![r] = @ \ {m}] /\ UNCHANGED <<shot, name, next>>
    BY <1>4 DEF SellMinion
  <2>3. QED
    BY <2>1, <2>2, RemoveIsRemove DEF ArenaStep
<1>5. ASSUME NEW r \in Rooms, NEW S \in SUBSET (held[r] \cap Enemies), RemoveEnemies(r, S)
      PROVE  ArenaStep
  <2>1. S \in SUBSET (held[r] \ Projectiles)
    BY PoolAssumption
  <2>2. held' = [held EXCEPT ![r] = @ \ S] /\ UNCHANGED <<shot, name, next>>
    BY <1>5 DEF RemoveEnemies
  <2>3. QED
    BY <2>1, <2>2, RemoveIsRemove DEF ArenaStep
<1>6. ASSUME NEW r \in Rooms, LastLeaves(r) PROVE ArenaStep
  BY <1>6, CloseIsClose DEF LastLeaves, ArenaStep
<1>7. ASSUME NEW r \in Rooms, Cleanup(r) PROVE ArenaStep
  <2>1. CASE ResetStageState(r)
    BY <1>7, <2>1, CloseIsClose DEF Cleanup, ArenaStep
  <2>2. CASE UNCHANGED <<poolVars, held>>
    BY <1>1, <1>7, <2>2 DEF Cleanup
  <2>3. QED
    BY <1>7, <2>1, <2>2 DEF Cleanup
<1>8. ASSUME NEW r \in Rooms, NEW p \in Projectiles, NEW e \in Enemies, NEW m \in Minions,
             NEW flight \in Flights, SpawnProjectile(r, p, e, m, flight)
      PROVE  ArenaStep
  BY <1>8, FireIsFire DEF ArenaStep, AsArena!Next
<1>9. ASSUME NEW r \in Rooms, NEW p \in Projectiles, FlyOn(r, p) PROVE ArenaStep
  <2>1. held' = held
    <3>1. CASE p \in held[r]
      BY <1>0, <1>9, <3>1 DEF FlyOn, HeldAreActive
    <3>2. CASE p \notin held[r]
      BY <1>0, <1>9, <3>2 DEF FlyOn
    <3>3. QED
      BY <3>1, <3>2
  <2>2. QED
    BY <1>1, <1>9, <2>1 DEF FlyOn
<1>10. ASSUME NEW r \in Rooms, NEW p \in Projectiles, Expire(r, p) PROVE ArenaStep
  <2>1. p \in held[r] \cap Projectiles /\ ReturnToPool(r, p, shot[p]) /\ UNCHANGED <<name, next>>
    BY <1>10 DEF Expire
  <2>2. QED
    BY <2>1, EndIsEnd DEF ArenaStep
<1>11. ASSUME NEW r \in Rooms, NEW p \in Projectiles, NEW e \in Enemies, Hit(r, p, e)
       PROVE  ArenaStep
  <2> DEFINE s == [shot[p] EXCEPT !.hits = @ \cup {e}]
             ends == ~s.pierce \/ (s.chase /\ e = s.target)
  <2>1. /\ p \in held[r] \cap Projectiles /\ e \in (held[r] \cap Enemies) \ shot[p].hits
        /\ UNCHANGED <<name, next>>
        /\ IF ends THEN ReturnToPool(r, p, s)
                   ELSE shot' = [shot EXCEPT ![p] = s] /\ UNCHANGED <<poolVars, held, returning, pc>>
    BY <1>11 DEF Hit
  <2>2. CASE ends
    <3> HIDE DEF s, ends
    <3>1. ReturnToPool(r, p, s)
      BY <2>1, <2>2
    <3>2. QED
      BY <2>1, <3>1, EndIsEnd DEF ArenaStep
  <2>3. CASE ~ends
    <3>1. shot' = [shot EXCEPT ![p].hits = @ \cup {e}] /\ held' = held
      BY <2>1, <2>3
    <3>2. QED
      BY <2>1, <3>1, HitIsHit DEF ArenaStep
  <2>4. QED
    BY <2>2, <2>3
<1>12. ASSUME NEW r \in Rooms, Reset(r) PROVE ArenaStep
  <2>1. \A q \in Rooms : returning[r] \notin held[q]
    BY <1>0, <1>12 DEF Reset, ReturningIsKept, EveryObjectHasOnePlace
  <2>2. UNCHANGED <<held, name, next>> /\ \A p \in Projectiles \ {returning[r]} : shot'[p] = shot[p]
    BY <1>0, <1>12 DEF Reset
  <2>3. \A q \in Rooms : \A p \in held[q] \cap Projectiles : shot'[p] = shot[p]
    BY <2>1, <2>2
  <2>4. QED
    BY <2>2, <2>3, NothingIsSeen DEF ArenaStep
<1>13. ASSUME NEW r \in Rooms, MinionsDone(r) \/ ProjectilesDone(r) PROVE ArenaStep
  BY <1>1, <1>13 DEF MinionsDone, ProjectilesDone
<1>14. CASE BeginTick \/ EndTick
  BY <1>1, <1>14 DEF BeginTick, EndTick
<1>15. CASE UNCHANGED vars
  BY <1>1, <1>15 DEF vars
<1>16. QED
  BY <1>2, <1>3, <1>4, <1>5, <1>6, <1>7, <1>8, <1>9, <1>10, <1>11, <1>12, <1>13, <1>14, <1>15
  DEF Next

\* The pools of ObjectPool.h, SpawnManager and the managers implement Arena: reuse
\* of an object is never seen, in whatever order the workers of the rooms take,
\* hit, release and reset.
THEOREM ObjectPoolIsArena == Spec => IsArena
<1>1. Init => AsArena!Init
  BY InitIsInit
<1>2. ArenaInv /\ ArenaInv' /\ [Next]_vars => [AsArena!Next]_(AsArena!vars)
  BY StepIsArena DEF ArenaStep
<1>3. QED
  BY <1>1, <1>2, ArenaInvAlways, PTL DEF Spec, IsArena, AsArena!Spec

=============================================================================
