---------------------------- MODULE BoardProofs ----------------------------
(***************************************************************************)
(* Theorems about Board.  The tables of a board agree for any number of     *)
(* players, rooms, tiles and minions, whatever clients do; a player who is  *)
(* never in two rooms and names no price that wraps is never in debt,       *)
(* whatever the others do, and all boards together are a Shop.              *)
(***************************************************************************)
EXTENDS Board, TLAPS

(* Partial functions *)

LEMMA WithIsPartial ==
  ASSUME NEW S, NEW T, NEW f \in PartialFunctions(S, T), NEW x \in S, NEW v \in T
  PROVE  With(f, x, v) \in PartialFunctions(S, T)
<1>1. PICK D \in SUBSET S : f \in [D -> T]
  BY DEF PartialFunctions
<1>2. With(f, x, v) \in [D \cup {x} -> T]
  BY <1>1 DEF With
<1> QED
  BY <1>2 DEF PartialFunctions

LEMMA WithoutIsPartial ==
  ASSUME NEW S, NEW T, NEW f \in PartialFunctions(S, T), NEW x
  PROVE  Without(f, x) \in PartialFunctions(S, T)
<1>1. PICK D \in SUBSET S : f \in [D -> T]
  BY DEF PartialFunctions
<1>2. Without(f, x) \in [D \ {x} -> T]
  BY <1>1 DEF Without
<1> QED
  BY <1>2 DEF PartialFunctions

LEMMA EmptyIsPartial ==
  ASSUME NEW S, NEW T PROVE Empty \in PartialFunctions(S, T)
<1>1. Empty \in [{} -> T]
  BY DEF Empty
<1> QED
  BY <1>1 DEF PartialFunctions

LEMMA PartialDomain ==
  ASSUME NEW S, NEW T, NEW f \in PartialFunctions(S, T)
  PROVE  /\ DOMAIN f \subseteq S
         /\ \A x \in DOMAIN f : f[x] \in T
         /\ f = [x \in DOMAIN f |-> f[x]]
  BY DEF PartialFunctions

LEMMA UpdateIsPartial ==
  ASSUME NEW S, NEW T, NEW f \in PartialFunctions(S, T),
         NEW x \in DOMAIN f, NEW v \in T
  PROVE  /\ [f EXCEPT ![x] = v] \in PartialFunctions(S, T)
         /\ DOMAIN [f EXCEPT ![x] = v] = DOMAIN f
         /\ \A y \in DOMAIN f : [f EXCEPT ![x] = v][y] = IF y = x THEN v ELSE f[y]
<1>1. PICK D \in SUBSET S : f \in [D -> T]
  BY DEF PartialFunctions
<1>2. [f EXCEPT ![x] = v] \in [D -> T]
  BY <1>1
<1>3. [f EXCEPT ![x] = v] \in PartialFunctions(S, T)
  BY <1>2 DEF PartialFunctions
<1> QED
  BY <1>1, <1>3

-----------------------------------------------------------------------------
(* Gold is an int *)

LEMMA ToIntIsInt ==
  ASSUME NEW n \in -(2 * IntMax + 2) .. 3 * IntMax + 2
  PROVE  ToInt(n) \in IntRange
  BY BoardAssumption DEF ToInt, IntRange

LEMMA ToIntKeeps ==
  ASSUME NEW n \in 0 .. MaxGold
  PROVE  n \in IntRange /\ ToInt(n) = n
  BY BoardAssumption DEF ToInt, IntRange

\* Player::TryUseGold, and the second half of it without the first.
LEMMA PayKeepsTypes ==
  ASSUME TypeOK, NEW p \in Players, NEW price \in IntRange,
         CanAfford(p, price) \/ price >= 0, Pay(p, price)
  PROVE  /\ gold' \in [Players -> IntRange]
         /\ \A q \in Players \ {p} : gold'[q] = gold[q]
         /\ gold'[p] = ToInt(gold[p] - price)
<1>1. gold \in [Players -> IntRange]
  BY DEF TypeOK
<1>2. ToInt(gold[p] - price) \in IntRange
  <2>1. PICK g \in IntRange : g = gold[p]
    BY <1>1
  <2>2. g >= price \/ price >= 0
    BY <2>1 DEF CanAfford
  <2>3. g - price \in -(2 * IntMax + 2) .. 3 * IntMax + 2
    BY ONLY <2>2, BoardAssumption DEF IntRange
  <2> QED
    BY ONLY <2>1, <2>3, ToIntIsInt
<1> QED
  BY <1>1, <1>2 DEF Pay

\* The prices of UseGold are ints once they are converted.
LEMMA UsesAreInts == \A price \in Uses : ToInt(price) \in IntRange
<1> SUFFICES ASSUME NEW price \in UIntRange PROVE ToInt(price) \in IntRange
  BY BoardAssumption
<1>1. price \in -(2 * IntMax + 2) .. 3 * IntMax + 2
  BY BoardAssumption DEF UIntRange
<1> QED
  BY <1>1, ToIntIsInt

\* Player::AddGold.
LEMMA EarningIsInt ==
  ASSUME TypeOK, NEW p \in Players, NEW amount \in 0 .. IntMax
  PROVE  AfterEarning(p, amount) \in IntRange
<1>1. PICK g \in IntRange : g = gold[p]
  BY DEF TypeOK
<1>2. g + amount \in -(2 * IntMax + 2) .. 3 * IntMax + 2
  BY ONLY BoardAssumption DEF IntRange
<1> QED
  BY ONLY <1>1, <1>2, ToIntIsInt DEF AfterEarning

-----------------------------------------------------------------------------
(* Tiles and positions *)

LEMMA PositionRoundTrip ==
  ASSUME NEW t \in Int
  PROVE  ToPosition(t) \in Int /\ ToTile(ToPosition(t)) = t
  BY DEF ToPosition, ToTile

LEMMA MirrorEmpty == Mirror(Empty, Empty)
  BY DEF Mirror, Empty

\* SpawnMinion
LEMMA MirrorAdd ==
  ASSUME NEW o, NEW m, Mirror(o, m), NEW i, i \notin DOMAIN m,
         NEW t, t \notin DOMAIN o, NEW minion, ToTile(minion.position) = t
  PROVE  Mirror(With(o, t, i), With(m, i, minion))
  BY DEF Mirror, With

\* ReturnMinion
LEMMA MirrorRemove ==
  ASSUME NEW o, NEW m, Mirror(o, m), NEW i \in DOMAIN m
  PROVE  Mirror(Without(o, ToTile(m[i].position)), Without(m, i))
  BY DEF Mirror, Without

\* RelocateMinion
LEMMA MirrorMove ==
  ASSUME NEW o, NEW m, NEW n, Mirror(o, m), NEW i \in DOMAIN m,
         NEW t, t \notin DOMAIN o,
         DOMAIN n = DOMAIN m, \A j \in DOMAIN m \ {i} : n[j] = m[j],
         ToTile(n[i].position) = t
  PROVE  Mirror(With(Without(o, ToTile(m[i].position)), t, i), n)
  BY DEF Mirror, With, Without

\* An upgrade moves nothing.
LEMMA MirrorKeep ==
  ASSUME NEW o, NEW m, NEW n, Mirror(o, m),
         DOMAIN n = DOMAIN m, \A j \in DOMAIN m : n[j].position = m[j].position
  PROVE  Mirror(o, n)
  BY DEF Mirror

-----------------------------------------------------------------------------
(* The invariant.  PayInv says what stays true between the comparison and   *)
(* the subtraction of TryUseGold: only the worker of a room changes its     *)
(* minions while it is updated.                                             *)

IdsAreFresh == \A r \in Rooms : \A i \in DOMAIN minions[r] : i < nextId[r]

Payable(r) ==
  /\ batch[r] # <<>>
  /\ Owns(Head(batch[r]).by, r, Head(batch[r]).id)
  /\ minions[r][Head(batch[r]).id].level < MaxLevel

PayInv == \A r \in Rooms : pc[r] = "pay" => Payable(r)

Inv == TypeOK /\ TilesMirrorMinions /\ IdsAreFresh /\ PayInv

LEMMA InitInv == Init => Inv
<1> SUFFICES ASSUME Init PROVE Inv
  OBVIOUS
<1> USE BoardAssumption DEF Init
<1>1. TypeOK
  <2>1. nextId \in [Rooms -> 1 .. MaxMinions + 1]
    OBVIOUS
  <2>2. /\ occupied \in [Rooms -> PartialFunctions(Tiles, Ids)]
        /\ minions \in [Rooms -> PartialFunctions(Ids, MinionRecord)]
    BY EmptyIsPartial
  <2>3. /\ queue \in [Rooms -> Seq(Command)]
        /\ batch \in [Rooms -> Seq(Command)]
    OBVIOUS
  <2>4. gold \in [Players -> IntRange]
    BY ToIntKeeps
  <2> QED
    BY <2>1, <2>2, <2>3, <2>4 DEF TypeOK
<1>2. TilesMirrorMinions
  BY MirrorEmpty DEF TilesMirrorMinions
<1>3. IdsAreFresh /\ PayInv
  BY DEF IdsAreFresh, PayInv, Empty
<1> QED
  BY <1>1, <1>2, <1>3 DEF Inv

\* While handlers run no upgrade is being paid for.
LEMMA NobodyPays == Polling => PayInv
  BY DEF Polling, PayInv

\* The type invariant, room by room.
LEMMA RoomTypes ==
  ASSUME TypeOK, NEW r \in Rooms
  PROVE  /\ occupied[r] \in PartialFunctions(Tiles, Ids)
         /\ minions[r] \in PartialFunctions(Ids, MinionRecord)
         /\ DOMAIN occupied[r] \subseteq Tiles
         /\ DOMAIN minions[r] \subseteq Ids
         /\ \A i \in DOMAIN minions[r] : minions[r][i] \in MinionRecord
         /\ nextId[r] \in 1 .. MaxMinions + 1
         /\ queue[r] \in Seq(Command)
         /\ batch[r] \in Seq(Command)
<1>1. /\ occupied[r] \in PartialFunctions(Tiles, Ids)
      /\ minions[r] \in PartialFunctions(Ids, MinionRecord)
      /\ nextId[r] \in 1 .. MaxMinions + 1
      /\ queue[r] \in Seq(Command)
      /\ batch[r] \in Seq(Command)
  BY DEF TypeOK
<1> QED
  BY <1>1, PartialDomain

\* A room that is reset: Leave and the end of a stage.
LEMMA ResetKeepsBoard ==
  ASSUME Inv, NEW r \in Rooms, ResetStageState(r)
  PROVE  /\ gameState' \in [Rooms -> {"WaitingForPlayers", "Intermission", "Wave"}]
         /\ occupied' \in [Rooms -> PartialFunctions(Tiles, Ids)]
         /\ minions' \in [Rooms -> PartialFunctions(Ids, MinionRecord)]
         /\ TilesMirrorMinions'
         /\ IdsAreFresh'
         /\ nextId' = nextId
         /\ \A s \in Rooms \ {r} : minions'[s] = minions[s]
<1> USE DEF Inv, ResetStageState, ClearMinions
<1>1. /\ occupied' \in [Rooms -> PartialFunctions(Tiles, Ids)]
      /\ minions' \in [Rooms -> PartialFunctions(Ids, MinionRecord)]
      /\ gameState' \in [Rooms -> {"WaitingForPlayers", "Intermission", "Wave"}]
  BY EmptyIsPartial DEF TypeOK
<1>2. /\ occupied'[r] = Empty
      /\ minions'[r] = Empty
      /\ \A s \in Rooms \ {r} : minions'[s] = minions[s] /\ occupied'[s] = occupied[s]
  BY DEF TypeOK
<1>3. TilesMirrorMinions'
  BY <1>2, MirrorEmpty DEF TilesMirrorMinions
<1>4. IdsAreFresh'
  BY <1>2 DEF IdsAreFresh, Empty
<1> QED
  BY <1>1, <1>2, <1>3, <1>4

-----------------------------------------------------------------------------
(* The handlers keep the invariant *)

LEMMA JoinInv ==
  ASSUME Inv, NEW p \in Players, NEW r \in Rooms, Join(p, r)
  PROVE  Inv'
<1> USE DEF Inv, Join, boardVars
<1>1. TypeOK'
  BY DEF TypeOK
<1>2. (TilesMirrorMinions /\ IdsAreFresh)'
  BY DEF TilesMirrorMinions, IdsAreFresh
<1>3. PayInv'
  BY NobodyPays DEF PayInv, Polling
<1> QED
  BY <1>1, <1>2, <1>3

LEMMA LeaveInv ==
  ASSUME Inv, NEW p \in Players, Leave(p)
  PROVE  Inv'
<1> USE DEF Inv, Leave
<1>1. PayInv'
  BY DEF PayInv, Polling
<1>2. CASE room[p] \in Rooms /\ members'[room[p]] = {}
  <2>1. ResetStageState(room[p])
    BY <1>2
  <2>2. TypeOK'
    BY <1>2, <2>1, ResetKeepsBoard DEF TypeOK
  <2> QED
    BY <1>1, <1>2, <2>1, <2>2, ResetKeepsBoard
<1>3. CASE ~(room[p] \in Rooms /\ members'[room[p]] = {})
  <2>1. UNCHANGED <<gameState, boardVars>>
    BY <1>3
  <2>2. members' \in [Rooms -> SUBSET Players] /\ room' \in [Players -> Rooms \cup {NoRoom}]
    <3>1. CASE room[p] \in Rooms
      <4>1. /\ members' = [members EXCEPT ![room[p]] = @ \ {p}]
            /\ room' = [room EXCEPT ![p] = NoRoom]
        BY <3>1
      <4> QED
        BY ONLY <4>1, <3>1, TypeOK DEF TypeOK
    <3>2. CASE room[p] \notin Rooms
      BY <3>2 DEF TypeOK
    <3> QED
      BY <3>1, <3>2
  <2>3. TypeOK'
    BY <2>1, <2>2 DEF TypeOK, boardVars
  <2>4. (TilesMirrorMinions /\ IdsAreFresh)'
    BY <2>1 DEF TilesMirrorMinions, IdsAreFresh, boardVars
  <2> QED
    BY <1>1, <2>3, <2>4
<1> QED
  BY <1>2, <1>3

LEMMA SpawnMinionInv ==
  ASSUME Inv, NEW p \in Players, NEW r \in Rooms, NEW t \in Tiles, SpawnMinion(p, r, t)
  PROVE  Inv'
<1> DEFINE i == nextId[r]
<1> USE DEF Inv, SpawnMinion, AddMinion, playerVars
<1>1. /\ i \in Ids /\ i + 1 \in 1 .. MaxMinions + 1
      /\ NewMinion(p, t) \in MinionRecord
      /\ ToTile(NewMinion(p, t).position) = t
  <2>1. t \in Int
    BY BoardAssumption
  <2> QED
    BY <2>1, BoardAssumption, PositionRoundTrip DEF Ids, NewMinion, MinionRecord
<1>2. /\ occupied' = [occupied EXCEPT ![r] = With(occupied[r], t, i)]
      /\ minions' = [minions EXCEPT ![r] = With(minions[r], i, NewMinion(p, t))]
      /\ nextId' = [nextId EXCEPT ![r] = i + 1]
  OBVIOUS
<1>3. /\ With(occupied[r], t, i) \in PartialFunctions(Tiles, Ids)
      /\ With(minions[r], i, NewMinion(p, t)) \in PartialFunctions(Ids, MinionRecord)
  BY <1>1, RoomTypes, WithIsPartial
<1>4. TypeOK'
  <2>1. Cost \in IntRange
    BY BoardAssumption DEF IntRange
  <2>2. gold' \in [Players -> IntRange]
    BY <2>1, PayKeepsTypes
  <2> QED
    BY <1>1, <1>2, <1>3, <2>2, BoardAssumption DEF TypeOK
<1>5. i \notin DOMAIN minions[r]
  BY <1>1 DEF IdsAreFresh, Ids
<1>6. TilesMirrorMinions'
  <2>1. Mirror(With(occupied[r], t, i), With(minions[r], i, NewMinion(p, t)))
    BY <1>1, <1>5, MirrorAdd DEF TilesMirrorMinions
  <2> QED
    BY <1>2, <2>1 DEF TilesMirrorMinions, TypeOK
<1>7. IdsAreFresh'
  <2> SUFFICES ASSUME NEW s \in Rooms, NEW j \in DOMAIN minions'[s]
               PROVE  j < nextId'[s]
    BY DEF IdsAreFresh
  <2>1. CASE s = r
    <3>1. j \in DOMAIN minions[r] \cup {i} /\ nextId'[s] = i + 1
      BY <1>2, <2>1 DEF With, TypeOK
    <3>2. i \in Int /\ DOMAIN minions[r] \subseteq Int
      BY <1>1, RoomTypes DEF Ids
    <3> QED
      BY <3>1, <3>2 DEF IdsAreFresh
  <2>2. CASE s # r
    BY <1>2, <2>2 DEF IdsAreFresh, TypeOK
  <2> QED
    BY <2>1, <2>2
<1>8. PayInv'
  BY DEF PayInv, InRoom, Polling
<1> QED
  BY <1>4, <1>6, <1>7, <1>8

LEMMA SellInv ==
  ASSUME Inv, NEW p \in Players, NEW r \in Rooms, NEW i \in Ids, Sell(p, r, i)
  PROVE  Inv'
<1> DEFINE o == Without(occupied[r], ToTile(minions[r][i].position))
           m == Without(minions[r], i)
<1> USE DEF Inv, Sell, ReturnMinion, RemoveMinion, playerVars
<1>1. /\ occupied' = [occupied EXCEPT ![r] = o]
      /\ minions' = [minions EXCEPT ![r] = m]
      /\ i \in DOMAIN minions[r]
  BY DEF Owns
<1>2. /\ o \in PartialFunctions(Tiles, Ids)
      /\ m \in PartialFunctions(Ids, MinionRecord)
  BY RoomTypes, WithoutIsPartial
<1>3. TypeOK'
  <2>1. AfterEarning(p, Cost) \in IntRange
    BY EarningIsInt, BoardAssumption
  <2> QED
    BY <1>1, <1>2, <2>1 DEF TypeOK
<1>4. TilesMirrorMinions'
  <2>1. Mirror(o, m)
    BY <1>1, MirrorRemove DEF TilesMirrorMinions
  <2> QED
    BY <1>1, <2>1 DEF TilesMirrorMinions, TypeOK
<1>5. IdsAreFresh'
  BY <1>1 DEF IdsAreFresh, TypeOK, Without
<1>6. PayInv'
  BY DEF PayInv, InRoom, Polling
<1> QED
  BY <1>3, <1>4, <1>5, <1>6

LEMMA RelocateInv ==
  ASSUME Inv, NEW p \in Players, NEW r \in Rooms, NEW i \in Ids, NEW t \in Tiles,
         RelocateMinion(p, r, i, t)
  PROVE  Inv'
<1> DEFINE old == minions[r][i]
           moved == [old EXCEPT !.position = ToPosition(t)]
           o == With(Without(occupied[r], ToTile(old.position)), t, i)
           m == [minions[r] EXCEPT ![i] = moved]
<1> USE DEF Inv, RelocateMinion, playerVars
<1>1. /\ occupied' = [occupied EXCEPT ![r] = o]
      /\ minions' = [minions EXCEPT ![r] = m]
      /\ i \in DOMAIN minions[r]
  BY DEF Owns
<1>2. old \in MinionRecord /\ moved \in MinionRecord /\ moved.position = ToPosition(t)
  <2>1. old \in MinionRecord
    BY <1>1, RoomTypes
  <2> QED
    BY <2>1 DEF MinionRecord
<1>3. /\ m \in PartialFunctions(Ids, MinionRecord)
      /\ DOMAIN m = DOMAIN minions[r]
      /\ \A j \in DOMAIN minions[r] : m[j] = IF j = i THEN moved ELSE minions[r][j]
  BY <1>1, <1>2, RoomTypes, UpdateIsPartial
<1>4. o \in PartialFunctions(Tiles, Ids)
  <2>1. Without(occupied[r], ToTile(old.position)) \in PartialFunctions(Tiles, Ids)
    BY RoomTypes, WithoutIsPartial
  <2> QED
    BY <2>1, WithIsPartial
<1>5. TypeOK'
  BY <1>1, <1>3, <1>4 DEF TypeOK
<1>6. TilesMirrorMinions'
  <2>1. ToTile(m[i].position) = t
    BY <1>1, <1>2, <1>3, PositionRoundTrip, BoardAssumption
  <2>2. \A j \in DOMAIN minions[r] \ {i} : m[j] = minions[r][j]
    BY <1>3
  <2>3. Mirror(occupied[r], minions[r]) /\ t \notin DOMAIN occupied[r]
    BY DEF TilesMirrorMinions
  <2>4. Mirror(o, m)
    BY ONLY <1>1, <1>3, <2>1, <2>2, <2>3, MirrorMove
  <2> QED
    BY <1>1, <2>4 DEF TilesMirrorMinions, TypeOK
<1>7. IdsAreFresh'
  BY <1>1, <1>3 DEF IdsAreFresh, TypeOK
<1>8. PayInv'
  BY DEF PayInv, InRoom, Polling
<1> QED
  BY <1>5, <1>6, <1>7, <1>8

\* StartWave, UseGold and AskUpgrade leave the board as it is.
LEMMA OtherHandlersInv ==
  ASSUME Inv, NEW r \in Rooms,
         \/ StartWave(r)
         \/ \E p \in Players, price \in Uses : UseGold(p, r, price)
         \/ \E p \in Players, i \in Ids : AskUpgrade(p, r, i)
  PROVE  Inv'
<1> USE DEF Inv, boardVars, playerVars
<1>1. UNCHANGED <<boardVars, batch, pc>> /\ Polling
  BY DEF StartWave, UseGold, AskUpgrade, InRoom
<1>2. gold' \in [Players -> IntRange]
  <2>1. ASSUME NEW p \in Players, NEW price \in Uses, UseGold(p, r, price)
        PROVE  gold' \in [Players -> IntRange]
    <3>1. ToInt(price) \in IntRange
      BY UsesAreInts
    <3> QED
      BY <2>1, <3>1, PayKeepsTypes DEF UseGold
  <2> QED
    BY <2>1 DEF StartWave, AskUpgrade, TypeOK
<1>3. queue' \in [Rooms -> Seq(Command)]
  <2>1. ASSUME NEW p \in Players, NEW i \in Ids, AskUpgrade(p, r, i)
        PROVE  queue' \in [Rooms -> Seq(Command)]
    <3>1. [by |-> p, id |-> i] \in Command /\ queue[r] \in Seq(Command)
      BY RoomTypes DEF Command
    <3>2. Append(queue[r], [by |-> p, id |-> i]) \in Seq(Command)
      BY <3>1
    <3> QED
      BY <2>1, <3>2 DEF AskUpgrade, TypeOK
  <2> QED
    BY <2>1 DEF StartWave, UseGold, TypeOK
<1>4. TypeOK'
  BY <1>1, <1>2, <1>3 DEF StartWave, UseGold, AskUpgrade, TypeOK
<1>5. (TilesMirrorMinions /\ IdsAreFresh)'
  BY <1>1 DEF TilesMirrorMinions, IdsAreFresh
<1>6. PayInv'
  BY <1>1 DEF PayInv, Polling
<1> QED
  BY <1>4, <1>5, <1>6

-----------------------------------------------------------------------------
(* Updates keep the invariant *)

LEMMA CheckCommandInv ==
  ASSUME Inv, NEW r \in Rooms, CheckCommand(r)
  PROVE  Inv'
<1> USE DEF Inv, CheckCommand, boardVars, playerVars
<1>1. TypeOK'
  <2>1. batch[r] \in Seq(Command) /\ batch[r] # <<>>
    BY RoomTypes
  <2>2. Tail(batch[r]) \in Seq(Command)
    BY <2>1
  <2>3. batch' \in [Rooms -> Seq(Command)]
    BY <2>2 DEF TypeOK
  <2> QED
    BY <2>3 DEF TypeOK
<1>2. (TilesMirrorMinions /\ IdsAreFresh)'
  BY DEF TilesMirrorMinions, IdsAreFresh
<1>3. PayInv'
  <2> SUFFICES ASSUME NEW s \in Rooms, pc'[s] = "pay"
               PROVE  Payable(s)'
    BY DEF PayInv
  <2>1. CASE s = r
    BY <2>1 DEF TypeOK, MayUpgrade, Owns, Payable
  <2>2. CASE s # r
    BY <2>2 DEF TypeOK, PayInv, Payable, Owns
  <2> QED
    BY <2>1, <2>2
<1> QED
  BY <1>1, <1>2, <1>3

LEMMA PayCommandInv ==
  ASSUME Inv, NEW r \in Rooms, PayCommand(r)
  PROVE  Inv'
<1> DEFINE c == Head(batch[r])
           old == minions[r][c.id]
           better == [old EXCEPT !.level = old.level + 1]
           m == [minions[r] EXCEPT ![c.id] = better]
<1> USE DEF Inv, PayCommand, playerVars
<1>1. /\ batch[r] \in Seq(Command) /\ batch[r] # <<>>
      /\ c.id \in DOMAIN minions[r] /\ old.level < MaxLevel
  BY RoomTypes DEF PayInv, Payable, Owns
<1>2. c \in Command /\ Tail(batch[r]) \in Seq(Command)
  BY <1>1
<1>3. minions' = [minions EXCEPT ![r] = m]
  OBVIOUS
<1>4. better \in MinionRecord /\ better.position = old.position
  <2>1. old \in MinionRecord
    BY <1>1, RoomTypes
  <2>2. old.level + 1 \in 0 .. MaxLevel
    <3>1. old.level \in 0 .. MaxLevel /\ old.level < MaxLevel /\ MaxLevel \in Nat
      BY <1>1, <2>1, BoardAssumption DEF MinionRecord
    <3> QED
      BY ONLY <3>1
  <2> QED
    BY <2>1, <2>2 DEF MinionRecord
<1>5. /\ m \in PartialFunctions(Ids, MinionRecord)
      /\ DOMAIN m = DOMAIN minions[r]
      /\ \A j \in DOMAIN minions[r] : m[j] = IF j = c.id THEN better ELSE minions[r][j]
  <2>1. minions[r] \in PartialFunctions(Ids, MinionRecord)
    BY RoomTypes
  <2> QED
    BY ONLY <1>1, <1>4, <2>1, UpdateIsPartial
<1>6. TypeOK'
  <2>1. gold' \in [Players -> IntRange]
    <3>1. c.by \in Players /\ Price \in IntRange /\ Price >= 0
      BY <1>2, BoardAssumption DEF Command, IntRange
    <3>2. TypeOK /\ Pay(c.by, Price)
      OBVIOUS
    <3> QED
      BY ONLY <3>1, <3>2, PayKeepsTypes
  <2>2. batch' \in [Rooms -> Seq(Command)]
    BY <1>2 DEF TypeOK
  <2> QED
    BY <1>3, <1>5, <2>1, <2>2 DEF TypeOK
<1>7. TilesMirrorMinions'
  <2>1. Mirror(occupied[r], m)
    <3>1. Mirror(occupied[r], minions[r])
      BY DEF TilesMirrorMinions
    <3>2. \A j \in DOMAIN minions[r] : m[j].position = minions[r][j].position
      BY ONLY <1>4, <1>5
    <3> QED
      BY ONLY <1>5, <3>1, <3>2, MirrorKeep
  <2> QED
    BY <1>3, <2>1 DEF TilesMirrorMinions, TypeOK
<1>8. IdsAreFresh'
  BY <1>3, <1>5 DEF IdsAreFresh, TypeOK
<1>9. PayInv'
  <2> SUFFICES ASSUME NEW s \in Rooms, pc'[s] = "pay"
               PROVE  Payable(s)'
    BY DEF PayInv
  <2>1. s # r /\ pc[s] = "pay" /\ batch'[s] = batch[s]
    BY DEF TypeOK
  <2>2. minions'[s] = minions[s]
    BY <1>3, <2>1 DEF TypeOK
  <2> QED
    BY <2>1, <2>2 DEF PayInv, Payable, Owns
<1> QED
  BY <1>6, <1>7, <1>8, <1>9

LEMMA PayRewardInv ==
  ASSUME Inv, NEW r \in Rooms, PayReward(r)
  PROVE  Inv'
<1> USE DEF Inv, PayReward, boardVars, playerVars
<1>1. gold' \in [Players -> IntRange]
  <2>1. \A p \in Players : AfterEarning(p, Reward) \in IntRange
    BY EarningIsInt, BoardAssumption
  <2> QED
    BY <2>1 DEF TypeOK
<1>2. TypeOK'
  BY <1>1 DEF TypeOK
<1> QED
  BY <1>2 DEF TilesMirrorMinions, IdsAreFresh, PayInv, Payable, Owns

LEMMA FinishUpdateInv ==
  ASSUME Inv, NEW r \in Rooms, FinishUpdate(r)
  PROVE  Inv'
<1> USE DEF Inv, FinishUpdate, playerVars
<1>1. pc' \in [Rooms -> {"idle", "start", "commands", "pay", "play", "done"}]
  BY DEF TypeOK
<1>2. \A s \in Rooms : pc'[s] = "pay" => s # r /\ pc[s] = "pay"
  BY DEF TypeOK
<1>3. CASE ResetStageState(r)
  <2>1. TypeOK'
    BY <1>1, <1>3, ResetKeepsBoard DEF TypeOK
  <2>2. \A s \in Rooms \ {r} : minions'[s] = minions[s]
    BY <1>3, ResetKeepsBoard
  <2>3. PayInv'
    BY <1>2, <2>2 DEF PayInv, Payable, Owns
  <2> QED
    BY <1>3, <2>1, <2>3, ResetKeepsBoard
<1>4. CASE ~ResetStageState(r)
  <2>1. UNCHANGED boardVars
    BY <1>4
  <2>2. TypeOK'
    BY <1>1, <1>4, <2>1 DEF TypeOK, boardVars
  <2> QED
    BY <1>2, <2>1, <2>2 DEF TilesMirrorMinions, IdsAreFresh, PayInv, Payable, Owns, boardVars
<1> QED
  BY <1>3, <1>4

\* The steps of an update, and of a tick, that leave the board as it is.
LEMMA OtherUpdatesInv ==
  ASSUME Inv,
         BeginTick \/ EndTick \/ (\E r \in Rooms : TakeCommands(r) \/ CommandsDone(r))
  PROVE  Inv'
<1> USE DEF Inv, boardVars, playerVars
<1>1. TypeOK'
  <2>1. ASSUME NEW r \in Rooms, TakeCommands(r)
        PROVE  TypeOK'
    BY <2>1 DEF TakeCommands, TypeOK
  <2>2. ASSUME NEW r \in Rooms, CommandsDone(r)
        PROVE  TypeOK'
    BY <2>2 DEF CommandsDone, TypeOK
  <2> QED
    BY <2>1, <2>2 DEF BeginTick, EndTick, TypeOK
<1>2. (TilesMirrorMinions /\ IdsAreFresh)'
  BY DEF BeginTick, EndTick, TakeCommands, CommandsDone, TilesMirrorMinions, IdsAreFresh
<1>3. PayInv'
  <2> SUFFICES ASSUME NEW s \in Rooms, pc'[s] = "pay"
               PROVE  pc[s] = "pay" /\ batch'[s] = batch[s] /\ minions' = minions
    BY DEF PayInv, Payable, Owns
  <2> QED
    BY DEF BeginTick, EndTick, TakeCommands, CommandsDone, TypeOK
<1> QED
  BY <1>1, <1>2, <1>3

LEMMA NextInv == Inv /\ [Next]_vars => Inv'
<1> SUFFICES ASSUME Inv, [Next]_vars PROVE Inv'
  OBVIOUS
<1>1. ASSUME NEW p \in Players, Leave(p) PROVE Inv'
  BY <1>1, LeaveInv
<1>2. ASSUME NEW p \in Players, NEW r \in Rooms,
             \/ Join(p, r)
             \/ \E t \in Tiles : SpawnMinion(p, r, t)
             \/ \E i \in Ids : Sell(p, r, i) \/ AskUpgrade(p, r, i)
             \/ \E i \in Ids, t \in Tiles : RelocateMinion(p, r, i, t)
             \/ \E price \in Uses : UseGold(p, r, price)
      PROVE  Inv'
  BY <1>2, JoinInv, SpawnMinionInv, SellInv, RelocateInv, OtherHandlersInv
<1>3. ASSUME NEW r \in Rooms, StartWave(r) \/ Update(r) \/ PayReward(r)
      PROVE  Inv'
  BY <1>3, OtherHandlersInv, CheckCommandInv, PayCommandInv, PayRewardInv,
     FinishUpdateInv, OtherUpdatesInv
     DEF Update
<1>4. CASE BeginTick \/ EndTick
  BY <1>4, OtherUpdatesInv
<1>5. CASE UNCHANGED vars
  BY <1>5 DEF Inv, vars, playerVars, boardVars, TypeOK, TilesMirrorMinions,
              IdsAreFresh, PayInv, Payable, Owns
<1> QED
  BY <1>1, <1>2, <1>3, <1>4, <1>5 DEF Next

THEOREM BoardInv == Spec => []Inv
  BY InitInv, NextInv, PTL DEF Spec

\* Types, and no upgrade passes the maximum of its slot although the level is
\* compared in one step and raised in another.
THEOREM BoardTypes == Spec => []TypeOK
  BY BoardInv, PTL DEF Inv

\* Tiles and minions agree on boards of every size, through every sale, move,
\* departure and end of a stage.
THEOREM BoardTiles == Spec => []TilesMirrorMinions
  BY BoardInv, PTL DEF Inv

-----------------------------------------------------------------------------
(* The gold of polite players.  The two steps of an upgrade are safe because *)
(* the minions of such a player all stand in one room, so that no other      *)
(* worker takes gold from the owner of the one that is upgraded.             *)

OneRoom ==
  /\ \A p \in online \cap Polite, s \in Rooms, i \in Ids : Owns(p, s, i) => room[p] = s
  /\ \A p \in Polite, r, s \in Rooms, i, j \in Ids :
       Owns(p, r, i) /\ Owns(p, s, j) => r = s

PayerCanPay ==
  \A r \in Rooms : pc[r] = "pay" /\ Head(batch[r]).by \in Polite =>
                     gold[Head(batch[r]).by] >= Price

PoliteGold == \A p \in Polite : gold[p] \in 0 .. MaxGold

GoldInv == OneRoom /\ PayerCanPay /\ PoliteGold

LEMMA InitGold == Init => GoldInv
  BY BoardAssumption DEF Init, GoldInv, OneRoom, PayerCanPay, PoliteGold, Owns, Empty

\* A polite player pays with what he has, and earns what fits: no conversion
\* changes the number.
LEMMA PolitePays ==
  ASSUME Inv, PoliteGold, NEW p \in Players, NEW price \in IntRange, Pay(p, price),
         p \in Polite => price >= 0 /\ gold[p] >= price
  PROVE  /\ PoliteGold'
         /\ p \in Polite => gold'[p] = gold[p] - price
         /\ \A q \in Players \ {p} : gold'[q] = gold[q]
<1>1. \A q \in Players \ {p} : gold'[q] = gold[q]
  BY DEF Pay, Inv, TypeOK
<1>2. ASSUME p \in Polite
      PROVE  gold'[p] = gold[p] - price /\ gold'[p] \in 0 .. MaxGold
  <2>1. PICK g \in 0 .. MaxGold : g = gold[p]
    BY <1>2 DEF PoliteGold
  <2>2. g - price \in 0 .. MaxGold
    BY <1>2, <2>1, BoardAssumption DEF IntRange
  <2>3. gold'[p] = ToInt(g - price)
    BY <2>1 DEF Pay, Inv, TypeOK
  <2> QED
    BY <2>1, <2>2, <2>3, ToIntKeeps
<1>3. PoliteGold'
  BY <1>1, <1>2, BoardAssumption DEF PoliteGold
<1> QED
  BY <1>1, <1>2, <1>3

LEMMA PoliteEarns ==
  ASSUME PoliteGold, NEW p \in Polite, NEW amount \in 0 .. IntMax, MayEarn(p, amount)
  PROVE  /\ AfterEarning(p, amount) = gold[p] + amount
         /\ AfterEarning(p, amount) \in 0 .. MaxGold
<1>1. PICK g \in 0 .. MaxGold : g = gold[p]
  BY DEF PoliteGold
<1>2. g + amount \in 0 .. MaxGold
  BY <1>1, BoardAssumption DEF MayEarn
<1> QED
  BY <1>1, <1>2, ToIntKeeps DEF AfterEarning

\* A step that gives nobody a minion, and moves nobody who has one.
LEMMA OneRoomKept ==
  ASSUME OneRoom, online' \subseteq online, online \subseteq Players, NoRoom \notin Rooms,
         \A p \in online' \cap Polite : room'[p] = room[p] \/ room[p] = NoRoom,
         \A p \in Players, s \in Rooms, i \in Ids : Owns(p, s, i)' => Owns(p, s, i)
  PROVE  OneRoom'
  BY BoardAssumption DEF OneRoom

\* While handlers run nobody is between the two steps of an upgrade.
LEMMA PollingPays == Polling /\ pc' = pc => PayerCanPay'
  BY DEF Polling, PayerCanPay

\* Handlers other than SpawnMinion, Sell and UseGold.
LEMMA JoinLeaveGold ==
  ASSUME Inv, GoldInv, NEW p \in Players,
         Leave(p) \/ \E r \in Rooms : Join(p, r)
  PROVE  GoldInv'
<1>1. Polling /\ pc' = pc /\ gold' = gold
  BY DEF Leave, Join
<1>2. online' \subseteq online /\ online \subseteq Players /\ NoRoom \notin Rooms
  BY BoardAssumption DEF Inv, TypeOK, Leave, Join, playerVars
<1>3. \A q \in online' \cap Polite : room'[q] = room[q] \/ room[q] = NoRoom
  BY DEF Inv, TypeOK, Leave, Join
<1>4. \A q \in Players, s \in Rooms, i \in Ids : Owns(q, s, i)' => Owns(q, s, i)
  <2>1. CASE minions' = minions
    BY <2>1 DEF Owns
  <2>2. ASSUME NEW r \in Rooms, ResetStageState(r)
        PROVE  \A q \in Players, s \in Rooms, i \in Ids : Owns(q, s, i)' => Owns(q, s, i)
    <3>1. minions' = [minions EXCEPT ![r] = Empty] /\ minions \in [Rooms -> PartialFunctions(Ids, MinionRecord)]
      BY <2>2 DEF ResetStageState, ClearMinions, Inv, TypeOK
    <3> QED
      BY ONLY <3>1 DEF Owns, Empty
  <2>3. minions' = minions \/ \E r \in Rooms : ResetStageState(r)
    BY DEF Leave, Join, boardVars
  <2> QED
    BY <2>1, <2>2, <2>3
<1>5. OneRoom'
  BY <1>2, <1>3, <1>4, OneRoomKept DEF GoldInv
<1> QED
  BY <1>1, <1>5, PollingPays DEF GoldInv, PoliteGold

LEMMA SpawnMinionGold ==
  ASSUME Inv, GoldInv, NEW p \in Players, NEW r \in Rooms, NEW t \in Tiles,
         SpawnMinion(p, r, t)
  PROVE  GoldInv'
<1> USE DEF SpawnMinion, AddMinion, InRoom, playerVars
<1>1. Polling /\ pc' = pc /\ p \in online /\ room[p] = r /\ UNCHANGED <<online, room>>
  OBVIOUS
<1>2. PoliteGold'
  <2>1. Cost \in IntRange /\ Cost >= 0 /\ gold[p] >= Cost
    BY BoardAssumption DEF CanAfford, IntRange
  <2> QED
    BY <2>1, PolitePays DEF GoldInv
<1>3. \A q \in Players, s \in Rooms, i \in Ids :
        Owns(q, s, i)' => Owns(q, s, i) \/ (q = p /\ s = r)
  BY DEF Inv, TypeOK, Owns, With, NewMinion
<1>4. OneRoom'
  <2>1. OneRoom /\ online \subseteq Players
    BY DEF GoldInv, Inv, TypeOK
  <2>2. ASSUME NEW q \in online \cap Polite, NEW s \in Rooms, NEW i \in Ids, Owns(q, s, i)'
        PROVE  room[q] = s
    BY ONLY <1>1, <1>3, <2>1, <2>2 DEF OneRoom
  <2>3. ASSUME NEW q \in Polite, NEW u \in Rooms, NEW s \in Rooms, NEW i \in Ids, NEW j \in Ids,
               Owns(q, u, i)', Owns(q, s, j)'
        PROVE  u = s
    BY ONLY <1>1, <1>3, <2>1, <2>3, BoardAssumption DEF OneRoom
  <2> QED
    BY <1>1, <2>2, <2>3 DEF OneRoom
<1> QED
  BY <1>1, <1>2, <1>4, PollingPays DEF GoldInv

LEMMA OtherHandlersGold ==
  ASSUME Inv, GoldInv, NEW p \in Players, NEW r \in Rooms,
         \/ StartWave(r)
         \/ \E i \in Ids : Sell(p, r, i) \/ AskUpgrade(p, r, i)
         \/ \E i \in Ids, t \in Tiles : RelocateMinion(p, r, i, t)
         \/ \E price \in Uses : UseGold(p, r, price)
  PROVE  GoldInv'
<1>1. Polling /\ pc' = pc /\ UNCHANGED playerVars
  BY DEF StartWave, Sell, AskUpgrade, RelocateMinion, UseGold, InRoom
<1>2. PoliteGold'
  <2>1. ASSUME NEW price \in Uses, UseGold(p, r, price)
        PROVE  PoliteGold'
    <3>1. ToInt(price) \in IntRange
      BY UsesAreInts
    <3>2. p \in Polite => ToInt(price) >= 0
      BY <2>1, BoardAssumption DEF UseGold, ToInt, UIntRange
    <3> QED
      BY <2>1, <3>1, <3>2, PolitePays DEF UseGold, CanAfford, GoldInv
  <2>2. ASSUME NEW i \in Ids, Sell(p, r, i)
        PROVE  PoliteGold'
    <3>1. p \in Polite => AfterEarning(p, Cost) \in 0 .. MaxGold
      BY <2>2, PoliteEarns, BoardAssumption DEF Sell, GoldInv
    <3> QED
      BY <2>2, <3>1, BoardAssumption DEF Sell, GoldInv, PoliteGold, Inv, TypeOK
  <2> QED
    BY <2>1, <2>2 DEF StartWave, AskUpgrade, RelocateMinion, PoliteGold, GoldInv
<1>3. \A q \in Players, s \in Rooms, i \in Ids : Owns(q, s, i)' => Owns(q, s, i)
  <2>1. ASSUME NEW i \in Ids, Sell(p, r, i),
               NEW q \in Players, NEW s \in Rooms, NEW j \in Ids, Owns(q, s, j)'
        PROVE  Owns(q, s, j)
    BY <2>1 DEF Sell, ReturnMinion, RemoveMinion, Owns, Without, Inv, TypeOK
  <2>2. ASSUME NEW i \in Ids, NEW t \in Tiles, RelocateMinion(p, r, i, t),
               NEW q \in Players, NEW s \in Rooms, NEW j \in Ids, Owns(q, s, j)'
        PROVE  Owns(q, s, j)
    <3>1. /\ i \in DOMAIN minions[r]
          /\ minions[r][i] \in MinionRecord
          /\ minions[r] \in PartialFunctions(Ids, MinionRecord)
      BY <2>2, RoomTypes DEF RelocateMinion, Owns, Inv
    <3>2. DOMAIN minions'[s] = DOMAIN minions[s]
          /\ \A k \in DOMAIN minions[s] : minions'[s][k].owner = minions[s][k].owner
      BY <2>2, <3>1, PartialDomain DEF RelocateMinion, MinionRecord, Inv, TypeOK
    <3> QED
      BY <2>2, <3>2 DEF Owns
  <2>3. CASE StartWave(r) \/ (\E i \in Ids : AskUpgrade(p, r, i))
             \/ (\E price \in Uses : UseGold(p, r, price))
    BY <2>3 DEF StartWave, AskUpgrade, UseGold, boardVars, Owns
  <2> QED
    BY <2>1, <2>2, <2>3
<1>4. OneRoom'
  <2>1. online \subseteq Players /\ NoRoom \notin Rooms
    BY BoardAssumption DEF Inv, TypeOK
  <2> QED
    BY <1>1, <1>3, <2>1, OneRoomKept DEF GoldInv, playerVars
<1> QED
  BY <1>1, <1>2, <1>4, PollingPays DEF GoldInv

LEMMA CheckCommandGold ==
  ASSUME Inv, GoldInv, NEW r \in Rooms, CheckCommand(r)
  PROVE  GoldInv'
<1> USE DEF CheckCommand, playerVars, boardVars
<1>1. OneRoom' /\ PoliteGold'
  BY DEF GoldInv, OneRoom, PoliteGold, Owns
<1>2. PayerCanPay'
  <2> SUFFICES ASSUME NEW s \in Rooms, pc'[s] = "pay", Head(batch'[s]).by \in Polite
               PROVE  gold'[Head(batch'[s]).by] >= Price
    BY DEF PayerCanPay
  <2>1. CASE s = r
    BY <2>1 DEF Inv, TypeOK, MayUpgrade, CanAfford
  <2>2. CASE s # r
    BY <2>2 DEF Inv, TypeOK, GoldInv, PayerCanPay
  <2> QED
    BY <2>1, <2>2
<1> QED
  BY <1>1, <1>2 DEF GoldInv

\* The worker of another room that is about to pay pays for somebody else.
LEMMA PayCommandGold ==
  ASSUME Inv, GoldInv, NEW r \in Rooms, PayCommand(r)
  PROVE  GoldInv'
<1> DEFINE c == Head(batch[r])
<1> USE DEF PayCommand, playerVars
<1>1. /\ Owns(c.by, r, c.id) /\ (c.by \in Polite => gold[c.by] >= Price)
      /\ c \in Command /\ c.by \in Players /\ c.id \in Ids
  <2>1. batch[r] \in Seq(Command) /\ batch[r] # <<>>
    BY RoomTypes DEF Inv, PayInv, Payable
  <2>2. c \in Command
    BY <2>1
  <2> QED
    BY <2>2 DEF Inv, PayInv, Payable, GoldInv, PayerCanPay, Command
<1>2. Price \in IntRange /\ Price >= 0 /\ Pay(c.by, Price)
  BY BoardAssumption DEF IntRange
<1>3. PoliteGold' /\ \A q \in Players \ {c.by} : gold'[q] = gold[q]
  BY <1>1, <1>2, PolitePays DEF GoldInv
<1>4. \A q \in Players, s \in Rooms, i \in Ids : Owns(q, s, i)' => Owns(q, s, i)
  <2>1. /\ c.id \in DOMAIN minions[r]
        /\ minions[r][c.id] \in MinionRecord
        /\ minions[r] \in PartialFunctions(Ids, MinionRecord)
    BY <1>1, RoomTypes DEF Owns, Inv
  <2>2. \A s \in Rooms : /\ DOMAIN minions'[s] = DOMAIN minions[s]
                         /\ \A k \in DOMAIN minions[s] :
                              minions'[s][k].owner = minions[s][k].owner
    BY <2>1, PartialDomain DEF MinionRecord, Inv, TypeOK
  <2> QED
    BY <2>2 DEF Owns
<1>5. OneRoom'
  <2>1. online \subseteq Players /\ NoRoom \notin Rooms
    BY BoardAssumption DEF Inv, TypeOK
  <2> QED
    BY <1>4, <2>1, OneRoomKept DEF GoldInv
<1>6. PayerCanPay'
  <2> SUFFICES ASSUME NEW s \in Rooms, pc'[s] = "pay", Head(batch'[s]).by \in Polite
               PROVE  gold'[Head(batch'[s]).by] >= Price
    BY DEF PayerCanPay
  <2> DEFINE d == Head(batch[s])
  <2>1. s # r /\ pc[s] = "pay" /\ batch'[s] = batch[s]
    BY DEF Inv, TypeOK
  <2>2. Owns(d.by, s, d.id) /\ gold[d.by] >= Price /\ d.by \in Polite /\ d.id \in Ids
    <3>1. batch[s] \in Seq(Command) /\ batch[s] # <<>>
      BY <2>1, RoomTypes DEF Inv, PayInv, Payable
    <3>2. d \in Command
      BY <3>1
    <3> QED
      BY <2>1, <3>2 DEF Inv, PayInv, Payable, GoldInv, PayerCanPay, Command
  <2>3. d.by # c.by
    BY <1>1, <2>1, <2>2 DEF GoldInv, OneRoom
  <2> QED
    BY ONLY <1>3, <2>1, <2>2, <2>3, BoardAssumption
<1> QED
  BY <1>3, <1>5, <1>6 DEF GoldInv

\* A reward makes no polite player poorer.
LEMMA PayRewardGold ==
  ASSUME Inv, GoldInv, NEW r \in Rooms, PayReward(r)
  PROVE  GoldInv'
<1> USE DEF PayReward, playerVars, boardVars
<1>1. OneRoom'
  BY DEF GoldInv, OneRoom, Owns
<1>2. \A p \in Polite : /\ gold'[p] \in 0 .. MaxGold
                        /\ gold'[p] \in {gold[p], gold[p] + Reward}
  <2> SUFFICES ASSUME NEW p \in Polite
               PROVE  /\ gold'[p] \in 0 .. MaxGold
                      /\ gold'[p] \in {gold[p], gold[p] + Reward}
    OBVIOUS
  <2>1. CASE p \in members[r]
    <3>1. /\ AfterEarning(p, Reward) = gold[p] + Reward
          /\ AfterEarning(p, Reward) \in 0 .. MaxGold
      BY <2>1, PoliteEarns, BoardAssumption DEF GoldInv
    <3>2. gold'[p] = AfterEarning(p, Reward)
      BY <2>1, BoardAssumption
    <3> QED
      BY <3>1, <3>2
  <2>2. CASE p \notin members[r]
    BY <2>2, BoardAssumption DEF GoldInv, PoliteGold
  <2> QED
    BY <2>1, <2>2
<1>3. PayerCanPay'
  <2> SUFFICES ASSUME NEW s \in Rooms, pc[s] = "pay", Head(batch[s]).by \in Polite
               PROVE  gold'[Head(batch[s]).by] >= Price
    BY DEF PayerCanPay
  <2>1. gold[Head(batch[s]).by] >= Price
    BY DEF GoldInv, PayerCanPay
  <2>2. PICK g \in Int : g = gold[Head(batch[s]).by]
    BY DEF GoldInv, PoliteGold
  <2> QED
    BY <1>2, <2>1, <2>2, BoardAssumption
<1> QED
  BY <1>1, <1>2, <1>3 DEF GoldInv, PoliteGold

LEMMA OtherUpdatesGold ==
  ASSUME Inv, GoldInv,
         \/ BeginTick \/ EndTick
         \/ \E r \in Rooms : TakeCommands(r) \/ CommandsDone(r) \/ FinishUpdate(r)
  PROVE  GoldInv'
<1>1. UNCHANGED <<playerVars, gold>>
  BY DEF BeginTick, EndTick, TakeCommands, CommandsDone, FinishUpdate
<1>2. \A s \in Rooms : pc'[s] = "pay" => pc[s] = "pay" /\ batch'[s] = batch[s]
  BY DEF BeginTick, EndTick, TakeCommands, CommandsDone, FinishUpdate, Inv, TypeOK
<1>3. \A q \in Players, s \in Rooms, i \in Ids : Owns(q, s, i)' => Owns(q, s, i)
  <2>1. CASE minions' = minions
    BY <2>1 DEF Owns
  <2>2. ASSUME NEW r \in Rooms, ResetStageState(r)
        PROVE  \A q \in Players, s \in Rooms, i \in Ids : Owns(q, s, i)' => Owns(q, s, i)
    <3>1. minions' = [minions EXCEPT ![r] = Empty] /\ minions \in [Rooms -> PartialFunctions(Ids, MinionRecord)]
      BY <2>2 DEF ResetStageState, ClearMinions, Inv, TypeOK
    <3> QED
      BY ONLY <3>1 DEF Owns, Empty
  <2>3. minions' = minions \/ \E r \in Rooms : ResetStageState(r)
    BY DEF BeginTick, EndTick, TakeCommands, CommandsDone, FinishUpdate, boardVars
  <2> QED
    BY <2>1, <2>2, <2>3
<1>4. OneRoom'
  <2>1. online \subseteq Players /\ NoRoom \notin Rooms
    BY BoardAssumption DEF Inv, TypeOK
  <2> QED
    BY <1>1, <1>3, <2>1, OneRoomKept DEF GoldInv, playerVars
<1> QED
  BY <1>1, <1>2, <1>4 DEF GoldInv, PoliteGold, PayerCanPay

LEMMA NextGold == Inv /\ GoldInv /\ [Next]_vars => GoldInv'
<1> SUFFICES ASSUME Inv, GoldInv, [Next]_vars PROVE GoldInv'
  OBVIOUS
<1>1. ASSUME NEW p \in Players, Leave(p) PROVE GoldInv'
  BY <1>1, JoinLeaveGold
<1>2. ASSUME NEW p \in Players, NEW r \in Rooms,
             \/ Join(p, r)
             \/ \E t \in Tiles : SpawnMinion(p, r, t)
             \/ \E i \in Ids : Sell(p, r, i) \/ AskUpgrade(p, r, i)
             \/ \E i \in Ids, t \in Tiles : RelocateMinion(p, r, i, t)
             \/ \E price \in Uses : UseGold(p, r, price)
      PROVE  GoldInv'
  BY <1>2, JoinLeaveGold, SpawnMinionGold, OtherHandlersGold
<1>3. ASSUME NEW r \in Rooms, Update(r) \/ PayReward(r) PROVE GoldInv'
  BY <1>3, CheckCommandGold, PayCommandGold, PayRewardGold, OtherUpdatesGold DEF Update
<1>4. ASSUME NEW r \in Rooms, StartWave(r) PROVE GoldInv'
  BY <1>4 DEF StartWave, GoldInv, OneRoom, PayerCanPay, PoliteGold, Owns,
              playerVars, boardVars
<1>5. CASE BeginTick \/ EndTick
  BY <1>5, OtherUpdatesGold
<1>6. CASE UNCHANGED vars
  BY <1>6 DEF GoldInv, OneRoom, PayerCanPay, PoliteGold, Owns, vars,
              playerVars, boardVars
<1> QED
  BY <1>1, <1>2, <1>3, <1>4, <1>5, <1>6 DEF Next

\* A polite player never owes gold: only who sits in two rooms can be charged
\* twice at once, and only who names a price beyond the ints can make his gold
\* wrap; neither reaches anybody else's.
THEOREM BoardNoDebt == Spec => []GoldNeverNegative
<1>1. Init => Inv /\ GoldInv
  BY InitInv, InitGold
<1>2. Inv /\ GoldInv /\ [Next]_vars => (Inv /\ GoldInv)'
  BY NextInv, NextGold
<1>3. GoldInv => GoldNeverNegative
  BY DEF GoldInv, PoliteGold, GoldNeverNegative
<1> QED
  BY <1>1, <1>2, <1>3, PTL DEF Spec

-----------------------------------------------------------------------------
(* The board of rooms is a shop *)

LEMMA GoodsDomain ==
  \A m : m \in DOMAIN Goods <=> m \in Rooms \X Ids /\ m[2] \in DOMAIN minions[m[1]]
  BY DEF Goods

\* Tiles, positions and tables apart, nothing is gained or lost.
LEMMA SameGoods ==
  ASSUME \A r \in Rooms :
           /\ DOMAIN minions'[r] = DOMAIN minions[r]
           /\ \A i \in DOMAIN minions[r] : /\ minions'[r][i].owner = minions[r][i].owner
                                           /\ minions'[r][i].level = minions[r][i].level
  PROVE  Goods' = Goods
<1> DEFINE D == {n \in Rooms \X Ids : n[2] \in DOMAIN minions[n[1]]}
<1>1. D = {n \in Rooms \X Ids : n[2] \in DOMAIN minions'[n[1]]}
  OBVIOUS
<1>2. \A m \in D : /\ minions'[m[1]][m[2]].owner = minions[m[1]][m[2]].owner
                   /\ minions'[m[1]][m[2]].level = minions[m[1]][m[2]].level
  OBVIOUS
<1> QED
  BY <1>1, <1>2 DEF Goods

LEMMA ShopInit == Init => AsShop!Init
<1> SUFFICES ASSUME Init PROVE Goods = [m \in {} |-> {}] /\ gold = [p \in Players |-> StartGold]
  BY DEF AsShop!Init
<1>1. {n \in Rooms \X Ids : n[2] \in DOMAIN minions[n[1]]} = {}
  BY DEF Init, Empty
<1> QED
  BY <1>1 DEF Init, Goods

\* Shop's arithmetic is that of Board.
LEMMA SameToInt == \A n \in Int : AsShop!ToInt(n) = ToInt(n)
  BY DEF AsShop!ToInt, ToInt

LEMMA PayIsGet ==
  ASSUME Inv, GoldInv, NEW p \in Players, NEW price \in IntRange, Pay(p, price),
         p \in Polite => price >= 0 /\ gold[p] >= price
  PROVE  AsShop!Get(p, -price)
<1>1. PICK g \in IntRange : g = gold[p]
  BY DEF Inv, TypeOK
<1>2. g \in Int /\ price \in Int
  BY BoardAssumption DEF IntRange
<1>3. g - price \in Int /\ g + (-price) = g - price
  BY <1>2
<1>4. p \in Polite => ToInt(g - price) = g - price
  <2> SUFFICES ASSUME p \in Polite PROVE ToInt(g - price) = g - price
    OBVIOUS
  <2>1. g \in 0 .. MaxGold
    BY <1>1 DEF GoldInv, PoliteGold
  <2>2. g - price \in 0 .. MaxGold
    BY <1>1, <2>1, <1>2, BoardAssumption
  <2> QED
    BY <2>2, ToIntKeeps
<1>5. AsShop!ToInt(g - price) = ToInt(g - price)
  BY <1>3, SameToInt
<1>6. AsShop!Balance(p, -price) = ToInt(gold[p] - price)
  BY <1>1, <1>3, <1>4, <1>5 DEF AsShop!Balance
<1> QED
  BY <1>6 DEF Pay, AsShop!Get

LEMMA EarningIsBalance ==
  ASSUME Inv, GoldInv, NEW p \in Players, NEW amount \in 0 .. IntMax, MayEarn(p, amount)
  PROVE  AsShop!Balance(p, amount) = AfterEarning(p, amount)
<1>1. PICK g \in IntRange : g = gold[p]
  BY DEF Inv, TypeOK
<1>2. g + amount \in Int
  BY BoardAssumption DEF IntRange
<1>3. AsShop!ToInt(g + amount) = ToInt(g + amount)
  BY <1>2, SameToInt
<1>4. p \in Polite => AfterEarning(p, amount) = gold[p] + amount
  BY PoliteEarns DEF GoldInv
<1> QED
  BY <1>1, <1>3, <1>4 DEF AsShop!Balance, AfterEarning

LEMMA SpawnIsBuy ==
  ASSUME Inv, GoldInv, NEW p \in Players, NEW r \in Rooms, NEW t \in Tiles, SpawnMinion(p, r, t)
  PROVE  AsShop!Buy(p, <<r, nextId[r]>>) /\ <<r, nextId[r]>> \in AsShop!Minions
<1> DEFINE i == nextId[r]
           b == <<r, i>>
<1> USE DEF SpawnMinion, AddMinion
<1>1. /\ i \in Ids /\ i \notin DOMAIN minions[r]
      /\ minions' = [minions EXCEPT ![r] = With(minions[r], i, NewMinion(p, t))]
      /\ minions \in [Rooms -> PartialFunctions(Ids, MinionRecord)]
  BY DEF Inv, IdsAreFresh, Ids, TypeOK
<1>2. AsShop!Spend(p, Cost)
  <2>1. Cost \in IntRange /\ Cost >= 0
    BY BoardAssumption DEF IntRange
  <2> QED
    BY <2>1, PayIsGet DEF AsShop!Spend, CanAfford
<1>3. b \notin DOMAIN Goods
  BY <1>1, GoodsDomain
<1>4. \A m \in Rooms \X Ids :
        /\ m[2] \in DOMAIN minions'[m[1]] <=> m = b \/ m[2] \in DOMAIN minions[m[1]]
        /\ m # b /\ m[2] \in DOMAIN minions[m[1]] =>
             minions'[m[1]][m[2]] = minions[m[1]][m[2]]
        /\ minions'[r][i] = NewMinion(p, t)
  BY <1>1 DEF With
<1>5. DOMAIN Goods' = DOMAIN Goods \cup {b}
  BY <1>1, <1>4 DEF Goods
<1>6. \A m \in DOMAIN Goods' :
        Goods'[m] = IF m = b THEN [owner |-> p, level |-> 0] ELSE Goods[m]
  BY <1>1, <1>4 DEF Goods, NewMinion
<1>7. Goods' = [n \in DOMAIN Goods \cup {b} |->
                  IF n = b THEN [owner |-> p, level |-> 0] ELSE Goods[n]]
  <2>1. Goods' = [n \in DOMAIN Goods' |-> Goods'[n]]
    BY DEF Goods
  <2> QED
    BY ONLY <1>5, <1>6, <2>1
<1> QED
  BY <1>1, <1>2, <1>3, <1>7 DEF AsShop!Buy, AsShop!Minions

LEMMA SellIsSell ==
  ASSUME Inv, GoldInv, NEW p \in Players, NEW r \in Rooms, NEW i \in Ids, Sell(p, r, i)
  PROVE  AsShop!Sell(<<r, i>>)
<1> DEFINE b == <<r, i>>
<1> USE DEF Sell, ReturnMinion, RemoveMinion
<1>1. /\ i \in DOMAIN minions[r] /\ minions[r][i].owner = p
      /\ minions' = [minions EXCEPT ![r] = Without(minions[r], i)]
      /\ minions \in [Rooms -> PartialFunctions(Ids, MinionRecord)]
  BY DEF Inv, TypeOK, Owns
<1>2. b \in DOMAIN Goods /\ Goods[b].owner = p
  BY <1>1 DEF Goods
<1>3. \A m \in Rooms \X Ids :
        /\ m[2] \in DOMAIN minions'[m[1]] <=> m # b /\ m[2] \in DOMAIN minions[m[1]]
        /\ m[2] \in DOMAIN minions'[m[1]] => minions'[m[1]][m[2]] = minions[m[1]][m[2]]
  BY <1>1 DEF Without
<1>4. Goods' = [n \in DOMAIN Goods \ {b} |-> Goods[n]]
  <2>1. DOMAIN Goods' = DOMAIN Goods \ {b}
    BY <1>3 DEF Goods
  <2>2. \A m \in DOMAIN Goods' : Goods'[m] = Goods[m]
    BY <1>3 DEF Goods
  <2>3. Goods' = [n \in DOMAIN Goods' |-> Goods'[n]]
    BY DEF Goods
  <2> QED
    BY ONLY <2>1, <2>2, <2>3
<1>5. AsShop!Get(p, Cost)
  BY EarningIsBalance, BoardAssumption DEF AsShop!Get
<1> QED
  BY <1>2, <1>4, <1>5 DEF AsShop!Sell

LEMMA PayIsUpgrade ==
  ASSUME Inv, GoldInv, NEW r \in Rooms, PayCommand(r)
  PROVE  \E m \in AsShop!Minions : AsShop!Upgrade(m)
<1> DEFINE c == Head(batch[r])
           b == <<r, c.id>>
           old == minions[r][c.id]
<1> USE DEF PayCommand
<1>1. c \in Command
  BY RoomTypes DEF Inv, PayInv, Payable
<1>2. /\ c.id \in DOMAIN minions[r] /\ old.owner = c.by /\ old.level < MaxLevel
      /\ (c.by \in Polite => gold[c.by] >= Price) /\ c.id \in Ids /\ c.by \in Players
  BY <1>1 DEF Inv, PayInv, Payable, Owns, GoldInv, PayerCanPay, Command
<1>3. /\ minions' = [minions EXCEPT ![r] = [minions[r] EXCEPT ![c.id] =
                       [old EXCEPT !.level = old.level + 1]]]
      /\ minions \in [Rooms -> PartialFunctions(Ids, MinionRecord)]
      /\ minions[r] \in PartialFunctions(Ids, MinionRecord)
      /\ old \in MinionRecord
  BY <1>2, RoomTypes DEF Inv, TypeOK
<1>4. /\ b \in DOMAIN Goods /\ b \in Rooms \X Ids
      /\ Goods[b].owner = c.by /\ Goods[b].level = old.level
      /\ Goods[b] = [owner |-> c.by, level |-> old.level]
  BY <1>2 DEF Goods
<1>5. \A m \in Rooms \X Ids :
        /\ m[2] \in DOMAIN minions'[m[1]] <=> m[2] \in DOMAIN minions[m[1]]
        /\ m # b /\ m[2] \in DOMAIN minions[m[1]] =>
             minions'[m[1]][m[2]] = minions[m[1]][m[2]]
  BY ONLY <1>2, <1>3
<1>6. minions'[r][c.id].owner = c.by /\ minions'[r][c.id].level = old.level + 1
  <2>1. minions'[r][c.id] = [old EXCEPT !.level = old.level + 1]
    BY <1>2, <1>3, UpdateIsPartial, PartialDomain
  <2> QED
    BY ONLY <1>2, <1>3, <2>1 DEF MinionRecord
<1>7. Goods' = [Goods EXCEPT ![b] = [owner |-> c.by, level |-> old.level + 1]]
  <2>1. DOMAIN Goods' = DOMAIN Goods
    BY ONLY <1>5 DEF Goods
  <2>2. \A m \in DOMAIN Goods : m # b => Goods'[m] = Goods[m]
    BY ONLY <1>5 DEF Goods
  <2>3. Goods'[b] = [owner |-> c.by, level |-> old.level + 1]
    BY ONLY <1>4, <1>6, <2>1 DEF Goods
  <2>4. Goods' = [n \in DOMAIN Goods' |-> Goods'[n]] /\ Goods = [n \in DOMAIN Goods |-> Goods[n]]
    BY DEF Goods
  <2> QED
    BY ONLY <1>4, <2>1, <2>2, <2>3, <2>4
<1>8. [Goods EXCEPT ![b].level = @ + 1] = [Goods EXCEPT ![b] = [owner |-> c.by, level |-> old.level + 1]]
  <2> DEFINE better == [Goods[b] EXCEPT !.level = Goods[b].level + 1]
  <2>1. better = [owner |-> c.by, level |-> old.level + 1]
    BY ONLY <1>4
  <2>2. [Goods EXCEPT ![b].level = @ + 1] = [Goods EXCEPT ![b] = better]
    OBVIOUS
  <2> QED
    BY ONLY <2>1, <2>2
<1>9. AsShop!Get(c.by, -Price)
  <2>1. Price \in IntRange /\ Price >= 0
    BY BoardAssumption DEF IntRange
  <2> QED
    BY <1>2, <2>1, PayIsGet
<1> QED
  BY <1>2, <1>4, <1>7, <1>8, <1>9 DEF AsShop!Upgrade, AsShop!Minions

LEMMA ResetIsLose ==
  ASSUME Inv, NEW r \in Rooms, ResetStageState(r), gold' = gold
  PROVE  AsShop!Lose(r)
<1>1. /\ minions' = [minions EXCEPT ![r] = Empty]
      /\ minions \in [Rooms -> PartialFunctions(Ids, MinionRecord)]
  BY DEF ResetStageState, ClearMinions, Inv, TypeOK
<1>2. \A m \in Rooms \X Ids :
        /\ m[2] \in DOMAIN minions'[m[1]] <=> m[1] # r /\ m[2] \in DOMAIN minions[m[1]]
        /\ m[2] \in DOMAIN minions'[m[1]] => minions'[m[1]][m[2]] = minions[m[1]][m[2]]
  BY ONLY <1>1 DEF Empty
<1>3. DOMAIN Goods' = {m \in DOMAIN Goods : m[1] # r}
  BY ONLY <1>2 DEF Goods
<1>4. \A m \in DOMAIN Goods' : Goods'[m] = Goods[m]
  BY ONLY <1>2 DEF Goods
<1>5. Goods' = [n \in DOMAIN Goods' |-> Goods'[n]]
  BY DEF Goods
<1>6. Goods' = [n \in {m \in DOMAIN Goods : m[1] # r} |-> Goods[n]]
  BY ONLY <1>3, <1>4, <1>5
<1> QED
  BY <1>6 DEF AsShop!Lose

LEMMA RelocateIsNothing ==
  ASSUME Inv, NEW p \in Players, NEW r \in Rooms, NEW i \in Ids, NEW t \in Tiles,
         RelocateMinion(p, r, i, t)
  PROVE  UNCHANGED AsShop!vars
<1>1. /\ i \in DOMAIN minions[r]
      /\ minions[r][i] \in MinionRecord
      /\ minions[r] \in PartialFunctions(Ids, MinionRecord)
  BY RoomTypes DEF RelocateMinion, Owns, Inv
<1>2. /\ minions' = [minions EXCEPT ![r] = [minions[r] EXCEPT ![i] =
                       [minions[r][i] EXCEPT !.position = ToPosition(t)]]]
      /\ minions \in [Rooms -> PartialFunctions(Ids, MinionRecord)]
      /\ gold' = gold
  BY DEF RelocateMinion, Inv, TypeOK
<1>3. \A s \in Rooms :
        /\ DOMAIN minions'[s] = DOMAIN minions[s]
        /\ \A j \in DOMAIN minions[s] : /\ minions'[s][j].owner = minions[s][j].owner
                                        /\ minions'[s][j].level = minions[s][j].level
  BY <1>1, <1>2, PartialDomain DEF MinionRecord
<1> QED
  BY <1>2, <1>3, SameGoods DEF AsShop!vars

\* A step that touches neither gold nor minions.
LEMMA NothingHappens == UNCHANGED <<gold, minions>> => UNCHANGED AsShop!vars
  BY DEF AsShop!vars, Goods

LEMMA NextIsShop == Inv /\ GoldInv /\ [Next]_vars => [AsShop!Next]_(AsShop!vars)
<1> SUFFICES ASSUME Inv, GoldInv, [Next]_vars PROVE AsShop!Next \/ UNCHANGED AsShop!vars
  OBVIOUS
<1>1. ASSUME NEW r \in Rooms, ResetStageState(r), gold' = gold
      PROVE  AsShop!Next
  BY <1>1, ResetIsLose DEF AsShop!Next
<1>2. ASSUME NEW p \in Players, Leave(p)
      PROVE  AsShop!Next \/ UNCHANGED AsShop!vars
  BY <1>1, <1>2, NothingHappens DEF Leave, boardVars
<1>3. ASSUME NEW p \in Players, NEW r \in Rooms, Join(p, r)
      PROVE  UNCHANGED AsShop!vars
  BY <1>3, NothingHappens DEF Join, boardVars
<1>4. ASSUME NEW p \in Players, NEW r \in Rooms, NEW t \in Tiles, SpawnMinion(p, r, t)
      PROVE  AsShop!Next
  BY <1>4, SpawnIsBuy DEF AsShop!Next
<1>5. ASSUME NEW p \in Players, NEW r \in Rooms, NEW i \in Ids, Sell(p, r, i)
      PROVE  AsShop!Next
  BY <1>5, SellIsSell DEF AsShop!Next, AsShop!Minions
<1>6. ASSUME NEW p \in Players, NEW r \in Rooms, NEW i \in Ids, AskUpgrade(p, r, i)
      PROVE  UNCHANGED AsShop!vars
  BY <1>6, NothingHappens DEF AskUpgrade, boardVars
<1>7. ASSUME NEW p \in Players, NEW r \in Rooms, NEW price \in Uses, UseGold(p, r, price)
      PROVE  AsShop!Next
  <2>1. ToInt(price) \in IntRange
    BY UsesAreInts
  <2>2. p \in Polite => ToInt(price) >= 0
    BY <1>7, BoardAssumption DEF UseGold, ToInt, UIntRange
  <2>3. AsShop!Get(p, -ToInt(price)) /\ gold[p] >= ToInt(price)
    BY <1>7, <2>1, <2>2, PayIsGet DEF UseGold, CanAfford
  <2>4. UNCHANGED Goods
    BY <1>7 DEF UseGold, boardVars, Goods
  <2> QED
    BY <2>2, <2>3, <2>4 DEF AsShop!Next, AsShop!Use, AsShop!Spend
<1>8. ASSUME NEW r \in Rooms, StartWave(r) \/ TakeCommands(r) \/ CheckCommand(r) \/ CommandsDone(r)
      PROVE  UNCHANGED AsShop!vars
  BY <1>8, NothingHappens DEF StartWave, TakeCommands, CheckCommand, CommandsDone, boardVars
<1>9. ASSUME NEW r \in Rooms, PayCommand(r)
      PROVE  AsShop!Next
  BY <1>9, PayIsUpgrade DEF AsShop!Next
<1>10. ASSUME NEW r \in Rooms, PayReward(r)
       PROVE  AsShop!Next
  <2>1. members[r] \in SUBSET Players
    BY DEF Inv, TypeOK
  <2>2. AsShop!Earn(members[r], Reward)
    <3>1. \A p \in members[r] : AsShop!Balance(p, Reward) = AfterEarning(p, Reward)
      BY <1>10, <2>1, EarningIsBalance, BoardAssumption DEF PayReward
    <3> QED
      BY <1>10, <3>1 DEF PayReward, AsShop!Earn, boardVars, Goods
  <2> QED
    BY <2>1, <2>2 DEF AsShop!Next
<1>11. ASSUME NEW r \in Rooms, FinishUpdate(r)
       PROVE  AsShop!Next \/ UNCHANGED AsShop!vars
  BY <1>1, <1>11, NothingHappens DEF FinishUpdate, boardVars
<1>12. CASE BeginTick \/ EndTick \/ UNCHANGED vars
  BY <1>12, NothingHappens DEF BeginTick, EndTick, vars, boardVars
<1> QED
  BY <1>2, <1>3, <1>4, <1>5, <1>6, <1>7, <1>8, <1>9, <1>10, <1>11, <1>12, RelocateIsNothing
     DEF Next, Update

\* For any number of rooms, players and minions, what clients can see of gold
\* and minions is what a Shop shows, though upgrades are queued, looked up and
\* paid for in steps that the updates of other rooms may come between.
THEOREM BoardIsShop == Spec => IsShop
<1>1. Init => Inv /\ GoldInv /\ AsShop!Init
  BY InitInv, InitGold, ShopInit
<1>2. Inv /\ GoldInv /\ [Next]_vars => (Inv /\ GoldInv)' /\ [AsShop!Next]_(AsShop!vars)
  BY NextInv, NextGold, NextIsShop
<1> QED
  BY <1>1, <1>2, PTL DEF Spec, IsShop, AsShop!Spec

=============================================================================
