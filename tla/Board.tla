------------------------------- MODULE Board -------------------------------
(***************************************************************************)
(* The board of a room: minions on tiles, bought, sold, moved and upgraded, *)
(* and the gold that pays for them.  Models SpawnMinionHandler,             *)
(* SellMinionHandler, RelocateMinionHandler, UpgradeMinionHandler,          *)
(* UseGoldHandler with Room::SpawnMinion, ReturnMinion, RelocateMinion,     *)
(* EnqueueCommand and ProcessCommands, MinionManager and Player::TryUseGold.*)
(*                                                                          *)
(* Buying, selling and moving happen at once, in the handler; an upgrade is *)
(* queued by its handler and run by the worker that updates the room in the *)
(* next tick.  Handlers run while the main thread polls, updates in ticks   *)
(* (TickBarrier); the updates of different rooms overlap, and a player may  *)
(* have a place in several.  Where a room is in its life, and who sits in   *)
(* it, follow RoomLife; one kind of minion with one upgrade stands for all. *)
(* The rooms here have a stage (see Lobby for the one that may have none).  *)
(***************************************************************************)
EXTENDS Gold, Sequences, FiniteSets

CONSTANTS
  Players, Rooms,
  Tiles,       \* StageTileData::buildableTiles, by one of their coordinates
  StartGold,   \* Player::m_gold of a new player
  Cost,        \* MinionData::cost, which becomes Minion::m_sellPrice
  Price,       \* UpgradeSlot::price
  MaxLevel,    \* UpgradeSlot::maxLevel
  Reward,      \* EnemyData::reward
  Uses,        \* prices that UseGold names, uint32_t
  MaxMinions,  \* bound: minions bought in a room
  MaxAsked,    \* bound: commands waiting in a room
  MaxGold,     \* bound: what a polite player may come to own, far from IntMax
  NoRoom,
  Polite       \* players who ask for a room only while they are in none, and
               \* name only prices that are an int

Ids == 1 .. MaxMinions

ASSUME BoardAssumption ==
  /\ Tiles \subseteq Int
  /\ IntMax \in Nat
  /\ Uses \subseteq UIntRange
  /\ MaxGold \in 0 .. IntMax /\ StartGold \in 0 .. MaxGold
  /\ Cost \in 0 .. IntMax /\ Price \in 0 .. IntMax /\ Reward \in 0 .. IntMax
  /\ MaxLevel \in Nat /\ MaxMinions \in Nat /\ MaxAsked \in Nat
  /\ NoRoom \notin Rooms
  /\ Polite \subseteq Players

VARIABLES
  online,     \* players whose session is open
  room,       \* Player::m_room
  gold,       \* Player::m_gold
  members,    \* keys of Room::m_players
  gameState,  \* Room::m_gameState
  occupied,   \* Room::m_occupiedTiles: tile :> minion
  minions,    \* MinionManager::m_minions: instance id :> minion
  nextId,     \* MinionManager::m_nextInstanceId
  queue,      \* Room::m_commandQueue: the upgrades asked for
  batch,      \* the commands ProcessCommands has taken out of the queue
  pc          \* where the update of a room is, "idle" while handlers run

playerVars == <<online, room>>
boardVars == <<occupied, minions, nextId>>
vars == <<playerVars, gold, members, gameState, boardVars, queue, batch, pc>>

Empty == [i \in {} |-> 0]

With(f, x, v) == [y \in DOMAIN f \cup {x} |-> IF y = x THEN v ELSE f[y]]
Without(f, x) == [y \in DOMAIN f \ {x} |-> f[y]]

\* A minion's position is its tile's coordinate / 2.0f; it is kept here in
\* quarters.  int(position * 2.0f) gives the tile back.
ToPosition(t) == 2 * t
ToTile(q) == (2 * q) \div 4

Init ==
  /\ online = Players
  /\ room = [p \in Players |-> NoRoom]
  /\ gold = [p \in Players |-> StartGold]
  /\ members = [r \in Rooms |-> {}]
  /\ gameState = [r \in Rooms |-> "WaitingForPlayers"]
  /\ occupied = [r \in Rooms |-> Empty]
  /\ minions = [r \in Rooms |-> Empty]
  /\ nextId = [r \in Rooms |-> 1]
  /\ queue = [r \in Rooms |-> <<>>]
  /\ batch = [r \in Rooms |-> <<>>]
  /\ pc = [r \in Rooms |-> "idle"]

-----------------------------------------------------------------------------
(* Rooms, as RoomLife has them *)

Polling == \A r \in Rooms : pc[r] = "idle"

\* MinionManager::Clear leaves m_nextInstanceId alone.
ClearMinions(r) == minions' = [minions EXCEPT ![r] = Empty] /\ UNCHANGED nextId

ResetStageState(r) ==
  /\ gameState' = [gameState EXCEPT ![r] = "WaitingForPlayers"]
  /\ occupied' = [occupied EXCEPT ![r] = Empty]
  /\ ClearMinions(r)

\* Enter
Join(p, r) ==
  /\ Polling /\ p \in online
  /\ p \in Polite => room[p] = NoRoom
  /\ gameState[r] = "WaitingForPlayers" /\ Cardinality(members[r]) < 2
  /\ members' = [members EXCEPT ![r] = @ \cup {p}]
  /\ room' = [room EXCEPT ![p] = r]
  /\ gameState' = IF Cardinality(members'[r]) = 2
                  THEN [gameState EXCEPT ![r] = "Intermission"]
                  ELSE gameState
  /\ UNCHANGED <<online, gold, boardVars, queue, batch, pc>>

\* Leave, when the session is disconnected: the minions of a player stay.
Leave(p) ==
  LET r == room[p] IN
  /\ Polling /\ p \in online
  /\ online' = online \ {p}
  /\ IF r \in Rooms
     THEN /\ members' = [members EXCEPT ![r] = @ \ {p}]
          /\ room' = [room EXCEPT ![p] = NoRoom]
          /\ IF members'[r] = {} THEN ResetStageState(r)
             ELSE UNCHANGED <<gameState, boardVars>>
     ELSE UNCHANGED <<members, room, gameState, boardVars>>
  /\ UNCHANGED <<gold, queue, batch, pc>>

\* WaveStart, once the players of the room are ready.
StartWave(r) ==
  /\ Polling
  /\ members[r] # {}
  /\ gameState' = [gameState EXCEPT ![r] = "Wave"]
  /\ UNCHANGED <<playerVars, gold, members, boardVars, queue, batch, pc>>

-----------------------------------------------------------------------------
(* Handlers: session->GetPlayer() and player->GetRoom() must be there *)

InRoom(p, r) == Polling /\ p \in online /\ r \in Rooms /\ room[p] = r

\* Player::TryUseGold and AddGold.
CanAfford(p, price) == gold[p] >= price
Pay(p, price) == gold' = [gold EXCEPT ![p] = ToInt(@ - price)]
AfterEarning(p, amount) == ToInt(gold[p] + amount)

\* The bound on what a polite player owns.
MayEarn(p, amount) == p \in Polite => gold[p] + amount <= MaxGold

\* Minion::Init
NewMinion(p, t) == [owner |-> p, position |-> ToPosition(t), level |-> 0]

\* MinionManager::SpawnMinion and RemoveMinion
AddMinion(r, minion) ==
  /\ nextId[r] \in Ids
  /\ minions' = [minions EXCEPT ![r] = With(@, nextId[r], minion)]
  /\ nextId' = [nextId EXCEPT ![r] = @ + 1]

RemoveMinion(r, i) == minions' = [minions EXCEPT ![r] = Without(@, i)] /\ UNCHANGED nextId

SpawnMinion(p, r, t) ==
  /\ InRoom(p, r)
  /\ gameState[r] = "Intermission"
  /\ t \in Tiles \ DOMAIN occupied[r]
  /\ CanAfford(p, Cost)
  /\ Pay(p, Cost)
  /\ AddMinion(r, NewMinion(p, t))
  /\ occupied' = [occupied EXCEPT ![r] = With(@, t, nextId[r])]
  /\ UNCHANGED <<playerVars, members, gameState, queue, batch, pc>>

\* Mutant: the tile of a minion that is sold stays occupied.
ReturnMinion_KeepsTile(r, i) == RemoveMinion(r, i) /\ UNCHANGED occupied

ReturnMinion(r, i) ==
  /\ occupied' = [occupied EXCEPT ![r] = Without(@, ToTile(minions[r][i].position))]
  /\ RemoveMinion(r, i)

Owns(p, r, i) == i \in DOMAIN minions[r] /\ minions[r][i].owner = p

\* Mutant: anybody may sell a minion.
Sell_AnyMinion(p, r, i) ==
  /\ InRoom(p, r)
  /\ i \in DOMAIN minions[r]
  /\ MayEarn(p, Cost)
  /\ gold' = [gold EXCEPT ![p] = AfterEarning(p, Cost)]
  /\ ReturnMinion(r, i)
  /\ UNCHANGED <<playerVars, members, gameState, queue, batch, pc>>

\* SellMinionHandler: in any state of the room.
Sell(p, r, i) ==
  /\ InRoom(p, r)
  /\ Owns(p, r, i)
  /\ MayEarn(p, Cost)
  /\ gold' = [gold EXCEPT ![p] = AfterEarning(p, Cost)]
  /\ ReturnMinion(r, i)
  /\ UNCHANGED <<playerVars, members, gameState, queue, batch, pc>>

RelocateMinion(p, r, i, t) ==
  /\ InRoom(p, r)
  /\ gameState[r] = "Intermission"
  /\ t \in Tiles \ DOMAIN occupied[r]
  /\ Owns(p, r, i)
  /\ occupied' = [occupied EXCEPT
                    ![r] = With(Without(@, ToTile(minions[r][i].position)), t, i)]
  /\ minions' = [minions EXCEPT ![r][i].position = ToPosition(t)]
  /\ UNCHANGED <<playerVars, gold, members, gameState, nextId, queue, batch, pc>>

\* The uint32_t of the packet is converted on the way into TryUseGold: half of
\* all prices are negative there, and raise the gold.
UseGold(p, r, price) ==
  /\ InRoom(p, r)
  /\ p \in Polite => price <= IntMax
  /\ CanAfford(p, ToInt(price))
  /\ Pay(p, ToInt(price))
  /\ UNCHANGED <<playerVars, members, gameState, boardVars, queue, batch, pc>>

\* UpgradeMinionHandler only queues a command; nothing is looked up yet.
AskUpgrade(p, r, i) ==
  /\ InRoom(p, r)
  /\ Len(queue[r]) < MaxAsked
  /\ queue' = [queue EXCEPT ![r] = Append(@, [by |-> p, id |-> i])]
  /\ UNCHANGED <<playerVars, gold, members, gameState, boardVars, batch, pc>>

-----------------------------------------------------------------------------
(* Updates *)

\* UpdateRooms: an update of every room is put into the pool.
BeginTick ==
  /\ Polling
  /\ pc' = [r \in Rooms |-> "start"]
  /\ UNCHANGED <<playerVars, gold, members, gameState, boardVars, queue, batch>>

\* Mutant: commands are only taken during waves.
TakeCommands_InWaves(r) ==
  /\ pc[r] = "start"
  /\ pc' = [pc EXCEPT ![r] = "commands"]
  /\ IF gameState[r] = "Wave"
     THEN batch' = [batch EXCEPT ![r] = queue[r]] /\ queue' = [queue EXCEPT ![r] = <<>>]
     ELSE UNCHANGED <<batch, queue>>
  /\ UNCHANGED <<playerVars, gold, members, gameState, boardVars>>

\* ProcessCommands swaps the queue with an empty one ...
TakeCommands(r) ==
  /\ pc[r] = "start"
  /\ pc' = [pc EXCEPT ![r] = "commands"]
  /\ batch' = [batch EXCEPT ![r] = queue[r]]
  /\ queue' = [queue EXCEPT ![r] = <<>>]
  /\ UNCHANGED <<playerVars, gold, members, gameState, boardVars>>

\* Mutant: the level of the slot is not compared with its maximum.
MayUpgrade_AnyLevel(r, c) == Owns(c.by, r, c.id) /\ CanAfford(c.by, Price)

\* Mutant: an upgrade is granted to players who cannot pay for it.
MayUpgrade_Unpaid(r, c) ==
  /\ Owns(c.by, r, c.id)
  /\ minions[r][c.id].level < MaxLevel

\* The conditions of an upgrade; TryUseGold reads the gold here ...
MayUpgrade(r, c) ==
  /\ Owns(c.by, r, c.id)
  /\ minions[r][c.id].level < MaxLevel
  /\ CanAfford(c.by, Price)

CheckCommand(r) ==
  /\ pc[r] = "commands"
  /\ batch[r] # <<>>
  /\ IF MayUpgrade(r, Head(batch[r]))
     THEN pc' = [pc EXCEPT ![r] = "pay"] /\ UNCHANGED batch
     ELSE batch' = [batch EXCEPT ![r] = Tail(@)] /\ UNCHANGED pc
  /\ UNCHANGED <<playerVars, gold, members, gameState, boardVars, queue>>

\* ... and takes it here, with a second atomic operation.
PayCommand(r) ==
  LET c == Head(batch[r]) IN
  /\ pc[r] = "pay"
  /\ Pay(c.by, Price)
  /\ minions' = [minions EXCEPT ![r][c.id].level = @ + 1]
  /\ batch' = [batch EXCEPT ![r] = Tail(@)]
  /\ pc' = [pc EXCEPT ![r] = "commands"]
  /\ UNCHANGED <<playerVars, members, gameState, occupied, nextId, queue>>

CommandsDone(r) ==
  /\ pc[r] = "commands" /\ batch[r] = <<>>
  /\ pc' = [pc EXCEPT ![r] = "play"]
  /\ UNCHANGED <<playerVars, gold, members, gameState, boardVars, queue, batch>>

\* PlayerAddGold, when an enemy dies: for every member of the room.
PayReward(r) ==
  /\ pc[r] = "play" /\ gameState[r] = "Wave"
  /\ \A p \in members[r] : MayEarn(p, Reward)
  /\ gold' = [p \in Players |->
                IF p \in members[r] THEN AfterEarning(p, Reward) ELSE gold[p]]
  /\ UNCHANGED <<playerVars, members, gameState, boardVars, queue, batch, pc>>

\* The rest of Update: the wave goes on, ends, or ends the stage.
FinishUpdate(r) ==
  /\ pc[r] = "play"
  /\ \/ UNCHANGED <<gameState, boardVars>>
     \/ /\ gameState[r] = "Wave"
        /\ gameState' = [gameState EXCEPT ![r] = "Intermission"]
        /\ UNCHANGED boardVars
     \/ gameState[r] = "Wave" /\ ResetStageState(r)
  /\ pc' = [pc EXCEPT ![r] = "done"]
  /\ UNCHANGED <<playerVars, gold, members, queue, batch>>

EndTick ==
  /\ \A r \in Rooms : pc[r] = "done"
  /\ pc' = [r \in Rooms |-> "idle"]
  /\ UNCHANGED <<playerVars, gold, members, gameState, boardVars, queue, batch>>

-----------------------------------------------------------------------------
Update(r) ==
  \/ TakeCommands(r) \/ CheckCommand(r) \/ PayCommand(r) \/ CommandsDone(r)
  \/ FinishUpdate(r)

Next ==
  \/ \E p \in Players : Leave(p)
  \/ \E p \in Players, r \in Rooms :
       \/ Join(p, r)
       \/ \E t \in Tiles : SpawnMinion(p, r, t)
       \/ \E i \in Ids : Sell(p, r, i) \/ AskUpgrade(p, r, i)
       \/ \E i \in Ids, t \in Tiles : RelocateMinion(p, r, i, t)
       \/ \E price \in Uses : UseGold(p, r, price)
  \/ \E r \in Rooms : StartWave(r) \/ Update(r) \/ PayReward(r)
  \/ BeginTick \/ EndTick

Spec == Init /\ [][Next]_vars

\* The main loop goes round, and a worker that updates a room gets on.
FairSpec == Spec /\ WF_vars(BeginTick \/ EndTick) /\ \A r \in Rooms : WF_vars(Update(r))

-----------------------------------------------------------------------------
(* Properties *)

MinionRecord ==
  [owner : Players, position : {ToPosition(t) : t \in Tiles}, level : 0 .. MaxLevel]
PartialFunctions(S, T) == UNION {[D -> T] : D \in SUBSET S}
Command == [by : Players, id : Ids]

\* Types; in particular no upgrade passes the maximum of its slot.
TypeOK ==
  /\ online \subseteq Players
  /\ room \in [Players -> Rooms \cup {NoRoom}]
  /\ gold \in [Players -> IntRange]
  /\ members \in [Rooms -> SUBSET Players]
  /\ gameState \in [Rooms -> {"WaitingForPlayers", "Intermission", "Wave"}]
  /\ occupied \in [Rooms -> PartialFunctions(Tiles, Ids)]
  /\ minions \in [Rooms -> PartialFunctions(Ids, MinionRecord)]
  /\ nextId \in [Rooms -> 1 .. MaxMinions + 1]
  /\ queue \in [Rooms -> Seq(Command)]
  /\ batch \in [Rooms -> Seq(Command)]
  /\ pc \in [Rooms -> {"idle", "start", "commands", "pay", "play", "done"}]

Mirror(tiles, board) ==
  /\ \A i \in DOMAIN board :
       LET t == ToTile(board[i].position) IN t \in DOMAIN tiles /\ tiles[t] = i
  /\ \A t \in DOMAIN tiles :
       LET i == tiles[t] IN i \in DOMAIN board /\ ToTile(board[i].position) = t

\* The two tables of a board agree: the tile a minion's position stands for is
\* occupied by it, and a tile is occupied by nothing else, through every
\* conversion between tiles and positions.
TilesMirrorMinions == \A r \in Rooms : Mirror(occupied[r], minions[r])

\* A polite player is never in debt, though TryUseGold compares and subtracts in
\* two steps, and whatever the others in his rooms do: those may sit in two
\* rooms whose workers take the same gold twice, or name prices that wrap.
GoldNeverNegative == \A p \in Polite : gold[p] >= 0

Goods ==
  [m \in {n \in Rooms \X Ids : n[2] \in DOMAIN minions[n[1]]} |->
     [owner |-> minions[m[1]][m[2]].owner, level |-> minions[m[1]][m[2]].level]]

\* Boards, queues and workers amount to a shop in which everything happens at
\* once: the upgrade that a polite player asked for is paid for with gold he has
\* at that moment, and no step of anybody else changes his gold or his minions.
AsShop == INSTANCE Shop WITH
  Amounts <- {ToInt(price) : price \in Uses}, Rewards <- {Reward},
  Start <- StartGold, owned <- Goods

IsShop == AsShop!Spec

\* An upgrade that is asked for is answered: the command is taken, and run.
EveryCommandRuns ==
  \A r \in Rooms :
    queue[r] # <<>> ~> /\ queue[r] = <<>>
                       /\ batch[r] = <<>>

=============================================================================
