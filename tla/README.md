# A TLA+ model of the Chess Tower Defense server

The server (`src/src`, `src/include`) is a multiplayer tower-defense game server
in C++20: clients connect by TCP, log in, ask for a stage, are matched two by
two into a *room*, and play the waves of the stage against enemies that the
server simulates. This directory holds TLA+ modules that describe its logic,
configurations with which TLC checks them on small instances, and proofs that
TLAPS checks for every value of the constants.

## 1. The system

| part | state it keeps | operations | code |
|---|---|---|---|
| Session | socket, receive buffer, send queue, `m_player`, `m_disconnected`, rate window | Read, ProcessPackets, Send, DoSend, Disconnect | `Network/Session.cpp` |
| Login and registration | MySQL rows, Redis cache, `PlayerManager::m_players` | Login, Register, CreatePlayer, RemovePlayer | `Handler/LoginHandler.cpp`, `AccountManager.cpp`, `PlayerManager.cpp` |
| Matchmaking | `RoomManager::m_rooms` | GetRoom, CreateRoom, JoinRoom | `RoomManager.cpp`, `Handler/JoinRoomHandler.cpp` |
| Room | members, ready flags, game state, wall, queues of commands and of attacks to broadcast | Enter, Leave, PlayerReadyCheck, WaveStart, Update, EndStage | `Room.cpp` |
| Wave and enemies | current wave, position in its enemy list, living enemies and the queue of those to remove | StartWave, Update, SpawnEnemy, damage, arrival, debuffs | `WaveManager.cpp`, `Enemy/*.cpp` |
| Minions (the board) | tiles, minions, stats, upgrades, gold | Spawn, Sell, Relocate, Upgrade, attacks | `Minion/*.cpp`, `Handler/*Minion*.cpp`, `Player.cpp` |
| Projectiles | flying projectiles, who each has hit | Spawn, Chase, Direct, OnHit | `Skill/Projectile*.cpp` |
| Thread pool | task queue, `m_stop` | Enqueue, WorkerLoop, destructor | `Core/ThreadPool.cpp` |
| Main loop | `m_running` | poll, TickManager::Update | `GameServer.cpp`, `TickManager.cpp` |
| Object pools | objects and their reference counts | Acquire, Release | `Pool/*`, `SpawnManager.cpp` |
| Static data | stages, enemies, minions, skills | loaded once | `*DataManager.cpp`, `StageManager.cpp` |

**Who runs when.** One thread, the main one, calls `io_context.poll()`: packet
handlers, accepts and the completions of reads and writes run there, one after
the other. Then it runs a tick: `RoomManager::UpdateRooms` puts one
`Room::Update` per room into the thread pool and waits for all of them. So
handlers never overlap with updates, updates of different rooms overlap with
each other, and `Session::Send` is called from all of these threads. The whole
design rests on that barrier; `ThreadPool` is about it and every other module
uses it.

**What is hard.** (a) Membership is kept in four places (`Session::m_player`,
`Player::m_room`, `Room::m_players`, `Room::m_playerReady`) that separate calls
write, on sessions that may break at any moment, log in again or join from
inside a room. (b) The end of a wave is detected by callbacks of enemies in the
middle of the loops that move them, from a count that is a difference of two
sizes. (c) The right to write to a socket passes between threads. (d) The
barrier, its wakeups and its shutdown. (e) All rooms share the object pools, and
what may be reused is read off reference counts that other workers change.
(f) Packets have to be found in a byte stream that is cut anywhere, by a loop
that also drops what comes too fast. (g) Registration and login use a database
and a cache that fail between any two statements, and retry on new sessions.
(h) A minion keeps statistics, counters and flags that are computed from each
other at different times, in objects that are reused.

## 2. The modules

| module | models | implements |
|---|---|---|
| `RoomLife` | what a room promises: two seats, waves in order, empty means new | |
| `Lobby` | sessions, players, rooms; every handler and completion that changes them | `RoomLife`, for every room |
| `RoomTick` | one `Room::Update` step by step: spawn, move, die, arrive, attack, projectiles, reset | `RoomLife` |
| `OrderedChannel` | what `Session::Send` promises | |
| `SendQueue` | `Send`, `DoSend`, completions, `Disconnect`, with their threads | `OrderedChannel` |
| `TickBarrier` | what the main loop promises handlers and rooms | |
| `Gold` | the int a player's gold is, and what a `uint32_t` becomes in it | |
| `Shop` | what players may rely on when they spend gold | |
| `Board` | tiles, minions, gold: purchases, sales, moves, queued upgrades, rewards | `Shop` |
| `ThreadPool` | `UpdateRooms`, `ThreadPool`'s queue, condition variable, workers, destructor | `TickBarrier` |
| `Arena` | what rooms may rely on when they spawn things: all are new | |
| `ObjectPool` | `Acquire`, `Release`, reference counts, and all that changes them | `Arena` |
| `PacketStream` | what handlers may rely on about the packets of a client | |
| `Receive` | `Read`, `ProcessPackets`, the rate limiter | `PacketStream` |
| `Registry` | what clients may rely on when they register and log in | |
| `Account` | `Register` and `Login` statement by statement, MySQL, Redis, reconnects, restarts | `Registry` |
| `Minion` | stats, buffs, upgrades, attack counter and flags, attack or skill | |
| `LobbyProofs`, `RoomTickProofs`, `SessionProofs` (both halves of a session), `BoardProofs`, `ThreadPoolProofs`, `ObjectPoolProofs`, `AccountProofs`, `MinionProofs` | theorems about these modules | |
| `MC*` | values of the constants for TLC | |

`Lobby` and `RoomTick` are two views of a room that meet in `RoomLife`: `Lobby`
spells the handlers out and reduces the tick to `WaveOver` and `StageOver`;
`RoomTick` spells the tick out and reduces the handlers to `Join`, `StartWave`
and `Leave`. Both are shown to implement `RoomLife`, so what each assumes of the
other is what the other one does.

### Lobby

An action is a whole handler: it runs on the main thread, and a tick cannot
start before it returns. `Accept` is `TcpServer::StartAccept`; `Login`,
`JoinRoom`, `LoadScene`, `StartWave` are the handlers of these packets with the
functions they call (`Enter`, `PlayerReadyCheck`, `WaveStart`); `ReadFailed` and
`WriteFailed` are the two ways into `Session::Disconnect`; `WaveOver` and
`StageOver` are what a tick does to the lobby's view of a room. `lateRead`
stands for a read whose completion is already queued when a write fails: its
callback still runs, on a session that has been disconnected, and handles its
packets. `Joinable` is a set because `GetRoom` walks an unordered map.

`Polite` is the set of sessions whose client logs in once, asks for a room only
while it is in none, and whose connection does not fail between a completed read
and its callback. The others do all of that. Both kinds share the rooms: what
the invariants say holds of everybody, `NoGhosts` only of polite clients, in
spite of the others.

A client may ask for any stage id. For one that `StageManager` does not know,
`GetStage` returns null and `CreateRoom` makes, registers and returns a room all
the same: `StageIds` are the ids clients name, `Stages` those the catalogue
knows, and `stageOf` is `NoStage` for such a room. Its player may put it into a
wave, whose number stays 0 (`WaveManager::StartWave` returns early, after
`Room::WaveStart` has set the state); nothing spawns in it, so the wave does not
end. The next `JoinRoom` of anybody whose scan comes to it, in an order that is
that of an unordered map, dereferences the null stage in `Room::GetStageId`:
`Stageless` are these rooms, and `crashed` ends the run of the process, since no
property can be claimed of what follows. That it may happen is not hidden:
no property forbids it.

Left out: failed logins (they change nothing here), what is sent to whom.

### RoomTick

`pc` follows `Room::Update`: `WaveManager::Update`, `EnemyManager::Update`
(`todo` is the snapshot it walks, `current` the enemy between its debuffs and
its movement), `MinionManager::Update`, `ProjectileManager::Update`, and the
reset of a stage that ended on the way. `EnemyManager::Update` erases the queued
enemies only after the walk, so an enemy that died or arrived is in the map and
in `removeQueue` until then. Distances, speeds and timers become choices: an
enemy gets a waypoint further or does not, a shot meets an enemy or does not,
damage is any positive amount. `MaxEnemies` bounds the enemies of a stage.
`left` counts waypoints, and an enemy whose
waypoints are behind it reports its arrival in its next update, as in the code.
`MinionFires` and `MinionHits` stand for all attacks and skills of
all minions; which enemy they choose is any enemy of the map, dead or alive, as
`FindEnemyInRange` returns them. `HitEvents` turns on two kinds of hit events of
skills: damage over time and stun. Slowing is part of the choice to `Stay`; area
damage and executions are further hits while the minions are updated, and are
left out where a projectile causes them. The shipped `SkillData.json` has no hit
event at all.

The room has a stage; what is different without one is in `Lobby`.

`spawned`, which is `EnemyManager::m_nextInstanceId`, and the history variable
`earned` allow to say that every enemy counts once.

### SendQueue

A section under `m_sendMutex` is a step, and so is the call of `async_write`;
`write` is the operation in the hands of asio. `phase` alternates between the
poll, in which only the main thread runs, and the tick, in which only the
workers do. The buffer given to asio is the front element of the deque, by
address: `BufferStays` says it is not moved until the completion.

### Board

`SpawnMinion`, `Sell`, `RelocateMinion` and `UseGold` are whole handlers with the
functions of `Room`, `MinionManager` and `Player` that they call. An upgrade has
four steps, because it has in the code: `AskUpgrade` queues a command in the
handler and looks nothing up; `TakeCommands` is the swap at the start of the next
`Room::Update`; `CheckCommand` is everything the command looks at, up to the
comparison in `Player::TryUseGold`; `PayCommand` is the subtraction, a second
atomic operation, and what follows it. Steps of the updates of different rooms
interleave. Minions are kept by instance id and tiles by coordinate, and the way
from a minion back to its tile goes through its position, which is half the
tile's coordinate as a float: `ToPosition` and `ToTile` do that in quarters.
Minions are never renumbered, so `MaxMinions` bounds what is bought in a room.

Where a room is in its life follows `RoomLife` as in the other two views. One
kind of minion with one upgrade slot stands for all kinds and slots: prices and
maximum levels are constants of the model, and what an upgrade does to the stats
of a minion is in `Minion`. The rooms here have a stage.

Gold is an `int` (`Gold`: `IntMax` is the largest one). `UseGold` takes a
`uint32_t` from the packet and passes it on as an `int`, so `Uses` ranges over
`UIntRange` and `ToInt` is the conversion: a price of 2^31 or more is negative,
passes the comparison in `TryUseGold`, and its subtraction adds gold or wraps.
`Pay` and `AfterEarning` wrap as the hardware's `int` does (`std::atomic<int>`
is defined to).

`Polite` are the players who ask for a room only while they are in none and name
only prices that are an `int`. The others do as they like in the same rooms:
they may sit in two and pay in both at once, and may owe. `GoldNeverNegative` is
claimed of the polite ones. `Shop` knows both kinds: goods and their owners it
promises to everybody, and that gold and goods change together; that the gold of
a polite player is a number that never wraps, and that he pays nothing he has
not got, it promises to him. `MaxGold` keeps his gold below `IntMax`, which is
the assumption that no polite player ever earns 2^31 of it.

### ThreadPool

A section under `m_mutex` is a step; `notify_one` comes after the unlock and is
a step of its own. `Check` is the predicate of the wait with what follows it,
`SpuriousWakeup` is what a condition variable may do. `GameServer::Stop` is
modelled though nothing calls it in the server as it is: once the loop runs, it
is the only way to the destructor. The other one is a `Start` that fails
(`main.cpp:51-55`): the pool is then destroyed with no task ever enqueued, which
is what a `Stop` before the first tick amounts to here.

### ObjectPool

Rooms run through their updates at the same time, in the stages of `RoomTick`,
and in each of them spawn, sell, hit and remove as they like. `held` is what the
managers of a room have in their maps, `pending` what the three pools have
queued. Of the queue's order only depends which one of several unused objects is
taken, so it is a set and the choice is free. A loop that releases several
objects is one step: its local vector refers to all of them until the last one
is released, so that none can be taken out in between. What `use_count()` sees
is `Referenced`: the managers, and a projectile's target, owner, list of hits
and its attack callback, which captures the projectile itself. `ReturnToPool`
ends with a step of its own, `Reset`, because the projectile is in the pool by
then. `name` and `next` are history: they name what is spawned, so that the
refinement of `Arena` can say that nobody sees an old object for a new one.

`IsArena` holds *because* of the callback that captures its projectile (its
mutant is a callback that does not): without it a projectile could be taken out
by another room between `m_onReturn` and `Reset`, which would then reset a flying
projectile. `pool_leak` shows the price.

### Receive

A packet is the sequence of its fields, header first, and the network cuts the
stream into pieces of 1 to `Chunk` fields. One round of the loop in
`ProcessPackets` is a step, and time may pass between any two, because each
round reads the clock and handlers may be slow. A handler that throws is no
different from one that returns: the packet is removed. `WriteDisconnects` is the
disconnect from the sending side, after which a callback that is already queued
still processes its packets, as in `Lobby`. `log` records every packet taken off
the buffer, with the time and whether it was handled.

The limiter blocks at the `maxPacketsPerSecond`-th packet within a second, so
that fewer than that are handled (99 by default); a packet of an unknown type
ends the session even while it is blocked. `RateIsLimited` needs a block at
least as long as a second, which `GameServer::Start` enforces: the duration is in
whole seconds and 0 is refused (`GameServer.cpp:312-318`). The timestamps are
cleared when a block begins. `Popped` is how often the loop over
`m_packetTimestamps` calls `pop_front`: it stops at the first one that is not old.

Its definitions have names of their own (`ReceiveNext`, `reader` for the position
of its one thread of control), because `SessionProofs` extends both halves of a
session. They share no state: `WriteDisconnects` is all that one half does to the
other, and it may happen at any time.

### Account

Both calls run in a packet handler on the main thread, so there is one at a
time; but it consists of up to three statements, and between any two of them
something happens outside. `step` is the statement that comes next and
`attempt` the counter of `RunWithReconnect`, which tries each statement twice
and makes a new session in between. A SELECT fails by an exception. An INSERT
has three ways to: it was not executed; it was executed and its answer is lost
(`InsertUnanswered`); or it is still on its way when the session is gone, and
MySQL executes it later, perhaps after a row of somebody else (`lost`,
`LateInsert`). Every command to Redis may fail, with or without effect; entries
expire and may be damaged (`CacheGarbage` is the parse that throws). `Restart`
ends the server at any statement.

A request carries the login id and the password in arrays of 32 bytes, and
`RegisterHandler` reads each as a C string. `FullIds` and `FullPasswords` are
those that fill their array and leave no room for a NUL: such an id is read on
into the password (unless that is `Blank`), and such a password into whatever
follows the packet in memory, one of `Tails` or nothing (`ReadLoginId`,
`ReadPassword`). The table Users therefore has `Names` that are not login ids and
`Secrets` that are not passwords; `LoginHandler` reads at most 32 bytes and can
name neither. A packet that is too short is filled up with what the buffer holds
behind it, which makes it one of the requests there are.

An outcome is the answer as the client sees it. Where that matters is a
registration whose first statement fails twice: `AccountManager::Register`
returns false and sets no error, and `RegisterHandler` sends `ErrorCode::None`
with an empty UUID, byte for byte the answer to a registration that succeeded
(`FailedAnswer`).

`Registry` sees accounts, and calls with an outcome. What its `Next` allows is
what a client may conclude from an answer. `insert` of a call is history: whether
its row has been sent, and executed. A registration is answered with "ok" when it
has opened its account (`Open`), or when it has sent nothing at all
(`Unreached`), and never in between. `MaxLost` bounds the statements that linger.

Assumed of the table `Users`, which is not in the repository: `LoginId` is
unique and compared byte by byte (as the cache does; a collation that ignores
case would let a cache entry and a row differ), its columns hold what is read
from a request, and rows are neither changed nor deleted (no
statement of the server does). A password stands for itself, its salt and its
hash. `RedisManager::m_connected` is left out: `Login` does not read it.

### Minion

The minions of one room, as objects of the pool. Handlers, commands and the
end of a wave or stage change them between updates; `BeginUpdate` takes the
snapshot of `MinionManager::Update`, and each minion of it then has one turn:
`Pass`, `DefaultAttack`, `EnemyTargetSkill` or `MinionTargetSkill`, each
beginning with `Minion::Update`. An attack may kill the last enemy, so that the
wave ends, and `OnEndWave` resets all minions, in the middle of the walk
(`AfterAttack`): the attacker rests after that, and the minions still to come have
their turns in an intermission or at the end of the stage. `FindEnemyInRange`
returns the enemies of the map that are active, which the dead are until the
next `EnemyManager::Update` erases them and the pool resets them: these minions
still attack the dead and spend their skills on them, and with flags that are
older than the reset of their counters (`MayAttack` has no guard on the state).
The death of an enemy is reported once, so a second end of the wave does not
follow.

`cur` is `m_current` and `base` is `m_base`; `StatsAreCurrent` compares them.
Times are whole ticks and the amount of an upgrade is 1. A buff is a record with
the ticks it has left; `Buffed` keeps what the code does with the shipped ids:
4001 and 4003 are registered, others do nothing. Range, damage and projectile
data are left out, as in `RoomTick`. `crashed` is set where the code would call
a null strategy.

## 3. The runs

All numbers are distinct states.

| run | instance | shows |
|---|---|---|
| `lobby` | 3 sessions, 2 of them polite, 4 players, 2 rooms, 2 stage ids of which one is unknown, 2 waves (2.0M) | membership tables agree, occupancy, wave counter, ready flags, every room implements `RoomLife`, one without a stage that of no waves; polite players have their open session |
| `tick` | 2 players, waves of 3 enemies (2 entries) and of 1, 1 hit point, 2 arrivals break the wall, 1 projectile, stuns (3.8M) | waves end cleanly and when they should, every enemy counts once, the reset is complete, `RoomLife` is implemented |
| `tick_fair` | 1 player, one wave with 2 enemies of one entry, 1 projectile, burning (34k) | waves end, with damage over time as well |
| `tick_chase` | 1 player, two short waves, 1 projectile | *violation*: a chasing projectile never ends |
| `send_queue` | main and 2 workers, 2 packets each (32k) | one write at a time, buffers stay, an ordered channel, every packet arrives |
| `board` | 1 room, 2 players, 2 tiles, 2 minions, 2 commands waiting, one player polite, ints from -4 to 3 and prices of 1 and 6, which is -2 (800k) | tiles and minions agree, no level passes its maximum, no debts of the polite one, every command is answered, the board is a `Shop` |
| `minion` | 2 objects, 3 kinds: an instant skill, one of projectiles, one that buffs everybody in range (139k) | statistics are current, the attack counter is bounded, no skill without a strategy |
| `account` | 2 login ids, 2 passwords, one of each without a NUL, one tail, 2 statements lingering (361k) | the cache never knows more than the database, calls implement `Registry`, failures that look like success included, and end |
| `pool` | 2 rooms, 2 enemies, 2 minions, 1 projectile, 6 spawned in all, shots that chase and shots that pierce (2.1M) | no object is lost or in two places, reuse cannot be told |
| `pool_leak` | 1 room, 2 projectiles | *violation*: a projectile is made while an unused one waits |
| `receive` | packets of 2, 3 and 4 fields and one without a valid size, 4 sent, pieces of up to 3, 3 packets in 2 ticks, blocks of 3 ticks (328k) | packets are found whole and in order, the limiter limits, and lets slow clients through |
| `thread_pool` | 2 workers, 3 rooms, 2 ticks (15k) | barrier, one update per room and tick, no lost wakeup, the destructor returns |

**Bounds.** `MaxPlayers`, `MaxRooms` (objects that are created: the server has
no bound), `MaxSends`, `MaxTicks`, `Shots`, `MaxMinions`, `MaxAsked`, `MaxGold`,
`MaxLost`, `MaxName`, `MaxSent`, `MaxTime`, `MaxEnemies` are bounds of the model, and `IntMax` is a small one of a real one. Four players
for two rooms of two seats let a player be left behind in one room while it
plays in another and a third one take the free seat; two waves distinguish the
last wave from the others; three enemies in a wave that is not the last let the
wall fall while another one is still to arrive, two alive at a time are what the count and the
double removal need; two minions on two tiles, one of them negative, with gold
for one purchase and two upgrades make every request succeed in some state and
fail in another; ints of three bits are enough for a price that is negative, and
for gold that wraps in both directions; and two commands waiting let a minion be asked for twice, or be
sold while it waits; two workers and three rooms make tasks wait while
workers sleep and while they work; six spawned things let each room take out what
the other one gave back, and a projectile outlive its target and its owner; four
packets are three that are too fast and one after the block, and a piece of three
fields cuts every packet in every place, or joins two; two login ids and two
passwords, one of each unterminated, make every comparison come out both ways, and
a row that no login can name; and two minions are a caster
and another target, or one that ends the wave before the other's turn. What must not
depend on the bounds is proved (section 5).

**Deadlock** is checked everywhere but in `lobby` and in `receive`: once
every session is closed and the bounds are used up they may stop.

**Fairness.** `RoomTick`: the main loop never stops updating (`WF` of
`Update`); a spawn delay passes because every tick adds to the elapsed time; an
enemy moves by speed times time (`SF` of `SpawnNextEnemy`, `Advance`, `Arrive`:
each is enabled once per tick, not continuously). Stuns are off in `tick_fair`:
whether a stun may be renewed for ever is a matter of data. `tick_chase` also
grants that a shot that flies straight reaches the end of its duration and that a
chasing one reaches an enemy that lives (`ShotFairSpec`): its counterexample
needs neither to fail. `SendQueue`: threads
run, the loop goes round, a write ends one way or the other, and a completion
that is ready runs in some poll (`SF`, because the phase switches).
`Board`: the main loop goes
round and the worker that updates a room gets on; players need do nothing.
`ThreadPool`: each thread that can run does; spurious wakeups are not relied on.
`Receive`: what was sent arrives in pieces of some size, and the main loop polls;
that time passes is not needed. `Account`: every statement and every command to
Redis returns or throws (`WF` of `Proceed`); that it ever succeeds is not needed.

## 4. Findings

1. `tick_chase`: `Projectile::Chase` gives a shot up when its target is not
   active (`Projectile.cpp:460`), but an enemy that died or arrived stays active
   until the pool resets it for reuse, which it does not while the projectile
   refers to it. The shot stays where its target was last. The comment above the
   test says it ends.
2. `pool_leak`: the attack callback of a projectile captures the projectile
   (`Room.cpp:862`) and nothing clears it, so `use_count()` is never 1 again: the
   pool makes a new projectile for every shot and keeps all old ones, against
   `README.md:990`. One that is cleared away in flight also keeps its target and
   owner from being reused.

Seen while reading and modelling, without a run of their own:

- An enemy killed by damage over time is moved all the same and may arrive dead
  (`Enemy.cpp:92`): it costs the wall, and counts twice in the remove queue, so
  that the wave ends over a living enemy. Not reachable with the shipped skills.
  `MCRoomTick.cfg` with `HitEvents = {"burn"}` and `EnemyHp = 2` shows it as a
  violation of `WaveEndsClean`.
- A client that asks for an unknown stage id gets a room without a stage
  (`RoomManager.cpp:46`), and a `JoinRoom` after that, of any client, ends the
  server if its scan comes to that room (`Room.h:58-61`). `Lobby`
  models it; an invariant `~crashed` is violated in `MCLobby.cfg` by a client that
  logs in and joins twice.
- `UseGold` takes a `uint32_t` (`PlayerPacket.h:10`) for an `int`
  (`UseGoldHandler.cpp:29`): with a price of 2^31 or more the gold grows or wraps.
- `Player::TryUseGold` compares and subtracts in two operations
  (`Player.cpp:17`); `README.md:1022` shows a compare-and-swap loop. It matters
  for a player that sits in two rooms, which `JoinRoom` allows. These two are the
  only ways into debt: `BoardNoDebt` proves that a player who uses neither has
  none, whatever the others do.
- The flag a `LoadScene` sets counts for a `StartWave` of the other player, who
  then starts a wave alone (`LoadSceneHandler.cpp:33`, `WaveHandler.cpp:26`).
- The StartWave handler looks neither at the room's state nor at the number of
  players (`WaveHandler.cpp:26`), though `README.md:580` says that two players
  must be ready; `GetRoom` does not prefer a room in which somebody waits
  (`RoomManager.cpp:99`).
- `AccountManager::Register` returns false without setting an error when MySQL
  cannot be reached (`AccountManager.cpp:37`), and the client reads the answer to
  a registration that succeeded. An id of 32 bytes without a NUL opens an account
  named by id and password together (`RegisterHandler.cpp:29`), which no login can
  name. An INSERT that is tried again
  after its answer was lost fails on its own row, and the client is told of an
  internal error though the account exists: `Registry` allows that outcome and
  no worse one.
- `GameServer::Start` returns a `bool`, and -1 on most of its failures, which is
  true (`GameServer.cpp:287, 343, 355, 363, 373, 383, 393`): the server then runs
  without listening.
- The ready flags of a minion outlive the wave and the object
  (`Room.cpp:819`, `Minion.cpp:83`): a new minion may fire at once.
  `SpawnProjectile` reads speed and type through getters that look at
  `m_skillIsReady`, which has been cleared by then, so that the projectile of a
  skill flies as a default one. A wave that ends in the middle of the minions'
  update leaves later buffs in place for the intermission. `AddMaxTargetsBuff`
  adds to the attack speed (`Minion.h:126`). `OnHitEvents` and `OnKillEvents`
  index the data by the position among the events that are known, though unknown
  ones were skipped (`Minion.cpp:243, 214`).

## 5. What is proved

`LobbyProofs`, from `BoundsAssumption` only and for clients of any kind:

- `LobbyInv`: `TypeOK`, `MembershipMirror`, `RoomOccupancy` and
  `WaveMatchesState` together are inductive with `FreshRooms`, which says that a
  room not made yet is empty and has no stage. Neither of the last two invariants
  is so alone: `StartWave` finds its room through `Player::m_room`, and only
  `MembershipMirror` tells that somebody sits there; `StartWave` in a waiting
  room counts from the wave a reset has left, and a room of an unknown stage never
  gets to an intermission because nobody joins its first player. One step per action; what `Enter`,
  `Leave`, `PlayerReadyCheck` and `WaveStart` do to a room are lemmas, used
  wherever a handler calls them.
- `LobbyWaveNeedsEveryone`: the only step that raises a wave counter is a
  `StartWave` that completes the ready flags, and it uses all of them up. Who set
  the others it does not say: `LoadScene` sets them as well.
- `LobbyRoomsLive`: every room implements `RoomLife`, for `NumWaves` waves if it
  has a stage and for none if it has not; each action is a step of one room and a
  stutter of all the others.

`SessionProofs`, for any number of threads and packets:

- `SendQueueInv`: the token invariants, strengthened by `PhaseInv` (workers run
  only in ticks, the main thread only in polls, nobody takes the token between
  a failed write and its `Disconnect`).
- `SendQueueBufferStays`, and `SendQueueIsOrderedChannel`: the refinement, under
  the mapping that hides the packet whose bytes are already gone.

and for any set of packets, size of a read, limit and duration of a block that
`ReceiveAssumption` allows (the block lasts a second or more, a packet declares
its size or less than a header):

- `ReceiveTypes`: `ReceiveTypeOK` is inductive by itself.
- `ReceiveRateIsLimited` and `ReceiveOnlyFastOnesDropped`. Neither is inductive:
  what the limiter looks at, the timestamps, is not what the properties speak of,
  the log. `RateInv` ties them together by a function from timestamps to entries of
  the log (`Counted`): it is injective, each timestamp is the time of its entry, and
  an entry that was handled and has no timestamp is older than a second, or the
  block that cleared its timestamp has pushed `blockedUntil` a second behind it.
  The limit is then a matter of counting: the handled entries of a second are no
  more than the recent timestamps, and a block is based on as many entries as there
  are. `BlockedByFast` keeps why a session is blocked as long as it is.
- `ReceivePacketsAreWhole` and `ReceiveIsStream`. `StreamInv` says that buffer,
  pending read and network, put behind each other (`Stream`), are the packets that
  have not been taken off: there is a function `at` (`Framing`) that gives where each
  packet ends, so that nothing has to be unrolled over the stream. A read changes
  none of it, wherever it cuts; a packet that is taken off is the one the stream
  begins with, because its first field is its size; and one that is refused is
  never passed. Every step is then one of `PacketStream` or a stutter.

`BoardProofs`, from `BoardAssumption`:

- `BoardInv`: `TypeOK` and `TilesMirrorMinions` are not inductive alone. A new
  minion could overwrite an old one, so ids must be fresh (`IdsAreFresh`); an
  upgrade raises a level that was compared a step earlier, so between the two
  the minion must still be there, owned by the one who pays and below its
  maximum (`PayInv`): it is, because only the worker of the room changes its
  minions while the barrier keeps handlers out.
- `BoardNoDebt` and `BoardIsShop`, for any set of polite players among others:
  the minions of a polite player all stand in one room (`OneRoom`), so the gold a
  worker has compared with the price (`PayerCanPay`) is not touched by another
  worker, but for rewards, which only add. Every step is then a step of `Shop` or a
  stutter: an upgrade happens when it is paid, moving a minion is no step at all.
  Polite or not, `ToIntIsInt` keeps every balance an `int`, and `ToIntKeeps` says
  that nothing wraps for a polite player.

`AccountProofs`, from `AccountAssumption`:

- `AccountTypes`: an entry of the cache is garbage or the row of its id, which
  is inductive because rows never change and an entry is only made of a row just
  read.
- `AccountIsRegistry`: every step is one of `Registry` or a stutter. `StepInv`
  ties the next statement to the call it is made for: a password that was
  accepted is the row's, and until the `INSERT` is sent the call has not opened
  the account, so that a row `Count` finds is somebody else's, and a failed `Ping`,
  which is answered like a success, has left nothing behind.

`MinionProofs`, from `MinionAssumption`:

- `MinionTypes` bounds the attack counter, which is not inductive by itself: no
  upgrade lifts the maximum above the data's, and a minion whose counter has
  reached that is not ready for an attack without being ready for its skill,
  which spends the counter.
- `MinionStatsAreCurrent`: `UpdateStats` recalculates only if a buff has run out,
  so it has to be shown that buffs that only get older leave every statistic as it
  was (`OlderCounts`), and that everything else that touches base, slots or
  buffs recalculates before the step ends. The sums over buffs are compared through
  their values and never computed, so no induction is needed.
- `MinionSkillHasStrategy`: the flag and the kind of skill decide the handler
  together, in `GetTargetType` and in `OnEnemyTarget`, so that a stale flag
  fires early but never the wrong way.

`ThreadPoolProofs`: what a tick still owes is what is to be enqueued, is in the
queue, or is with a worker. These three are disjoint, no room is twice in any of
them, and a room's future becomes ready only with its update
(`ThreadPoolInv`); so `futures` are all ready exactly when every room of the tick
has been updated once, which is the step of `TickBarrier`
(`ThreadPoolIsBarrier`).

`ObjectPoolProofs`: `EveryObjectHasOnePlace` is not inductive, since `Acquire`
takes what only the queue refers to. `HeldAreActive` says that the projectiles of
a room are active, so that the erase of inactive ones in
`ProjectileManager::Update`, which gives nothing back, finds none;
`ReturningIsKept` says that a projectile between `m_onReturn` and `Reset` is
queued and still captured by its callback, so that no other worker takes it out.

`ObjectPoolIsArena`: rooms see `Things` and `Shots`, by the names given when
something is spawned. `NameInv` says that no two objects have one name and that the
next name is new; `RefsMade`, that projectiles refer to nothing but objects that
were made. An object that is taken out gets another name, and a shot that refers to
it would then seem to refer to something new; none does, since `Acquire` takes only
what nothing refers to. Each step is a step of `Arena` or a stutter; what another
worker does to a projectile on its way back is done to one that no room holds.

`RoomTickProofs`, for skills that do not burn (with those that do, the theorems
are false, see section 4):

- `RoomTickInv` has four parts beside the types: who is in the map and not queued
  for removal is alive (`QueueInv`); the walk over the enemies is at a living one
  and has not queued those it still visits (`WalkInv`); the map is the living and
  the queued, and every enemy is settled once (`CountInv`); what the state of the
  stage says about spawning, enemies, the wall and the pending reset (`StageInv`).
- From it: `AliveCountIsExact`, `WaveEndsClean`, `WaveCanEnd`,
  `EveryEnemySettledOnce`, `WaitingRoomIsReset`, and `RoomTickLife`, the
  refinement of `RoomLife`. With `LobbyRoomsLive` both views of a room are proved
  to be views of the same one.

`LobbyNoGhosts`: for every polite session the tables stand in one of a few
relations (`PolitePlayer`), whatever the impolite ones do.

Every safety property of a passing run is thus a theorem. Only model-checked are
the liveness properties, because fairness and `ENABLED` are out of the prover's
reach: `EveryWaveEnds`, `EveryPacketArrives`, `EveryCommandRuns`, `EveryCallEnds`,
`EveryPacketTaken`, `EveryTickEnds` and `PoolIsJoined`, and that nothing deadlocks.

Induction over data is out of reach as well, since the theorems of the library take
an operator as their parameter. What is used in its place: the least element of a
set of naturals (`LeastNatural`, from `WFMin`), where a loop stops at the first
element of some kind; functions that are part of an invariant and grow with the
state (`Framing`, `Counted`), where a value is the result of many steps; and
surjections and injections (`AtMostSoMany`, `AtLeastSoMany`), where things are
counted.

## 6. Not modelled

- **What is sent to whom.** No state depends on the content of a broadcast.
- **Geometry.** Paths, ranges, speeds and collisions are choices in `RoomTick`
  and `Minion`: floating-point code without state of its own, whose outcomes the
  properties do not tell apart.
- **Hit events** other than damage over time and stuns: slowing is part of the
  choice to stay, executions and area damage are further hits; where a projectile
  causes area damage, that is left out. The shipped data has no hit event.
- **Packet codec**: straight-line copies; what wrong sizes do to a reader is in
  `Receive`.
- **Boot and static data**: run once before anything else, and only read; their
  results are constants. `GameServer::Run` is modelled where it matters.
- **Exceptions in an update**: `future.get()` would rethrow one in the main loop,
  which has no handler; nothing that an update calls throws, short of the
  allocator.
- **Logging, hashing, tokens**: pure I/O and cryptography.
- **Vendored libraries** (`vcpkg_installed`): asio, MySQL Connector, redis-plus-plus
  and nlohmann/json appear only as the code uses them, marked external.
