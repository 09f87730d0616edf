----------------------------- MODULE ThreadPool -----------------------------
(***************************************************************************)
(* The main loop and the pool of workers: GameServer::Run polls (handlers   *)
(* create rooms), then TickManager::Update calls RoomManager::UpdateRooms,  *)
(* which enqueues one update per room and waits for all of them.            *)
(* ThreadPool is modelled with its queue, its condition variable and its    *)
(* destructor; a section under m_mutex is one step, and a wait on the       *)
(* condition gives the mutex up and goes to sleep in one step.              *)
(***************************************************************************)
EXTENDS Naturals, Sequences, FiniteSets, SequencesExt

CONSTANTS
  Workers,   \* the threads of the pool
  Rooms,     \* rooms that may be created
  MaxTicks,  \* bound: number of ticks
  NoRoom

ASSUME PoolAssumption ==
  Workers # {} /\ IsFiniteSet(Workers) /\ IsFiniteSet(Rooms)
  /\ NoRoom \notin Rooms /\ MaxTicks \in Nat

VARIABLES
  rooms,    \* keys of RoomManager::m_rooms
  main,     \* where the main thread is
  toAdd,    \* rooms of the snapshot that are not enqueued yet
  futures,  \* rooms whose future UpdateRooms holds
  ready,    \* rooms whose future of this tick is ready
  running,  \* GameServer::m_running
  tasks,    \* ThreadPool::m_tasks, by the room a task updates
  stop,     \* ThreadPool::m_stop
  pc,       \* where a worker is: "check", "asleep", "task", "exited"
  task,     \* the room whose update a worker runs
  updates,  \* number of updates of each room (history)
  ticks     \* number of ticks (history)

mainVars == <<rooms, main, toAdd, futures, running, stop, ticks>>
workerVars == <<pc, task>>
vars == <<mainVars, ready, tasks, workerVars, updates>>

Init ==
  /\ rooms = {}
  /\ main = "poll"
  /\ toAdd = {} /\ futures = {} /\ ready = {}
  /\ running = TRUE
  /\ tasks = <<>>
  /\ stop = FALSE
  /\ pc = [w \in Workers |-> "check"]
  /\ task = [w \in Workers |-> NoRoom]
  /\ updates = [r \in Rooms |-> 0]
  /\ ticks = 0

-----------------------------------------------------------------------------
(* The main thread *)

\* A handler calls RoomManager::CreateRoom.
CreateRoom(r) ==
  /\ main = "poll"
  /\ r \notin rooms
  /\ rooms' = rooms \cup {r}
  /\ UNCHANGED <<main, toAdd, futures, running, stop, ticks, ready, tasks,
                 workerVars, updates>>

\* GameServer::Stop, which nothing in the server calls yet.
Stop ==
  /\ main = "poll"
  /\ running
  /\ running' = FALSE
  /\ UNCHANGED <<rooms, main, toAdd, futures, stop, ticks, ready, tasks,
                 workerVars, updates>>

\* poll() returns; UpdateRooms copies the list of rooms.
BeginTick ==
  /\ main = "poll"
  /\ ticks < MaxTicks
  /\ ticks' = ticks + 1
  /\ toAdd' = rooms
  /\ futures' = {} /\ ready' = {}
  /\ main' = "enqueue"
  /\ UNCHANGED <<rooms, running, stop, tasks, workerVars, updates>>

\* Mutant: UpdateRooms does not keep the future of a task.
PushTask_NoFuture(r) ==
  /\ main = "enqueue"
  /\ r \in toAdd
  /\ tasks' = Append(tasks, r)
  /\ toAdd' = toAdd \ {r}
  /\ main' = "notify"
  /\ UNCHANGED <<rooms, futures, running, stop, ticks, ready, workerVars, updates>>

\* ThreadPool::Enqueue up to the end of its locked section ...
PushTask(r) ==
  /\ main = "enqueue"
  /\ r \in toAdd
  /\ tasks' = Append(tasks, r)
  /\ toAdd' = toAdd \ {r}
  /\ futures' = futures \cup {r}
  /\ main' = "notify"
  /\ UNCHANGED <<rooms, running, stop, ticks, ready, workerVars, updates>>

Asleep == {w \in Workers : pc[w] = "asleep"}

\* Mutant: Enqueue does not notify.
NotifyOne_Nobody ==
  /\ main = "notify"
  /\ main' = "enqueue"
  /\ UNCHANGED <<rooms, toAdd, futures, running, stop, ticks, ready, tasks,
                 workerVars, updates>>

\* ... and notify_one after it: one sleeper, if there is any, wakes up.
NotifyOne ==
  /\ main = "notify"
  /\ main' = "enqueue"
  /\ IF Asleep = {}
     THEN UNCHANGED pc
     ELSE \E w \in Asleep : pc' = [pc EXCEPT ![w] = "check"]
  /\ UNCHANGED <<rooms, toAdd, futures, running, stop, ticks, ready, tasks, task, updates>>

AllEnqueued ==
  /\ main = "enqueue" /\ toAdd = {}
  /\ main' = "await"
  /\ UNCHANGED <<rooms, toAdd, futures, running, stop, ticks, ready, tasks,
                 workerVars, updates>>

\* The main thread has got past update.get() for every future; Run looks at
\* m_running before it polls again.
EndTick ==
  /\ main = "await" /\ futures \subseteq ready
  /\ main' = IF running THEN "poll" ELSE "destroy"
  /\ UNCHANGED <<rooms, toAdd, futures, running, stop, ticks, ready, tasks,
                 workerVars, updates>>

\* Mutant: the destructor does not notify the sleepers.
StopPool_NoNotify ==
  /\ main = "destroy"
  /\ stop' = TRUE
  /\ main' = "join"
  /\ UNCHANGED <<rooms, toAdd, futures, running, ticks, ready, tasks, workerVars, updates>>

\* ~ThreadPool: stop, notify all ...
StopPool ==
  /\ main = "destroy"
  /\ stop' = TRUE
  /\ pc' = [w \in Workers |-> IF pc[w] = "asleep" THEN "check" ELSE pc[w]]
  /\ main' = "join"
  /\ UNCHANGED <<rooms, toAdd, futures, running, ticks, ready, tasks, task, updates>>

\* ... and join.
Joined ==
  /\ main = "join" /\ \A w \in Workers : pc[w] = "exited"
  /\ main' = "gone"
  /\ UNCHANGED <<rooms, toAdd, futures, running, stop, ticks, ready, tasks,
                 workerVars, updates>>

-----------------------------------------------------------------------------
(* WorkerLoop *)

\* Under the mutex: the predicate of the wait, and what follows from it.
Check(w) ==
  /\ pc[w] = "check"
  /\ \/ /\ tasks # <<>>
        /\ task' = [task EXCEPT ![w] = Head(tasks)]
        /\ tasks' = Tail(tasks)
        /\ pc' = [pc EXCEPT ![w] = "task"]
     \/ /\ tasks = <<>> /\ stop
        /\ pc' = [pc EXCEPT ![w] = "exited"]
        /\ UNCHANGED <<task, tasks>>
     \/ /\ tasks = <<>> /\ ~stop
        /\ pc' = [pc EXCEPT ![w] = "asleep"]
        /\ UNCHANGED <<task, tasks>>
  /\ UNCHANGED <<mainVars, ready, updates>>

\* A condition variable may wake a thread for no reason.
SpuriousWakeup(w) ==
  /\ pc[w] = "asleep"
  /\ pc' = [pc EXCEPT ![w] = "check"]
  /\ UNCHANGED <<mainVars, ready, tasks, task, updates>>

\* The task returns: room->Update(deltaTime) is done and its future is ready.
TaskDone(w) ==
  LET r == task[w] IN
  /\ pc[w] = "task"
  /\ updates' = [updates EXCEPT ![r] = @ + 1]
  /\ ready' = ready \cup {r}
  /\ task' = [task EXCEPT ![w] = NoRoom]
  /\ pc' = [pc EXCEPT ![w] = "check"]
  /\ UNCHANGED <<mainVars, tasks>>

-----------------------------------------------------------------------------
\* The server is gone, or has made as many ticks as the bound allows.
Done ==
  /\ main = "gone" \/ (main = "poll" /\ ticks = MaxTicks)
  /\ UNCHANGED vars

MainStep ==
  \/ BeginTick \/ (\E r \in Rooms : PushTask(r)) \/ NotifyOne \/ AllEnqueued
  \/ EndTick \/ StopPool \/ Joined

WorkerStep(w) == Check(w) \/ TaskDone(w)

Next ==
  \/ \E r \in Rooms : CreateRoom(r)
  \/ Stop \/ MainStep
  \/ \E w \in Workers : WorkerStep(w) \/ SpuriousWakeup(w)
  \/ Done

Spec == Init /\ [][Next]_vars

\* Every thread that can run does, in the end; nobody relies on wakeups that
\* are not due to a notification.
FairSpec ==
  Spec /\ WF_vars(MainStep) /\ \A w \in Workers : WF_vars(WorkerStep(w))

-----------------------------------------------------------------------------
(* Properties *)

Ticking == main \in {"enqueue", "notify", "await"}

\* Rooms whose update a worker is running, and rooms whose update waits.
Running == {task[w] : w \in {v \in Workers : pc[v] = "task"}}
Queued == Range(tasks)

\* Handlers run alone: while the main thread polls, and when it destroys the
\* pool, no update waits or runs, so they need no lock against an update.
HandlersRunAlone == ~Ticking => Queued = {} /\ Running = {}

\* A room is updated by one worker at a time and is in the queue at most once;
\* it is not in both, and not once its future is ready.
OneUpdatePerRoom ==
  /\ \A v, w \in Workers : pc[v] = "task" /\ pc[w] = "task" /\ task[v] = task[w] => v = w
  /\ \A i, j \in DOMAIN tasks : tasks[i] = tasks[j] => i = j
  /\ Queued \cap Running = {} /\ ready \cap (Queued \cup Running) = {}

\* The pool and the loop around it implement the barrier: no room is skipped
\* by a tick or updated twice in it, and no tick ends early.
Barrier == INSTANCE TickBarrier WITH
  ticking <- Ticking,
  pending <- IF Ticking THEN (toAdd \cup futures) \ ready ELSE {}

IsBarrier == Barrier!Spec

\* A tick that begins ends: no update is left in the queue with all workers
\* asleep (a notification may meet no sleeper), and the main thread does not
\* wait for ever.
EveryTickEnds == Ticking ~> ~Ticking

\* Once Stop was called and a tick follows, the destructor returns: every
\* worker sees m_stop and exits.
PoolIsJoined == main = "destroy" ~> main = "gone"

=============================================================================
