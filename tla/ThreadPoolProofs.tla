-------------------------- MODULE ThreadPoolProofs --------------------------
(***************************************************************************)
(* For any number of workers and rooms the pool and the loop around it      *)
(* implement the barrier that every handler relies on.                      *)
(***************************************************************************)
EXTENDS ThreadPool, TLAPS

MainStates == {"poll", "enqueue", "notify", "await", "destroy", "join", "gone"}
WorkerStates == {"check", "asleep", "task", "exited"}

Types ==
  /\ rooms \subseteq Rooms
  /\ main \in MainStates
  /\ toAdd \subseteq Rooms /\ futures \subseteq Rooms /\ ready \subseteq Rooms
  /\ tasks \in Seq(Rooms)
  /\ pc \in [Workers -> WorkerStates]
  /\ task \in [Workers -> Rooms \cup {NoRoom}]
  /\ \A w \in Workers : pc[w] = "task" => task[w] \in Rooms
  /\ updates \in [Rooms -> Nat]

\* What a tick still owes is a room that is not enqueued, waits or runs, and
\* only one of the three; the futures are the rooms that were enqueued.
TickInv ==
  /\ Ticking => futures \ ready = Queued \cup Running
  /\ Ticking => toAdd \cap futures = {} /\ ready \subseteq futures
  /\ main = "await" => toAdd = {}

Inv == Types /\ OneUpdatePerRoom /\ HandlersRunAlone /\ TickInv

-----------------------------------------------------------------------------
(* The queue *)

\* Enqueue puts one room behind the others.
LEMMA QueuedAppend ==
  ASSUME NEW s \in Seq(Rooms), NEW r \in Rooms
  PROVE  /\ Append(s, r) \in Seq(Rooms)
         /\ Range(Append(s, r)) = Range(s) \cup {r}
         /\ (\A i, j \in DOMAIN s : s[i] = s[j] => i = j) /\ r \notin Range(s)
              => \A i, j \in DOMAIN Append(s, r) : Append(s, r)[i] = Append(s, r)[j] => i = j
<1> DEFINE a == Append(s, r)
<1>1. a \in Seq(Rooms) /\ Len(a) = Len(s) + 1 /\ Len(s) \in Nat
  OBVIOUS
<1>2. DOMAIN a = 1 .. Len(s) + 1 /\ DOMAIN s = 1 .. Len(s)
  OBVIOUS
<1>3. a[Len(s) + 1] = r /\ \A i \in 1 .. Len(s) : a[i] = s[i]
  OBVIOUS
<1> HIDE DEF a
<1>4. Range(a) = Range(s) \cup {r}
  <2>1. ASSUME NEW x \in Range(a) PROVE x \in Range(s) \cup {r}
    <3>1. PICK i \in 1 .. Len(s) + 1 : x = a[i]
      BY <1>2 DEF Range
    <3>2. i = Len(s) + 1 \/ i \in 1 .. Len(s)
      BY <1>1
    <3>3. QED
      BY <3>1, <3>2, <1>2, <1>3 DEF Range
  <2>2. ASSUME NEW x \in Range(s) PROVE x \in Range(a)
    <3>1. PICK i \in 1 .. Len(s) : x = s[i]
      BY <1>2 DEF Range
    <3>2. i \in 1 .. Len(s) + 1 /\ x = a[i]
      BY <3>1, <1>1, <1>3
    <3>3. QED
      BY <3>2, <1>2 DEF Range
  <2>3. r \in Range(a)
    <3>1. Len(s) + 1 \in DOMAIN a /\ a[Len(s) + 1] = r
      BY <1>1, <1>2, <1>3
    <3>2. QED
      BY <3>1 DEF Range
  <2>4. QED
    BY <2>1, <2>2, <2>3
<1>5. ASSUME \A i, j \in DOMAIN s : s[i] = s[j] => i = j, r \notin Range(s),
             NEW i \in DOMAIN a, NEW j \in DOMAIN a, a[i] = a[j]
      PROVE  i = j
  <2>1. \A k \in 1 .. Len(s) : s[k] # r
    BY <1>5, <1>2 DEF Range
  <2>2. QED
    BY <1>1, <1>2, <1>3, <1>5, <2>1
<1>6. QED
  BY <1>1, <1>4, <1>5 DEF a

\* A worker takes the first room, and nothing else.
LEMMA QueuedTail ==
  ASSUME NEW s \in Seq(Rooms), s # <<>>,
         \A i, j \in DOMAIN s : s[i] = s[j] => i = j
  PROVE  /\ Head(s) \in Rooms /\ Tail(s) \in Seq(Rooms)
         /\ Range(Tail(s)) = Range(s) \ {Head(s)} /\ Head(s) \in Range(s)
         /\ \A i, j \in DOMAIN Tail(s) : Tail(s)[i] = Tail(s)[j] => i = j
<1> DEFINE u == Tail(s)
<1>1. /\ Len(s) \in Nat /\ Len(s) > 0 /\ Head(s) = s[1]
      /\ u \in Seq(Rooms) /\ Len(u) = Len(s) - 1
  OBVIOUS
<1>2. DOMAIN s = 1 .. Len(s) /\ DOMAIN u = 1 .. Len(s) - 1
  BY <1>1
<1>3. \A i \in 1 .. Len(s) - 1 : u[i] = s[i + 1]
  OBVIOUS
<1>4. Head(s) \in Rooms
  OBVIOUS
<1> HIDE DEF u
<1>5. 1 \in DOMAIN s /\ Head(s) \in Range(s)
  BY <1>1, <1>2 DEF Range
<1>6. Range(u) = Range(s) \ {Head(s)}
  <2>1. ASSUME NEW x \in Range(u) PROVE x \in Range(s) \ {Head(s)}
    <3>1. PICK i \in 1 .. Len(s) - 1 : x = u[i]
      BY <1>2 DEF Range
    <3>2. i + 1 \in DOMAIN s /\ i + 1 # 1 /\ x = s[i + 1]
      BY <3>1, <1>1, <1>2, <1>3
    <3>3. x # s[1]
      BY <3>2, <1>5
    <3>4. QED
      BY <3>2, <3>3, <1>1 DEF Range
  <2>2. ASSUME NEW x \in Range(s), x # Head(s) PROVE x \in Range(u)
    <3>1. PICK i \in 1 .. Len(s) : x = s[i]
      BY <1>2 DEF Range
    <3>2. i - 1 \in 1 .. Len(s) - 1 /\ (i - 1) + 1 = i
      BY <3>1, <2>2, <1>1
    <3>3. i - 1 \in DOMAIN u /\ u[i - 1] = x
      BY <3>1, <3>2, <1>2, <1>3
    <3>4. QED
      BY <3>3 DEF Range
  <2>3. QED
    BY <2>1, <2>2
<1>7. ASSUME NEW i \in DOMAIN u, NEW j \in DOMAIN u, u[i] = u[j] PROVE i = j
  <2>1. i + 1 \in DOMAIN s /\ j + 1 \in DOMAIN s /\ s[i + 1] = s[j + 1]
    BY <1>1, <1>2, <1>3, <1>7
  <2>2. i + 1 = j + 1 /\ i \in Int /\ j \in Int
    BY <2>1, <1>2
  <2>3. QED
    BY <2>2
<1>8. QED
  BY <1>1, <1>4, <1>5, <1>6, <1>7 DEF u

\* A worker that starts or stops anything but a task leaves Running alone.
LEMMA RunningSame ==
  ASSUME \A w \in Workers : (pc'[w] = "task") = (pc[w] = "task"),
         \A w \in Workers : pc[w] = "task" => task'[w] = task[w]
  PROVE  Running' = Running
BY DEF Running

-----------------------------------------------------------------------------
(* The invariant *)

LEMMA InitInv == Init => Inv
<1> SUFFICES ASSUME Init PROVE Inv
  OBVIOUS
<1>1. <<>> \in Seq(Rooms) /\ DOMAIN tasks = {}
  BY DEF Init
<1>2. Types
  BY <1>1 DEF Init, Types, MainStates, WorkerStates
<1>3. Queued = {} /\ Running = {}
  BY <1>1 DEF Init, Queued, Running, Range
<1>4. OneUpdatePerRoom
  BY <1>1, <1>3 DEF Init, OneUpdatePerRoom
<1>5. HandlersRunAlone /\ TickInv
  BY <1>3 DEF Init, HandlersRunAlone, TickInv, Ticking
<1>6. QED
  BY <1>2, <1>4, <1>5 DEF Inv

\* The steps that leave tasks, running updates and finished updates as they are.
QuietStep ==
  /\ tasks' = tasks /\ ready' = ready /\ Running' = Running
  /\ \A w \in Workers : (pc'[w] = "task") = (pc[w] = "task")
  /\ \A w \in Workers : pc[w] = "task" => task'[w] = task[w]

LEMMA QuietOne ==
  ASSUME OneUpdatePerRoom, QuietStep
  PROVE  OneUpdatePerRoom' /\ Queued' = Queued
<1>1. Queued' = Queued
  BY DEF QuietStep, Queued
<1>2. \A v, w \in Workers : pc'[v] = "task" /\ pc'[w] = "task" /\ task'[v] = task'[w] => v = w
  BY DEF QuietStep, OneUpdatePerRoom
<1>3. \A i, j \in DOMAIN tasks' : tasks'[i] = tasks'[j] => i = j
  BY DEF QuietStep, OneUpdatePerRoom
<1>4. QED
  BY <1>1, <1>2, <1>3 DEF QuietStep, OneUpdatePerRoom

LEMMA QuietInv ==
  ASSUME Inv, QuietStep, Types', Ticking' = Ticking,
         toAdd' = toAdd /\ futures' = futures, main' = "await" => toAdd = {}
  PROVE  Inv'
<1>1. OneUpdatePerRoom' /\ Queued' = Queued
  BY QuietOne DEF Inv
<1>2. HandlersRunAlone'
  BY <1>1 DEF Inv, QuietStep, HandlersRunAlone
<1>3. TickInv'
  BY <1>1 DEF Inv, QuietStep, TickInv
<1>4. QED
  BY <1>1, <1>2, <1>3 DEF Inv

LEMMA CreateInv == ASSUME Inv, NEW r \in Rooms, CreateRoom(r) PROVE Inv'
<1>1. Types'
  BY DEF Inv, Types, CreateRoom, workerVars
<1>2. QuietStep /\ Ticking' = Ticking
  BY RunningSame DEF CreateRoom, QuietStep, workerVars, Ticking
<1>3. QED
  BY <1>1, <1>2, QuietInv DEF CreateRoom

LEMMA BeginInv == ASSUME Inv, BeginTick PROVE Inv'
<1>1. Types'
  BY DEF Inv, Types, BeginTick, workerVars, MainStates
<1>2. Queued' = {} /\ Running' = {} /\ Queued = {} /\ Running = {}
  BY DEF Inv, HandlersRunAlone, Ticking, BeginTick, workerVars, Queued, Running
<1>3. OneUpdatePerRoom'
  <2>1. /\ \A v, w \in Workers : pc'[v] = "task" /\ pc'[w] = "task" /\ task'[v] = task'[w] => v = w
        /\ \A i, j \in DOMAIN tasks' : tasks'[i] = tasks'[j] => i = j
    BY DEF Inv, OneUpdatePerRoom, BeginTick, workerVars
  <2>2. QED
    BY <1>2, <2>1 DEF OneUpdatePerRoom
<1>4. HandlersRunAlone' /\ TickInv'
  BY <1>2 DEF HandlersRunAlone, TickInv, BeginTick
<1>5. QED
  BY <1>1, <1>3, <1>4 DEF Inv

LEMMA PushInv == ASSUME Inv, NEW r \in Rooms, PushTask(r) PROVE Inv'
<1>1. /\ main = "enqueue" /\ main' = "notify" /\ r \in toAdd /\ Ticking /\ Ticking'
      /\ tasks' = Append(tasks, r) /\ toAdd' = toAdd \ {r} /\ futures' = futures \cup {r}
      /\ ready' = ready /\ pc' = pc /\ task' = task
  BY DEF PushTask, workerVars, Ticking
<1>2. tasks \in Seq(Rooms)
  BY DEF Inv, Types
<1>3. r \notin Queued /\ r \notin Running /\ r \notin ready
  BY <1>1 DEF Inv, TickInv
<1>4. tasks' \in Seq(Rooms) /\ Queued' = Queued \cup {r}
  BY <1>1, <1>2, QueuedAppend DEF Queued
<1>5. \A i, j \in DOMAIN tasks' : tasks'[i] = tasks'[j] => i = j
  BY <1>1, <1>2, <1>3, QueuedAppend DEF Queued, Inv, OneUpdatePerRoom
<1>6. Types'
  BY <1>1, <1>4 DEF Inv, Types, PushTask, MainStates
<1>7. Running' = Running
  BY <1>1 DEF Running
<1>8. OneUpdatePerRoom'
  BY <1>1, <1>3, <1>4, <1>5, <1>7 DEF Inv, OneUpdatePerRoom
<1>9. HandlersRunAlone' /\ TickInv'
  BY <1>1, <1>3, <1>4, <1>7 DEF Inv, HandlersRunAlone, TickInv
<1>10. QED
  BY <1>6, <1>8, <1>9 DEF Inv

\* Steps that wake sleepers or send workers to sleep.
LEMMA WakeQuiet ==
  ASSUME \A w \in Workers : (pc'[w] = "task") = (pc[w] = "task"),
         task' = task, tasks' = tasks, ready' = ready
  PROVE  QuietStep
BY RunningSame DEF QuietStep

LEMMA NotifyInv == ASSUME Inv, NotifyOne PROVE Inv'
<1>1. /\ main = "notify" /\ main' = "enqueue" /\ Ticking' = Ticking /\ toAdd' = toAdd
      /\ futures' = futures /\ tasks' = tasks /\ ready' = ready /\ task' = task
      /\ rooms' = rooms /\ updates' = updates
  BY DEF NotifyOne, Ticking
<1>2. /\ pc' \in [Workers -> WorkerStates]
      /\ \A w \in Workers : (pc'[w] = "task") = (pc[w] = "task")
  <2>1. CASE pc' = pc
    BY <2>1 DEF Inv, Types
  <2>2. CASE \E w \in Asleep : pc' = [pc EXCEPT ![w] = "check"]
    <3>1. PICK w \in Asleep : pc' = [pc EXCEPT ![w] = "check"]
      BY <2>2
    <3>2. QED
      BY <3>1 DEF Asleep, Inv, Types, WorkerStates
  <2>3. QED
    BY <2>1, <2>2 DEF NotifyOne
<1>3. Types'
  BY <1>1, <1>2 DEF Inv, Types, MainStates
<1>4. QED
  BY <1>1, <1>2, <1>3, WakeQuiet, QuietInv

LEMMA AllEnqueuedInv == ASSUME Inv, AllEnqueued PROVE Inv'
<1>1. Types'
  BY DEF Inv, Types, AllEnqueued, workerVars, MainStates
<1>2. QuietStep /\ Ticking' = Ticking
  BY WakeQuiet DEF AllEnqueued, workerVars, Ticking
<1>3. QED
  BY <1>1, <1>2, QuietInv DEF AllEnqueued

\* Where the barrier is: the futures are all ready, so nothing waits or runs.
LEMMA EndInv == ASSUME Inv, EndTick PROVE Inv' /\ (toAdd \cup futures) \ ready = {}
<1>1. /\ main = "await" /\ futures \subseteq ready /\ toAdd = {} /\ Ticking /\ ~Ticking'
      /\ main' # "await"
  BY DEF EndTick, Inv, TickInv, Ticking
<1>2. Types'
  BY DEF Inv, Types, EndTick, workerVars, MainStates
<1>3. QuietStep
  BY WakeQuiet DEF EndTick, workerVars
<1>4. OneUpdatePerRoom' /\ Queued' = Queued /\ Running' = Running
  BY <1>3, QuietOne DEF Inv, QuietStep
<1>5. Queued = {} /\ Running = {}
  BY <1>1 DEF Inv, TickInv
<1>6. HandlersRunAlone' /\ TickInv'
  BY <1>1, <1>4, <1>5 DEF HandlersRunAlone, TickInv
<1>7. QED
  BY <1>1, <1>2, <1>4, <1>6 DEF Inv

LEMMA StopInv == ASSUME Inv, Stop \/ StopPool \/ Joined PROVE Inv'
<1>1. Types' /\ QuietStep
  <2>1. CASE Stop
    BY <2>1, WakeQuiet DEF Stop, workerVars, Inv, Types
  <2>2. CASE Joined
    BY <2>2, WakeQuiet DEF Joined, workerVars, Inv, Types, MainStates
  <2>3. CASE StopPool
    <3>1. /\ pc' \in [Workers -> WorkerStates]
          /\ \A w \in Workers : (pc'[w] = "task") = (pc[w] = "task")
      BY <2>3 DEF StopPool, Inv, Types, WorkerStates
    <3>2. Types'
      BY <2>3, <3>1 DEF StopPool, Inv, Types, MainStates
    <3>3. QED
      BY <2>3, <3>1, <3>2, WakeQuiet DEF StopPool
  <2>4. QED
    BY <2>1, <2>2, <2>3
<1>2. Ticking' = Ticking /\ toAdd' = toAdd /\ futures' = futures /\ main' # "await"
  BY DEF Stop, StopPool, Joined, Ticking
<1>3. QED
  BY <1>1, <1>2, QuietInv

LEMMA CheckInv == ASSUME Inv, NEW w \in Workers, Check(w) PROVE Inv'
<1>1. /\ pc[w] = "check" /\ UNCHANGED <<rooms, main, toAdd, futures, ready, updates>>
  BY DEF Check, mainVars
<1>2. Ticking' = Ticking /\ (main' = "await" => toAdd = {})
  BY <1>1 DEF Ticking, Inv, TickInv
<1>3. CASE tasks = <<>>
  <2>1. /\ pc' \in [Workers -> WorkerStates]
        /\ \A v \in Workers : (pc'[v] = "task") = (pc[v] = "task")
        /\ task' = task /\ tasks' = tasks
    BY <1>1, <1>3 DEF Check, Inv, Types, WorkerStates
  <2>2. Types'
    BY <1>1, <2>1 DEF Inv, Types
  <2>3. QED
    BY <1>1, <1>2, <2>1, <2>2, WakeQuiet, QuietInv
<1>4. CASE tasks # <<>>
  <2> DEFINE r == Head(tasks)
  <2>1. /\ task' = [task EXCEPT ![w] = r] /\ tasks' = Tail(tasks)
        /\ pc' = [pc EXCEPT ![w] = "task"]
    BY <1>4 DEF Check
  <2>2. /\ r \in Rooms /\ tasks' \in Seq(Rooms) /\ Queued' = Queued \ {r} /\ r \in Queued
        /\ \A i, j \in DOMAIN tasks' : tasks'[i] = tasks'[j] => i = j
    BY <1>4, <2>1, QueuedTail DEF Inv, Types, OneUpdatePerRoom, Queued
  <2> HIDE DEF r
  <2>3. pc \in [Workers -> WorkerStates] /\ task \in [Workers -> Rooms \cup {NoRoom}]
    BY DEF Inv, Types
  <2>4. /\ pc'[w] = "task" /\ task'[w] = r
        /\ \A v \in Workers \ {w} : pc'[v] = pc[v] /\ task'[v] = task[v]
    BY <2>1, <2>3
  <2>5. Types'
    <3>1. pc' \in [Workers -> WorkerStates] /\ task' \in [Workers -> Rooms \cup {NoRoom}]
      BY <2>1, <2>2, <2>3 DEF WorkerStates
    <3>2. QED
      BY <1>1, <2>2, <2>4, <3>1 DEF Inv, Types
  <2>6. Running' = Running \cup {r}
    BY <1>1, <2>4 DEF Running
  <2>7. r \notin Running /\ r \notin ready
    BY <2>2 DEF Inv, OneUpdatePerRoom
  <2>8. \A v \in Workers : pc[v] = "task" => task[v] # r
    BY <2>7 DEF Running
  <2>9. OneUpdatePerRoom'
    <3>1. ASSUME NEW v \in Workers, NEW u \in Workers,
                 pc'[v] = "task", pc'[u] = "task", task'[v] = task'[u]
          PROVE  v = u
      BY <2>4, <2>8, <3>1 DEF Inv, OneUpdatePerRoom
    <3>2. Queued' \cap Running' = {} /\ ready' \cap (Queued' \cup Running') = {}
      BY <1>1, <2>2, <2>6, <2>7 DEF Inv, OneUpdatePerRoom
    <3>3. QED
      BY <2>2, <3>1, <3>2 DEF OneUpdatePerRoom
  <2>10. HandlersRunAlone' /\ TickInv'
    BY <1>1, <1>2, <2>2, <2>6 DEF Inv, HandlersRunAlone, TickInv
  <2>11. QED
    BY <2>5, <2>9, <2>10 DEF Inv
<1>5. QED
  BY <1>3, <1>4

LEMMA WakeupInv == ASSUME Inv, NEW w \in Workers, SpuriousWakeup(w) PROVE Inv'
<1>1. /\ pc' \in [Workers -> WorkerStates]
      /\ \A v \in Workers : (pc'[v] = "task") = (pc[v] = "task")
  BY DEF SpuriousWakeup, Inv, Types, WorkerStates
<1>2. Types'
  BY <1>1 DEF SpuriousWakeup, mainVars, Inv, Types
<1>3. Ticking' = Ticking /\ (main' = "await" => toAdd = {})
  BY DEF SpuriousWakeup, mainVars, Ticking, Inv, TickInv
<1>4. QED
  BY <1>1, <1>2, <1>3, WakeQuiet, QuietInv DEF SpuriousWakeup, mainVars

\* A finished update was owed, and is not any more.
LEMMA DoneInv ==
  ASSUME Inv, NEW w \in Workers, TaskDone(w)
  PROVE  /\ Inv' /\ Ticking
         /\ task[w] \in Rooms /\ task[w] \in futures \ ready
<1> DEFINE r == task[w]
<1>1. /\ pc[w] = "task" /\ updates' = [updates EXCEPT ![r] = @ + 1] /\ ready' = ready \cup {r}
      /\ task' = [task EXCEPT ![w] = NoRoom] /\ pc' = [pc EXCEPT ![w] = "check"]
      /\ UNCHANGED <<rooms, main, toAdd, futures, tasks>>
  BY DEF TaskDone, mainVars
<1>2. r \in Rooms /\ r \in Running
  BY <1>1 DEF Inv, Types, Running
<1>3. Ticking /\ Ticking' /\ r \in futures \ ready /\ r \notin Queued
  BY <1>1, <1>2 DEF Inv, HandlersRunAlone, TickInv, OneUpdatePerRoom, Ticking
<1>4. pc \in [Workers -> WorkerStates] /\ task \in [Workers -> Rooms \cup {NoRoom}]
  BY DEF Inv, Types
<1>5. \A v \in Workers \ {w} : pc[v] = "task" => task[v] # r
  BY <1>1 DEF Inv, OneUpdatePerRoom
<1> HIDE DEF r
<1>6. pc'[w] = "check" /\ \A v \in Workers \ {w} : pc'[v] = pc[v] /\ task'[v] = task[v]
  BY <1>1, <1>4
<1>7. Types'
  <2>1. pc' \in [Workers -> WorkerStates] /\ task' \in [Workers -> Rooms \cup {NoRoom}]
    BY <1>1, <1>4 DEF WorkerStates
  <2>2. updates' \in [Rooms -> Nat] /\ ready' \subseteq Rooms
    BY <1>1, <1>2 DEF Inv, Types
  <2>3. QED
    BY <1>1, <1>6, <2>1, <2>2 DEF Inv, Types
<1>8. Running' = Running \ {r}
  <2>1. ASSUME NEW x \in Running' PROVE x \in Running /\ x # r
    BY <1>5, <1>6, <2>1 DEF Running
  <2>2. ASSUME NEW x \in Running, x # r PROVE x \in Running'
    BY <1>6, <2>2 DEF Running, r
  <2>3. QED
    BY <2>1, <2>2
<1>9. Queued' = Queued
  BY <1>1 DEF Queued
<1>10. OneUpdatePerRoom'
  <2>1. \A v, u \in Workers : pc'[v] = "task" /\ pc'[u] = "task" /\ task'[v] = task'[u] => v = u
    BY <1>6 DEF Inv, OneUpdatePerRoom
  <2>2. QED
    BY <1>1, <1>3, <1>8, <1>9, <2>1 DEF Inv, OneUpdatePerRoom
<1>11. HandlersRunAlone' /\ TickInv'
  BY <1>1, <1>3, <1>8, <1>9 DEF Inv, HandlersRunAlone, TickInv
<1>12. QED
  BY <1>2, <1>3, <1>7, <1>10, <1>11 DEF Inv, r

LEMMA StutterInv == ASSUME Inv, UNCHANGED vars PROVE Inv'
<1>1. UNCHANGED <<rooms, main, toAdd, futures, ready, tasks, pc, task, updates>>
  BY DEF vars, mainVars, workerVars
<1>2. Types'
  BY <1>1 DEF Inv, Types
<1>3. QuietStep
  BY <1>1, WakeQuiet
<1>4. Ticking' = Ticking /\ (main' = "await" => toAdd = {})
  BY <1>1 DEF Ticking, Inv, TickInv
<1>5. QED
  BY <1>1, <1>2, <1>3, <1>4, QuietInv

LEMMA StepInv == Inv /\ [Next]_vars => Inv'
<1> SUFFICES ASSUME Inv, [Next]_vars PROVE Inv'
  OBVIOUS
<1>1. CASE \E r \in Rooms : CreateRoom(r)
  BY <1>1, CreateInv
<1>2. CASE Stop
  BY <1>2, StopInv
<1>3. CASE MainStep
  BY <1>3, BeginInv, PushInv, NotifyInv, AllEnqueuedInv, EndInv, StopInv DEF MainStep
<1>4. CASE \E w \in Workers : WorkerStep(w) \/ SpuriousWakeup(w)
  BY <1>4, CheckInv, DoneInv, WakeupInv DEF WorkerStep
<1>5. CASE Done
  BY <1>5, StutterInv DEF Done
<1>6. CASE UNCHANGED vars
  BY <1>6, StutterInv
<1>7. QED
  BY <1>1, <1>2, <1>3, <1>4, <1>5, <1>6 DEF Next

\* The invariant behind the barrier: every room that a tick still owes an
\* update is not enqueued yet, waits in m_tasks or runs, and only one of these
\* (RoomManager::UpdateRooms and ThreadPool).
THEOREM ThreadPoolInv == Spec => []Inv
<1>1. Init => Inv
  BY InitInv
<1>2. Inv /\ [Next]_vars => Inv'
  BY StepInv
<1>3. QED
  BY <1>1, <1>2, PTL DEF Spec

-----------------------------------------------------------------------------
(* The refinement *)

LEMMA InitBarrier == Init => Barrier!Init
BY DEF Init, Barrier!Init, Ticking

\* Everything but the four steps below is invisible.
LEMMA Invisible ==
  ASSUME rooms' = rooms, Ticking' = Ticking, updates' = updates,
         toAdd' \cup futures' = toAdd \cup futures, ready' = ready
  PROVE  UNCHANGED Barrier!vars
BY DEF Barrier!vars

LEMMA StepBarrier == Inv /\ Inv' /\ [Next]_vars => [Barrier!Next]_(Barrier!vars)
<1> SUFFICES ASSUME Inv, Inv', [Next]_vars PROVE [Barrier!Next]_(Barrier!vars)
  OBVIOUS
<1>1. ASSUME NEW r \in Rooms, CreateRoom(r) PROVE Barrier!Create(r)
  BY <1>1 DEF CreateRoom, Barrier!Create, Ticking, workerVars
<1>2. ASSUME BeginTick PROVE Barrier!BeginTick
  BY <1>2 DEF BeginTick, Barrier!BeginTick, Ticking, workerVars
<1>3. ASSUME EndTick PROVE Barrier!EndTick
  <2>1. (toAdd \cup futures) \ ready = {} /\ Ticking /\ ~Ticking'
    BY <1>3, EndInv DEF EndTick, Ticking
  <2>2. rooms' = rooms /\ updates' = updates
    BY <1>3 DEF EndTick
  <2>3. QED
    BY <2>1, <2>2 DEF Barrier!EndTick
<1>4. ASSUME NEW w \in Workers, TaskDone(w) PROVE Barrier!Update(task[w])
  <2>1. Ticking /\ task[w] \in Rooms /\ task[w] \in futures \ ready
    BY <1>4, DoneInv
  <2>2. /\ updates' = [updates EXCEPT ![task[w]] = @ + 1] /\ ready' = ready \cup {task[w]}
        /\ UNCHANGED <<rooms, main, toAdd, futures>>
    BY <1>4 DEF TaskDone, mainVars
  <2>3. Ticking' = Ticking
    BY <2>2 DEF Ticking
  <2>4. ((toAdd' \cup futures') \ ready') = ((toAdd \cup futures) \ ready) \ {task[w]}
    BY <2>2
  <2>5. QED
    BY <2>1, <2>2, <2>3, <2>4 DEF Barrier!Update
<1>5. ASSUME NEW r \in Rooms, PushTask(r) PROVE UNCHANGED Barrier!vars
  <2>1. r \in toAdd /\ toAdd' = toAdd \ {r} /\ futures' = futures \cup {r}
    BY <1>5 DEF PushTask
  <2>2. toAdd' \cup futures' = toAdd \cup futures
    BY <2>1
  <2>3. Ticking' = Ticking /\ rooms' = rooms /\ updates' = updates /\ ready' = ready
    BY <1>5 DEF PushTask, Ticking
  <2>4. QED
    BY <2>2, <2>3, Invisible
<1>6. ASSUME NotifyOne \/ AllEnqueued \/ Stop \/ StopPool \/ Joined
      PROVE  UNCHANGED Barrier!vars
  <2>1. rooms' = rooms /\ updates' = updates /\ toAdd' = toAdd /\ futures' = futures /\ ready' = ready
    BY <1>6 DEF NotifyOne, AllEnqueued, Stop, StopPool, Joined
  <2>2. Ticking' = Ticking
    BY <1>6 DEF NotifyOne, AllEnqueued, Stop, StopPool, Joined, Ticking
  <2>3. QED
    BY <2>1, <2>2, Invisible
<1>7. ASSUME NEW w \in Workers, Check(w) \/ SpuriousWakeup(w)
      PROVE  UNCHANGED Barrier!vars
  <2>1. UNCHANGED <<rooms, main, toAdd, futures, ready, updates>>
    BY <1>7 DEF Check, SpuriousWakeup, mainVars
  <2>2. QED
    BY <2>1, Invisible DEF Ticking
<1>8. ASSUME UNCHANGED vars PROVE UNCHANGED Barrier!vars
  <2>1. UNCHANGED <<rooms, main, toAdd, futures, ready, updates>>
    BY <1>8 DEF vars, mainVars
  <2>2. QED
    BY <2>1, Invisible DEF Ticking
<1>9. CASE MainStep
  BY <1>2, <1>3, <1>5, <1>6, <1>9 DEF MainStep, Barrier!Next
<1>10. CASE \E w \in Workers : WorkerStep(w) \/ SpuriousWakeup(w)
  <2>1. PICK w \in Workers : Check(w) \/ SpuriousWakeup(w) \/ TaskDone(w)
    BY <1>10 DEF WorkerStep
  <2>2. CASE TaskDone(w)
    <3>1. task[w] \in Rooms
      BY <2>2, DoneInv
    <3>2. QED
      BY <1>4, <2>2, <3>1 DEF Barrier!Next
  <2>3. QED
    BY <1>7, <2>1, <2>2
<1>11. CASE \E r \in Rooms : CreateRoom(r)
  BY <1>1, <1>11 DEF Barrier!Next
<1>12. QED
  BY <1>6, <1>8, <1>9, <1>10, <1>11 DEF Next, Done

\* UpdateRooms over a ThreadPool of any size is a barrier: a tick updates every
\* room that existed when it began once, and rooms appear only between ticks.
THEOREM ThreadPoolIsBarrier == Spec => IsBarrier
<1>1. Init => Barrier!Init
  BY InitBarrier
<1>2. Inv /\ Inv' /\ [Next]_vars => [Barrier!Next]_(Barrier!vars)
  BY StepBarrier
<1>3. QED
  BY <1>1, <1>2, ThreadPoolInv, PTL DEF Spec, IsBarrier, Barrier!Spec

=============================================================================
