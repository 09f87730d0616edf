---------------------------- MODULE TickBarrier ----------------------------
(***************************************************************************)
(* What the main loop promises the handlers and the rooms: handlers run     *)
(* only between ticks, and a tick updates every room that existed when it   *)
(* began, each once, before it ends.                                        *)
(***************************************************************************)
EXTENDS Naturals, FiniteSets

CONSTANT Rooms

VARIABLES
  rooms,    \* the rooms that exist
  ticking,  \* the main thread is in TickManager::Update
  pending,  \* rooms to update before the tick can end
  updates   \* number of updates of each room

vars == <<rooms, ticking, pending, updates>>

Init ==
  /\ rooms = {}
  /\ ticking = FALSE
  /\ pending = {}
  /\ updates = [r \in Rooms |-> 0]

\* A handler creates a room.
Create(r) ==
  /\ ~ticking
  /\ rooms' = rooms \cup {r}
  /\ UNCHANGED <<ticking, pending, updates>>

BeginTick ==
  /\ ~ticking
  /\ ticking' = TRUE
  /\ pending' = rooms
  /\ UNCHANGED <<rooms, updates>>

Update(r) ==
  /\ ticking
  /\ r \in pending
  /\ pending' = pending \ {r}
  /\ updates' = [updates EXCEPT ![r] = @ + 1]
  /\ UNCHANGED <<rooms, ticking>>

EndTick ==
  /\ ticking
  /\ pending = {}
  /\ ticking' = FALSE
  /\ UNCHANGED <<rooms, pending, updates>>

Next == BeginTick \/ EndTick \/ \E r \in Rooms : Create(r) \/ Update(r)

Spec == Init /\ [][Next]_vars

=============================================================================
