------------------------------- MODULE Arena -------------------------------
(***************************************************************************)
(* What rooms may rely on when they spawn enemies, minions and projectiles: *)
(* whatever is spawned is new, belongs to the room that spawned it until    *)
(* that room gives it up, and a projectile keeps its target, its owner and  *)
(* the list of what it has hit until it is over.  Memory is no concern.     *)
(***************************************************************************)
EXTENDS Integers

CONSTANT Rooms

VARIABLES
  things,  \* room |-> names of its enemies and minions
  shots,   \* name |-> [room, target, owner, hits] of a flying projectile
  next     \* the next new name

vars == <<things, shots, next>>

Init ==
  /\ things = [r \in Rooms |-> {}]
  /\ shots = [n \in {} |-> {}]
  /\ next = 1

Spawn(r) ==
  /\ things' = [things EXCEPT ![r] = @ \cup {next}]
  /\ next' = next + 1
  /\ UNCHANGED shots

Remove(r, S) ==
  /\ things' = [things EXCEPT ![r] = @ \ S]
  /\ UNCHANGED <<shots, next>>

Fire(r, target, owner) ==
  /\ {target, owner} \subseteq things[r]
  /\ shots' = [n \in DOMAIN shots \cup {next} |->
                 IF n = next
                 THEN [room |-> r, target |-> target, owner |-> owner, hits |-> {}]
                 ELSE shots[n]]
  /\ next' = next + 1
  /\ UNCHANGED things

\* A projectile hits what it has not hit before, in its own room.
Hit(n, thing) ==
  /\ thing \in things[shots[n].room] \ shots[n].hits
  /\ shots' = [shots EXCEPT ![n].hits = @ \cup {thing}]
  /\ UNCHANGED <<things, next>>

End(n) ==
  /\ shots' = [m \in DOMAIN shots \ {n} |-> shots[m]]
  /\ UNCHANGED <<things, next>>

Close(r) ==
  /\ things' = [things EXCEPT ![r] = {}]
  /\ shots' = [m \in {n \in DOMAIN shots : shots[n].room # r} |-> shots[m]]
  /\ UNCHANGED next

Next ==
  \/ \E r \in Rooms :
       \/ Spawn(r)
       \/ Close(r)
       \/ \E S \in SUBSET things[r] : Remove(r, S)
       \/ \E target, owner \in things[r] : Fire(r, target, owner)
  \/ \E n \in DOMAIN shots :
       \/ End(n)
       \/ \E thing \in things[shots[n].room] : Hit(n, thing)

Spec == Init /\ [][Next]_vars

=============================================================================
