---------------------------- MODULE MCObjectPool ----------------------------
EXTENDS ObjectPool, TLC
Alike ==
  Permutations(Rooms) \cup Permutations(Enemies)
    \cup Permutations(Minions) \cup Permutations(Projectiles)
Homing == [chase |-> TRUE, pierce |-> FALSE]
Straight == [chase |-> FALSE, pierce |-> TRUE]
TwoFlights == {Homing, Straight}
=============================================================================
