SPECIFICATION Spec
CONSTANTS
  Rooms = {r1, r2}
  Enemies = {e1, e2}
  Minions = {m1, m2}
  Projectiles = {p1}
  MaxName = 6
  Flights <- TwoFlights
  Nobody = Nobody
SYMMETRY Alike
INVARIANT EveryObjectHasOnePlace
PROPERTY IsArena
