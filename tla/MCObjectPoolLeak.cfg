SPECIFICATION Spec
CONSTANTS
  Rooms = {r1}
  Enemies = {e1}
  Minions = {m1}
  Projectiles = {p1, p2}
  MaxName = 4
  Flights <- TwoFlights
  Nobody = Nobody
PROPERTY MadeOnlyWhenNeeded
