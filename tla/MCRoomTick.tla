----------------------------- MODULE MCRoomTick -----------------------------
\* RoomTick on small stages.
EXTENDS RoomTick, TLC

\* Two waves: three enemies from two entries of the list, then one.
TwoWaves == << <<2, 1>>, <<1>> >>

\* Two waves: two enemies, then one.
ShortWaves == << <<1, 1>>, <<1>> >>

\* One wave with an entry of two enemies.
OneWave == << <<2>> >>

Symmetry == Permutations(Players)

=============================================================================
