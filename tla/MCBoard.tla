------------------------------ MODULE MCBoard ------------------------------
EXTENDS Board
SmallTiles == {-1, 1}
=============================================================================
