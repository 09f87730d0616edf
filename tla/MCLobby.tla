------------------------------ MODULE MCLobby ------------------------------
\* Lobby on a small instance.
EXTENDS Lobby, TLC

\* Session objects are only compared for equality, and told apart by Polite.
SessionSymmetry == Permutations(Polite) \cup Permutations(Sessions \ Polite)

=============================================================================
