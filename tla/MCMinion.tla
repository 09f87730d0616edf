------------------------------ MODULE MCMinion ------------------------------
EXTENDS Minion, TLC

CONSTANTS rook, bishop, queen

\* Two that fight, one with a charge that an upgrade shortens, and one that buffs
\* everybody.
MCData ==
  rook :> [power |-> 3, cooldown |-> 2, maxAC |-> 2, maxTargets |-> 1,
           skillType |-> "Impact", searchScope |-> "SingleTarget", skillMaxTargets |-> 1,
           buffs |-> <<>>, slots |-> [maxAC |-> 1]]
  @@
  bishop :> [power |-> 2, cooldown |-> 2, maxAC |-> 1, maxTargets |-> 1,
             skillType |-> "Projectile", searchScope |-> "MultipleTarget",
             skillMaxTargets |-> 1, buffs |-> <<>>,
             slots |-> [cooldown |-> 1, skillMaxTargets |-> 1]]
  @@
  queen :> [power |-> 1, cooldown |-> 1, maxAC |-> 1, maxTargets |-> 1,
            skillType |-> "Buff", searchScope |-> "Area", skillMaxTargets |-> 1,
            buffs |-> << [id |-> "attackSpeed", value |-> 100, left |-> 2, maxTargets |-> 0],
                         [id |-> "power", value |-> 50, left |-> 3, maxTargets |-> 2] >>,
            slots |-> [power |-> 1]]

Symmetry == Permutations(Objects)

=============================================================================
