SPECIFICATION Spec
CONSTANTS
  Objects = {o1, o2}
  rook = rook
  bishop = bishop
  queen = queen
  Kinds = {rook, bishop, queen}
  Data <- MCData
  NoKind = NoKind
  MaxCooldown = 2
SYMMETRY Symmetry
INVARIANTS TypeOK StatsAreCurrent SkillHasStrategy
