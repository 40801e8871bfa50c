SPECIFICATION Spec
CONSTANTS
  States = {s1, s2}
  Textures = {t1}
  NoTexture = none
  Programs = {p1, p2}
  Targets = {g1, g2}
  MaxDraws = 2
INVARIANT Synced
PROPERTY ImplementsImmediate
SYMMETRY Symmetry
