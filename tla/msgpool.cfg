SPECIFICATION Spec
CONSTANTS
  h1 = h1
  h2 = h2
  h3 = h3
  m1 = m1
  m2 = m2
  Holders = {h1, h2, h3}
  Msgs = {m1, m2}
  Sizes = {0, 4, 5, 8, 9}
  Block = 4
  PoolCount = 3
SYMMETRY HolderSymmetry
INVARIANTS CountIsHolders NoPanic
PROPERTY DataStable
