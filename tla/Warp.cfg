CONSTANTS
  Arch = {r1}
  Name = {p1, p2, p3, p4}
  Zero = zero
  Ckpt = {c1, c2}
  Depth = 3
  RetireMax = 2
  MaxOwed = 2
  None = None
SPECIFICATION Spec
SYMMETRY Sym
INVARIANTS
  PoolWhole
  DonesMatched
  PathExact
PROPERTIES
  LeavesRightly
