SPECIFICATION Spec
CONSTANTS
  NULL = NULL
  u1 = u1
  p1 = p1
  p2 = p2
  t1 = t1
  t2 = t2
  i1 = i1
  i2 = i2
  i3 = i3
  r1 = r1
  Conns = {c1, c2, c3}
  Users = {u1, u2}
  Passwords = {p1, p2}
  Topics = {t1}
  SubIds = {i1}
  Receipts = {r1}
  Frames <- SessionFrames
  MaxFrames = 2
  FreshIds = TRUE
SYMMETRY SessionSymmetry
INVARIANTS
  TypeOK
  SoleSessionListed
PROPERTIES
  SettledPassword
