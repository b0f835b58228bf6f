SPECIFICATION FairSpec
CONSTANTS
  Svcs = {s}
  Clusters = {c, d}
  PortIds = {p, q}
  PortNames = {m, n}
  Exports <- MCExports
  p = p
  q = q
  m = m
  n = n
  Uids = {u1, u2, u3, u4, u5, u6}
  NoObject = NoObject
  MaxChanges = 3
  MaxErrors = 1
INVARIANTS
  TypeOK
PROPERTIES
  OnlyAbsentRemoved
  ImportsConverge
