SPECIFICATION FairSpec
CONSTANTS
  Ips = {i1, i2, i3}
  idP = idP
  idQ = idQ
  nameA = nameA
  nameB = nameB
  PortLists <- MCPortLists
  Names = {s1, s2, s3}
  NoSlice = NoSlice
  MaxEndpointsPerSlice = 2
  MaxChanges = 2
  MaxErrors = 1
INVARIANTS
  WithinCapacity
  RoundCompletes
PROPERTIES
  SlicesConverge
