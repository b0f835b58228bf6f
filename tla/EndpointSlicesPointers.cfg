SPECIFICATION Spec
CONSTANTS
  Ips = {i1, i2, i3}
  idP = idP
  idQ = idQ
  nameA = nameA
  nameB = nameB
  PortLists <- MCOnePort
  Names = {s1, s2, s3}
  NoSlice = NoSlice
  MaxEndpointsPerSlice = 2
  MaxChanges = 1
  MaxErrors = 0
PROPERTIES
  OnlyUndesiredRemoved
