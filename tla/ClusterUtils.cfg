SPECIFICATION FairSpec
CONSTANTS
  Values = {v, w}
  Watches = {}
  NoValue = NoValue
  MaxChanges = 3
  MaxExports = 1
  MaxRestarts = 1
INVARIANTS
  TypeOK
  NeverUnidentified
  CleanedUp
PROPERTIES
  PropertiesReach
