SPECIFICATION FairSpecSettledH
CONSTANTS
  OwnIds = {a}
  ForeignIds = {}
  Vals = {v}
  NoInst = NoInst
  NoOp = NoOp
  MaxErrors = 0
  MaxLost = 0
  MaxForeign = 0
  MaxExports = 1
  MaxServices = 1
  MaxPodChanges = 1
  MaxReadErrors = 1
  MaxRestarts = 0
  Importer = TRUE
  InformerLag = FALSE
INVARIANTS
  
  RestMeansExportedUnlessOverlooked
PROPERTIES
  Converges
