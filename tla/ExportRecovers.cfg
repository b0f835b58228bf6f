SPECIFICATION FairSpecH
CONSTANTS
  OwnIds = {a}
  ForeignIds = {}
  Vals = {v}
  NoInst = NoInst
  NoOp = NoOp
  MaxErrors = 0
  MaxLost = 1
  MaxForeign = 0
  MaxExports = 1
  MaxServices = 1
  MaxPodChanges = 1
  MaxReadErrors = 0
  MaxRestarts = 1
  Importer = FALSE
  InformerLag = TRUE
INVARIANTS
  AckedIsApplied
  FinalizerHeldOrNoticed
  CleanedUpUnlessOverlooked
  RestMeansExportedUnlessOverlooked
PROPERTIES
  Converges
  DeletionCompletes
