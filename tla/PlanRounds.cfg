SPECIFICATION Spec
CONSTANTS
  Itoa <- MCItoa
  PortNumbers = {0, 53, 80, 8080}
  Times = {0, 7}
  KubeStates <- MCKubeStates
  InitialClouds <- MCInitialClouds
  ClusterId = "c1"
  ClusterSetId = "s1"
  Version = "v1"
  MaxKubeChanges = 1
INVARIANTS
  MeetsReference
  DoneMeansExported
  OneRoundSuffices
  DoneMeansDistinct
PROPERTIES
  OthersKept
CHECK_DEADLOCK FALSE
