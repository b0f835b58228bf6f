SPECIFICATION FairSpec
CONSTANTS
  Ops = {o1, o2, o3}
  MaxPolls = 1
INVARIANTS
  TypeOK
  NoPanic
  AwaitCollectsAll
  NilMeansApplied
PROPERTIES
  AwaitTerminates
  BatchSpec
