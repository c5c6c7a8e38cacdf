SPECIFICATION FairSpec
CONSTANTS
  Jobs <- ThreeJobs
  Ids <- FourIds
  Graphs <- AllGraphs
  Selections <- SomeSelections
  MaxSelections = 2
INVARIANTS TypeOK RunListOrdered RunListIsClosure DroppedIsBroken CycleIsReal ResumedListKept SuspendRespected
PROPERTIES Terminates
