SPECIFICATION Spec
CONSTANTS
  Jobs <- TwoJobs
  Setups <- Dialogues
  Windows = {"executing", "verifying"}
  MaxFaults = 2
  MaxAsks = 1
INVARIANTS LoadedIsCheckpointed
PROPERTIES ResultsKept SessionKept
