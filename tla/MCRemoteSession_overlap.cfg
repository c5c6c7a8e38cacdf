SPECIFICATION Spec
CONSTANTS
  Jobs <- TwoJobs
  Setups <- Sessions
  Windows = {"executing"}
  MaxFaults = 1
  MaxAsks = 1
INVARIANT OneCommandAtATime
