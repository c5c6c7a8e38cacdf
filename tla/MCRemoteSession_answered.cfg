SPECIFICATION Spec
CONSTANTS
  Jobs <- TwoJobs
  Setups <- Sessions
  Windows = {"answered"}
  MaxFaults = 1
  MaxAsks = 1
INVARIANT PassIsEarned
