SPECIFICATION FairSpec
CONSTANTS
  Jobs <- TwoJobs
  Setups <- Sessions
  Windows = {}
  MaxFaults = 2
  MaxAsks = 1
INVARIANTS TypeOK PassIsEarned NoCallRefused ExecutorSlotFree AllJobsReported LoadedIsCheckpointed
PROPERTIES ResultsKept SessionKept Completes
