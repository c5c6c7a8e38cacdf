CONSTANTS
  N = 3
  Jobs <- MCJobs
  Plans <- RetryPlans
  Configs <- RetryConfigs
  MaxAttempts = 3
  Overdraft = 3
  CommandOutcomes = {"pass", "fail"}
  ManualRounds = 2
  UserReruns = 0
SPECIFICATION FairSpec
INVARIANTS
  FailureNotMasked
PROPERTY
  Terminates
  FailedJobIsRetried
  NoRetryRespected
