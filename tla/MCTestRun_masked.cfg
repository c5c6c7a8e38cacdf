CONSTANTS
  N = 4
  Jobs <- MCJobs
  Plans <- TwoDependenciesPlan
  Configs <- OnlyLocalSilentAuto
  MaxAttempts = 2
  Overdraft = 2
  CommandOutcomes = {"pass", "fail"}
  ManualRounds = 0
  UserReruns = 0
SPECIFICATION FairSpec
PROPERTY
  FailedJobIsRetried
