CONSTANTS
  N = 3
  Jobs <- MCJobs
  Plans <- ChainPlan
  Configs <- OnlyRemoteInteractiveAuto
  MaxAttempts = 2
  Overdraft = 2
  CommandOutcomes = {"pass", "fail"}
  ManualRounds = 2
  UserReruns = 0
SPECIFICATION FairSpec
PROPERTY
  Terminates
