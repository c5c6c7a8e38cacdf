CONSTANTS
  N = 3
  Jobs <- MCJobs
  Plans <- MixedPlans
  Configs <- AllConfigs
  MaxAttempts = 2
  Overdraft = 3
  CommandOutcomes = {"pass", "fail"}
  ManualRounds = 1
  UserReruns = 1
SPECIFICATION Spec
INVARIANTS
  TypeOK
  StartRequirementsMet
  RunsWithinBudget
  EveryJobAccountedFor
  Inv
PROPERTY
  PassedJobStaysPassed
