SPECIFICATION FairSpec
CONSTANTS
  Commands <- MCCommands
  RetryAttempts = 2
  MaxHeight = 3
  MaxKills = 1
  MaxFaults = 1
INVARIANTS SetupComplete RolesGivenUpLast DeployedOnLiveChains
PROPERTY SetupEnds
CHECK_DEADLOCK FALSE
