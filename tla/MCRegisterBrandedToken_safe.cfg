SPECIFICATION FairSpec
CONSTANTS
  acme = acme
  bolt = bolt
  cent = cent
  None = None
  Tools = {t1, t2}
  Uuids = {acme, bolt, cent}
  FactorOf <- MCFactorOf
  WellNamed = {acme, bolt, cent}
  MaxCrashes = 1
  MaxKills = 1
  MaxFaults = 1
INVARIANTS IInv ValueChainFollows FileTruthful DoneIsRecorded
PROPERTY ProposalsComplete
CHECK_DEADLOCK FALSE
