SPECIFICATION FairSpec
CONSTANTS
  r1 = r1
  r2 = r2
  other = other
  Redemptions = {r1, r2, other}
  Internal = {r1, r2}
  Amount <- MCAmount
  Opening = 2
  MaxCrashes = 1
  MaxFaults = 1
INVARIANTS IInv ReleaseFollowsBurn
PROPERTY RedemptionsReleased
CHECK_DEADLOCK FALSE
