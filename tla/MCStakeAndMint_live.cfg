SPECIFICATION FairSpec
CONSTANTS
  i1 = i1
  i2 = i2
  i3 = i3
  staker = staker
  other = other
  b1 = b1
  b2 = b2
  Intents = {i1, i2, i3}
  Stakers = {staker, other}
  Internal = staker
  StakerOf <- MCStakerOf
  Beneficiaries = {b1, b2}
  BeneficiaryOf <- MCBeneficiaryOf
  MaxCrashes = 0
  MaxUnsaved = 0
  MaxFaults = 0
PROPERTY StakesAreMinted
CHECK_DEADLOCK FALSE
