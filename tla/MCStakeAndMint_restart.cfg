SPECIFICATION Spec
CONSTANTS
  i1 = i1
  i2 = i2
  i3 = i3
  staker = staker
  other = other
  b1 = b1
  b2 = b2
  Intents = {i1, i2}
  Stakers = {staker, other}
  Internal = staker
  StakerOf <- TwoStakerOf
  Beneficiaries = {b1, b2}
  BeneficiaryOf <- TwoBeneficiaryOf
  MaxCrashes = 1
  MaxUnsaved = 1
  MaxFaults = 0
INVARIANT RestartsMissNothing
CHECK_DEADLOCK FALSE
