SPECIFICATION MintFairSpec
CONSTANTS
  r1 = r1
  r2 = r2
  u1 = u1
  u2 = u2
  Runs = {r1, r2}
  Tokens = {u1, u2}
  MintRequests <- MCRequests
  Foundation = 15
  Moved <- MCMoved
  MaxMoves = 1
  MaxMintFaults = 1
  MaxKills = 1
INVARIANTS StakesAccepted OwnTokensMinted
PROPERTY RunsEnd
CHECK_DEADLOCK FALSE
