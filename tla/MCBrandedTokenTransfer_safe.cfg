SPECIFICATION Spec
CONSTANTS
  alice = alice
  bob = bob
  Accounts <- MCAccounts
  Transfers = {t1, t2}
  Claims = {c1, c2}
  Requests <- MCRequests
  BeneficiaryOf <- MCBeneficiaryOf
  Opening <- MCOpening
  Minted <- MCMinted
  MaxFaults = 1
  MaxLate = 1
  MaxCrashes = 1
INVARIANTS IInv NeverOverpromises BalancesSettle AnswersTrue
CHECK_DEADLOCK FALSE
