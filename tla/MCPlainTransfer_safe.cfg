SPECIFICATION FairSpec
CONSTANTS
  a = a
  b = b
  t1 = t1
  t2 = t2
  Accounts = {a, b}
  Transfers = {t1, t2}
  Requests <- MCRequests
  Opening <- MCOpening
  Fee = 1
  MaxFaults = 1
  MaxLate = 1
  MaxCrashes = 1
INVARIANTS IInv AnswersTrue NotificationsTrue
PROPERTIES TransfersEnd AffordableMoves
CHECK_DEADLOCK FALSE
