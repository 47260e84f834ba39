CONSTANTS
  MaxHeight = 7
  FORK1HEIGHT = 3
  THIRTYDAYS = 2
  ONEYEAR = 5
  SHORTESTTERM = 1
  LOCKTIMELIMIT = 100
  MAX_MONEY = 500
  RATESTART = 1024
  RATESTEP = 8
  BONUSSTART = 256
  BONUSSTEP = 4
  POSTSTEP = 10
  Amounts = {0, 100, 400}
  NoTerm <- MCNoTerm
  MEMPOOL_HEIGHT = 99
SPECIFICATION Spec
INVARIANT OneValue
