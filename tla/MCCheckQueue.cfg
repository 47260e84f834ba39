CONSTANTS
  w1 = w1  w2 = w2  m1 = m1  c1 = c1  c2 = c2  c3 = c3  bad = bad  none = none
  Workers = {w1, w2}
  Masters = {m1}
  NoThread = none
  Checks = {c1, c2, c3, bad}
  Failing = {bad}
  nBatchSize = 2
SPECIFICATION FairSpec
INVARIANTS
  QueueIsIdle
  NoCheckOutlivesBlock
  TodoIsExact
PROPERTIES
  ImplementsScriptVerification
  WaitReturns
CHECK_DEADLOCK FALSE
