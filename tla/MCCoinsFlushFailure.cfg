CONSTANTS
  t1 = t1  t2 = t2  t3 = t3  t4 = t4
  g = g  b1 = b1  b2 = b2  b3 = b3  b4 = b4  c2 = c2  c3 = c3  d2 = d2  bad = bad  dup = dup
  null = null  none = none
  TxIds <- MCTxIds
  OutIdx = {0, 1}
  Heights = {0, 1, 2, 3, 4}
  Blocks <- MCBlocks
  Genesis = g
  NoBlock = null
  NoEntry = none
  Parent <- MCParent
  Height <- MCHeight
  Vout <- MCVout
  Accesses <- MCAccesses
SPECIFICATION FailingSpec
INVARIANT DatabaseRepresentsBestBlock
