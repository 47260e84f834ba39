CONSTANTS
  g = g  a1 = a1  a2 = a2  b1 = b1  b2 = b2  b3 = b3  c2 = c2  null = null
  Blocks = {g, a1, b1}
  Genesis = g
  NoBlock = null
  Parent <- MCParent
  Chain <- MCChain
  Height <- MCHeight
  Work <- MCWork
  Addr <- MCAddr
  BadBlock = {}
  BadSpend = {}
  Keep = 2
  Features = {"flush", "crash", "invalidate"}
SPECIFICATION Spec
INVARIANTS
  RestartSucceeds
