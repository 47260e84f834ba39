SPECIFICATION RelaySpec
CONSTANTS
  r = r  a1 = a1  a2 = a2  b1 = b1
  c0 = c0  ca1 = ca1  ca2 = ca2  cb1 = cb1
  f = f  p = p  q = q  d = d  u = u  v = v  w = w  x = x  z = z
  m = m  n = n
  Blocks = {r, a1, a2, b1}
  Root = r
  Txs = {c0, ca1, ca2, cb1, f, p, q, d, u, v, w, x, z}
  Coinbases = {c0, ca1, ca2, cb1}
  Inputs <- MCInputs
  NOut <- MCNOut
  Claim <- MCClaim
  Lock <- MCLock
  Parent <- MCParent
  Chain <- MCChain
  Height <- MCHeight
  BlockTxs <- MCBlockTxs
  BadScript = {w}
  Maturity = 2
  Cap = 2
  Peers = {m, n}
  MaxOrphans = 2
  Refusable = {q, w}
SYMMETRY PeerSymmetry
INVARIANTS RelayTypeOK NextTxExact PoolFitsChain NothingButPolicyRefuses OrphanIndexExact NoOrphanLeftBehind
PROPERTY LeavesForACause
