SPECIFICATION LiveSpec
CONSTANTS
  g = g  a1 = a1  a2 = a2  a3 = a3  b2 = b2  b3 = b3
  prompt = prompt  tardy = tardy  null = null
  Blocks = {g, a1, a2, a3, b2, b3}
  Genesis = g
  NoBlock = null
  NoPeer = null
  Parent <- MCParent
  Chain <- MCChain
  Height <- MCHeight
  Work <- MCWork
  Offers <- MCOffers
  Announces <- MCAnnounces
  BadBlock = {b3}
  BadSpend = {b2}
  Today = {a2, a3}
  Fresh = {a1}
  Peers = {prompt, tardy}
  Slow = {tardy}
  Inbound = {tardy}
  Whitelisted = {prompt}
  MaxInTransit = 2
  Window = 1
  MaxHeaders = 2
  Lag = 1
  MinKeep = 1
  MaxPending = 1
CHECK_DEADLOCK FALSE
INVARIANTS DownloadTypeOK InFlightExact StallingOwes CommonIsHad HonestUnpunished
PROPERTIES EventuallyDownloaded AskedOfOnePeer
