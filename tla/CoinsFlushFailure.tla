-------------------------- MODULE CoinsFlushFailure --------------------------
(***************************************************************************)
(* The stack of coin views when the database refuses a write.               *)
(*                                                                          *)
(* CCoinsViewDB::BatchWrite empties the cache it is given while it fills    *)
(* the LevelDB batch.  When WriteBatch then throws, the exception passes    *)
(* CCoinsViewCache::Flush before it resets anything, FlushStateToDisk turns *)
(* it into AbortNode, and that only asks for a shutdown: every thread runs  *)
(* on until it notices, and Shutdown flushes once more.                     *)
(***************************************************************************)
EXTENDS CoinsView

(* The changes are gone from memory and did not reach the disk; hashBlock    *)
(* and cachedCoinsUsage are what they were.                                  *)
FlushTipThrows ==
  /\ job.phase = "idle"
  /\ tip' = EmptyCache
  /\ UNCHANGED <<db, dbBest, tipBest, tipUsage, viewVars, undo, job>>

FailingSpec == Init /\ [][Next \/ FlushTipThrows]_vars

(* The database holds "the block hash whose state this CCoinsView currently  *)
(* represents", a promise of coins.h on GetBestBlock, whatever was written   *)
(* or refused before.  A start believes it: nothing else says which blocks   *)
(* the coins include.                                                        *)
DatabaseRepresentsBestBlock == db = UtxoOf[dbBest]
=============================================================================
