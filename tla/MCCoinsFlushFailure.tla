------------------------- MODULE MCCoinsFlushFailure -------------------------
(* The block tree of MCCoinsView, over a database that may refuse a write.   *)
EXTENDS MCCoinsView, CoinsFlushFailure
=============================================================================
