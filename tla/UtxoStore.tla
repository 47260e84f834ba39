------------------------------ MODULE UtxoStore ------------------------------
(***************************************************************************)
(* What the stack of coin views of coins.h promises its callers, with no    *)
(* cache in it: three complete maps from transaction ids to unspent coins,  *)
(* each tagged with the block whose state it is.                            *)
(*                                                                          *)
(*   disk  what survives the process: the chainstate database               *)
(*   mem   what the node believes the UTXO set to be: pcoinsTip             *)
(*   work  the private view one block is being applied to or undone from    *)
(*                                                                          *)
(* CoinsView.tla is shown to implement this module.                         *)
(***************************************************************************)
CONSTANTS TxIds,   \* transaction ids
          Coins,   \* contents of one CCoins record
          Spent,   \* the record with no unspent output left
          Blocks,  \* block hashes
          NoBlock  \* the null hash: nothing connected yet

VARIABLES disk, mem, work

storeVars == <<disk, mem, work>>

State == [coins : [TxIds -> Coins], best : Blocks \cup {NoBlock}]

Empty == [coins |-> [t \in TxIds |-> Spent], best |-> NoBlock]

StoreTypeOK == disk \in State /\ mem \in State /\ work \in State

StoreInit == disk = Empty /\ mem = Empty /\ work = Empty

\* One coin record of the private view is replaced.
Write == \E t \in TxIds, c \in Coins :
            /\ work' = [work EXCEPT !.coins[t] = c]
            /\ UNCHANGED <<disk, mem>>

\* The private view is declared to be the state of block b.
Tag == \E b \in Blocks \cup {NoBlock} :
            /\ work' = [work EXCEPT !.best = b]
            /\ UNCHANGED <<disk, mem>>

\* All of the private view becomes visible at once, or none of it does.
Commit  == mem' = work /\ UNCHANGED <<disk, work>>
Discard == work' = mem /\ UNCHANGED <<disk, mem>>

\* The node's state becomes durable; a crash returns to the durable state.
Sync  == disk' = mem /\ UNCHANGED <<mem, work>>
Crash == mem' = disk /\ work' = disk /\ UNCHANGED disk

StoreNext == Write \/ Tag \/ Commit \/ Discard \/ Sync \/ Crash

StoreSpec == StoreInit /\ [][StoreNext]_storeVars
=============================================================================
