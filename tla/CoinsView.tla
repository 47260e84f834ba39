------------------------------ MODULE CoinsView ------------------------------
(***************************************************************************)
(* The UTXO set: coins.h, coins.cpp, CCoinsViewDB of txdb.cpp and the coin  *)
(* operations of ConnectBlock, DisconnectBlock, ConnectTip and             *)
(* DisconnectTip of main.cpp.                                               *)
(*                                                                          *)
(* Three views are stacked.  The chainstate database is at the bottom, the  *)
(* node's cache pcoinsTip is on top of it, and a short-lived cache "view"   *)
(* is put on top of pcoinsTip to connect or to disconnect one block.  A     *)
(* cache reads through to the view below it and remembers with two flags    *)
(* what it has to write back: DIRTY ("potentially different from the parent *)
(* version") and FRESH ("the parent does not have it, or it is pruned").    *)
(*                                                                          *)
(* A block is applied one CCoinsModifier at a time, so that a block may be  *)
(* found invalid, or the process may die, between any two of them.          *)
(*                                                                          *)
(* A definition that no action uses, right before one whose name it extends *)
(* (FetchedFresh before Fetched), is that one with a plausible error in      *)
(* it.  It is there to show that a property would notice.                   *)
(***************************************************************************)
EXTENDS Integers, Sequences, FiniteSets, FiniteSetsExt

CONSTANTS
  TxIds,     \* transaction ids
  OutIdx,    \* positions in vout
  Heights,   \* block heights; 0 is the genesis block's
  Blocks,    \* block hashes
  Genesis,   \* hashGenesisBlock
  NoBlock,   \* the null hash
  NoEntry,   \* "not in cacheCoins"
  Parent,    \* hashPrevBlock
  Height,    \* nHeight of a block
  Vout,      \* the spendable outputs of a transaction
  Accesses   \* for each block the ModifyCoins calls UpdateCoins makes, in order

(* One call of ModifyCoins: an input spends output n of tx, or the outputs  *)
(* of tx are added (n is unused).                                           *)
Access == [op : {"spend", "create"}, tx : TxIds, n : OutIdx]

(* fCoinBase, nVersion and nHeight of a CCoins travel together; nHeight     *)
(* stands for them.  A record whose last output is spent compares equal to  *)
(* any other such record, so there is one pruned value.                     *)
Spent == [nHeight |-> 0, vout |-> {}]
MkCoins(h, outs) == IF outs = {} THEN Spent ELSE [nHeight |-> h, vout |-> outs]
Coins == {Spent} \cup [nHeight : Heights, vout : (SUBSET OutIdx) \ {{}}]
IsPruned(c) == c.vout = {}

(* CCoins::FromTx: the spendable outputs of t, mined in block b.            *)
FromTx(b, t) == MkCoins(Height[b], Vout[t])

(* The height an undo record carries when a spend leaves rest of c: it is   *)
(* kept only when the last output goes (0: the record stays and knows it).  *)
UndoHeight(c, rest) == IF IsPruned(rest) THEN c.nHeight ELSE 0

Entry == [coins : Coins, dirty : BOOLEAN, fresh : BOOLEAN]

ASSUME CoinsViewAssumption ==
  /\ IsFiniteSet(TxIds) /\ IsFiniteSet(OutIdx)
  /\ 0 \in Heights /\ Heights \subseteq Nat
  /\ Genesis \in Blocks /\ NoBlock \notin Blocks
  /\ NoEntry \notin Entry
  /\ Parent \in [Blocks -> Blocks \cup {NoBlock}]
  /\ Height \in [Blocks -> Heights]
  /\ Vout \in [TxIds -> SUBSET OutIdx]
  /\ Accesses \in [Blocks -> Seq(Access)]
  /\ \A b \in Blocks : Accesses[b] = << >> <=> b = Genesis
  /\ \A b \in Blocks : Parent[b] = NoBlock <=> b = Genesis
  /\ Height[Genesis] = 0
  /\ \A b \in Blocks \ {Genesis} : Height[b] = Height[Parent[b]] + 1
-----------------------------------------------------------------------------
VARIABLES
  db,        \* the coin records of the chainstate database (Spent: no record)
  dbBest,    \* its DB_BEST_BLOCK record
  tip,       \* pcoinsTip->cacheCoins
  tipBest,   \* pcoinsTip->hashBlock, the null hash until it is first needed
  tipUsage,  \* pcoinsTip->cachedCoinsUsage
  view,      \* cacheCoins of the view the current block works on
  viewBest,
  viewUsage,
  undo,      \* the undo record of each block, as ConnectBlock wrote it
  job        \* what the thread holding cs_main is doing, and how far it is

tipVars  == <<tip, tipBest, tipUsage>>
viewVars == <<view, viewBest, viewUsage>>
vars == <<db, dbBest, tip, tipBest, tipUsage, view, viewBest, viewUsage, undo, job>>

(* job.block is connected or disconnected; job.pos is the next access;      *)
(* job.blockundo the undo data collected so far; job.clean is fClean.       *)
Phases == {"idle", "bip30", "connect", "disconnect", "ready"}
Idle == [phase |-> "idle", block |-> Genesis, pos |-> 0,
         blockundo |-> << >>, clean |-> TRUE]

EmptyCache == [t \in TxIds |-> NoEntry]

(* The weight memusage gives a record: it grows with the outputs held.      *)
Usage(c) == Cardinality(c.vout)
EntryUsage(e) == IF e = NoEntry THEN 0 ELSE Usage(e.coins)
UsageOf(cache) == [t \in TxIds |-> EntryUsage(cache[t])]
Total(usage) == MapThenSumSet(LAMBDA t : usage[t], TxIds)
-----------------------------------------------------------------------------
(* What a caller reads through each level of the stack.                     *)
TipCoins(t)  == IF tip[t] = NoEntry THEN db[t] ELSE tip[t].coins
ViewCoins(t) == IF view[t] = NoEntry THEN TipCoins(t) ELSE view[t].coins
TipBestBlock  == IF tipBest = NoBlock THEN dbBest ELSE tipBest
ViewBestBlock == IF viewBest = NoBlock THEN TipBestBlock ELSE viewBest

(* FetchCoins copies a record up from the base view; a record that is       *)
(* pruned there counts as fresh here.                                       *)
FetchedFresh(c) == [coins |-> c, dirty |-> FALSE, fresh |-> TRUE]
Fetched(c) == [coins |-> c, dirty |-> FALSE, fresh |-> IsPruned(c)]
TipFetchUncached(t) == tip[t]
TipFetch(t) == IF tip[t] = NoEntry /\ ~IsPruned(db[t]) THEN Fetched(db[t]) ELSE tip[t]
ViewFetch(t) ==
  IF view[t] = NoEntry /\ TipFetch(t) # NoEntry THEN Fetched(TipFetch(t).coins) ELSE view[t]

ReadTip(t) ==
  /\ tip' = [tip EXCEPT ![t] = TipFetch(t)]
  /\ tipUsage' = tipUsage + EntryUsage(TipFetch(t)) - EntryUsage(tip[t])
  /\ UNCHANGED tipBest

(* A read through the view looks below it only when it has no entry.        *)
ReadBelow(t) == IF view[t] = NoEntry THEN ReadTip(t) ELSE UNCHANGED tipVars

ReadView(t) ==
  /\ ReadBelow(t)
  /\ view' = [view EXCEPT ![t] = ViewFetch(t)]
  /\ viewUsage' = viewUsage + EntryUsage(ViewFetch(t)) - EntryUsage(view[t])

(* ModifyCoins and the destructor of the CCoinsModifier it returns: the     *)
(* entry is loaded, marked DIRTY, given its new contents c, and dropped if   *)
(* it is fresh and pruned.                                                  *)
IsFresh(t) == IF view[t] = NoEntry THEN IsPruned(TipCoins(t)) ELSE view[t].fresh
Modified(t, c) ==
  IF IsFresh(t) /\ IsPruned(c) THEN NoEntry
  ELSE [coins |-> c, dirty |-> TRUE, fresh |-> IsFresh(t)]

ModifyViewKeepUsage(t, c) ==
  /\ ReadBelow(t)
  /\ view' = [view EXCEPT ![t] = Modified(t, c)]
  /\ viewUsage' = viewUsage + EntryUsage(Modified(t, c))

ModifyView(t, c) ==
  /\ ReadBelow(t)
  /\ view' = [view EXCEPT ![t] = Modified(t, c)]
  /\ viewUsage' = viewUsage - EntryUsage(view[t]) + EntryUsage(Modified(t, c))
-----------------------------------------------------------------------------
Init ==
  /\ db = [t \in TxIds |-> Spent]
  /\ dbBest = NoBlock
  /\ tip = EmptyCache /\ tipBest = NoBlock /\ tipUsage = 0
  /\ view = EmptyCache /\ viewBest = NoBlock /\ viewUsage = 0
  /\ undo = [b \in Blocks |-> << >>]
  /\ job = Idle

(* Any thread may read the tip between two blocks: AcceptToMemoryPool, the  *)
(* wallet, gettxout.                                                        *)
FetchCoins == \E t \in TxIds :
  /\ job.phase = "idle"
  /\ ReadTip(t)
  /\ UNCHANGED <<db, dbBest, viewVars, undo, job>>

(* CCoinsViewCache view(pcoinsTip); ConnectBlock asserts that the block's   *)
(* parent is the view's best block, which makes both caches remember it.    *)
StartConnect == \E b \in Blocks :
  /\ job.phase = "idle"
  /\ Parent[b] = TipBestBlock
  /\ viewBest' = TipBestBlock /\ tipBest' = TipBestBlock
  /\ job' = [Idle EXCEPT !.phase = "bip30", !.block = b, !.pos = 1]
  /\ UNCHANGED <<db, dbBest, tip, tipUsage, view, viewUsage, undo>>

Program == Accesses[job.block]
Here == Program[job.pos]
Step(phase) == job.phase = phase /\ job.pos \in 1 .. Len(Program)

(* return state.DoS(...): the view goes out of scope unflushed.             *)
Reject ==
  /\ job' = Idle
  /\ view' = EmptyCache /\ viewBest' = NoBlock /\ viewUsage' = 0

(* "Do not allow blocks that contain transactions which 'overwrite' older   *)
(* transactions, unless those are already completely spent."                *)
OverwritesCached(t) == view[t] # NoEntry /\ ~IsPruned(view[t].coins)
Overwrites(t) == ~IsPruned(ViewCoins(t))

CheckBIP30 ==
  /\ Step("bip30")
  /\ UNCHANGED <<db, dbBest, undo>>
  /\ \/ /\ Here.op = "spend"
        /\ job' = [job EXCEPT !.pos = @ + 1]
        /\ UNCHANGED <<tipVars, viewVars>>
     \/ /\ Here.op = "create" /\ ~Overwrites(Here.tx)
        /\ ReadView(Here.tx)
        /\ job' = [job EXCEPT !.pos = @ + 1]
        /\ UNCHANGED viewBest
     \/ /\ Here.op = "create" /\ Overwrites(Here.tx)
        /\ ReadBelow(Here.tx)
        /\ Reject

StartTransactions ==
  /\ job.phase = "bip30" /\ job.pos = Len(Program) + 1
  /\ job' = [job EXCEPT !.phase = "connect", !.pos = 1]
  /\ UNCHANGED <<db, dbBest, tipVars, viewVars, undo>>

(* UpdateCoins for one input.                                               *)
SpendInput ==
  /\ Step("connect") /\ Here.op = "spend"
  /\ UNCHANGED <<db, dbBest, undo>>
  /\ LET c == ViewCoins(Here.tx)
         rest == MkCoins(c.nHeight, c.vout \ {Here.n})
     IN  \/ /\ Here.n \in c.vout
            /\ ModifyView(Here.tx, rest)
            /\ job' = [job EXCEPT !.pos = @ + 1,
                         !.blockundo = Append(@, UndoHeight(c, rest))]
            /\ UNCHANGED viewBest
         \/ /\ Here.n \notin c.vout    \* bad-txns-inputs-missingorspent
            /\ ReadBelow(Here.tx)
            /\ Reject

(* UpdateCoins for the outputs: FromTx(tx, nHeight).                        *)
CreateOutputs ==
  /\ Step("connect") /\ Here.op = "create"
  /\ ModifyView(Here.tx, FromTx(job.block, Here.tx))
  /\ job' = [job EXCEPT !.pos = @ + 1, !.blockundo = Append(@, 0)]
  /\ UNCHANGED <<db, dbBest, viewBest, undo>>

(* The undo data are written once, when the block has none; the genesis     *)
(* block returns before it gets any.                                        *)
FinishConnect ==
  /\ job.phase = "connect" /\ job.pos = Len(Program) + 1
  /\ undo' = IF undo[job.block] = << >> THEN [undo EXCEPT ![job.block] = job.blockundo]
             ELSE undo
  /\ viewBest' = job.block
  /\ job' = [job EXCEPT !.phase = "ready", !.pos = 0, !.blockundo = << >>]
  /\ UNCHANGED <<db, dbBest, tipVars, view, viewUsage>>

(* DisconnectTip: DisconnectBlock asserts that the tip is the view's best   *)
(* block and needs undo data.                                               *)
StartDisconnect ==
  /\ job.phase = "idle"
  /\ TipBestBlock \in Blocks \ {Genesis} /\ undo[TipBestBlock] # << >>
  /\ viewBest' = TipBestBlock /\ tipBest' = TipBestBlock
  /\ job' = [Idle EXCEPT !.phase = "disconnect", !.block = TipBestBlock,
                         !.pos = Len(Accesses[TipBestBlock])]
  /\ UNCHANGED <<db, dbBest, tip, tipUsage, view, viewUsage, undo>>

(* The outputs of a transaction must be exactly those of the block.         *)
RemoveOutputs ==
  /\ Step("disconnect") /\ Here.op = "create"
  /\ ModifyView(Here.tx, Spent)
  /\ job' = [job EXCEPT !.pos = @ - 1,
               !.clean = @ /\ ViewCoins(Here.tx) = FromTx(job.block, Here.tx)]
  /\ UNCHANGED <<db, dbBest, viewBest, undo>>

(* ApplyTxInUndo: a recorded height replaces the whole record, else the     *)
(* output is added to the record that is there.                             *)
RestoreInput ==
  /\ Step("disconnect") /\ Here.op = "spend"
  /\ LET c == ViewCoins(Here.tx)
         h == undo[job.block][job.pos]
     IN  /\ ModifyView(Here.tx, IF h # 0 THEN MkCoins(h, {Here.n})
                                ELSE MkCoins(c.nHeight, c.vout \cup {Here.n}))
         /\ job' = [job EXCEPT !.pos = @ - 1,
                      !.clean = /\ @
                                /\ (h # 0) = IsPruned(c)
                                /\ h # 0 \/ Here.n \notin c.vout]
  /\ UNCHANGED <<db, dbBest, viewBest, undo>>

(* DisconnectTip flushes only what DisconnectBlock found clean.             *)
FinishDisconnect ==
  /\ job.phase = "disconnect" /\ job.pos = 0
  /\ UNCHANGED <<db, dbBest, tipVars, undo>>
  /\ IF job.clean
     THEN /\ viewBest' = Parent[job.block]
          /\ job' = [job EXCEPT !.phase = "ready"]
          /\ UNCHANGED <<view, viewUsage>>
     ELSE Reject

(* TestBlockValidity and VerifyDB drop the finished view, and so does a     *)
(* block that fails a check this module does not model (a script, a sum).   *)
Drop ==
  /\ job.phase # "idle"
  /\ Reject
  /\ UNCHANGED <<db, dbBest, tipVars, undo>>

(* CCoinsViewCache::BatchWrite, entry by entry.                             *)
MergedErasing(p, e) ==
  IF e = NoEntry \/ ~e.dirty THEN p
  ELSE IF IsPruned(e.coins) THEN NoEntry
  ELSE IF p = NoEntry THEN [coins |-> e.coins, dirty |-> TRUE, fresh |-> TRUE]
  ELSE [p EXCEPT !.coins = e.coins, !.dirty = TRUE]
Merged(p, e) ==
  IF e = NoEntry \/ ~e.dirty THEN p
  ELSE IF IsPruned(e.coins) /\ (p = NoEntry \/ p.fresh) THEN NoEntry
  ELSE IF p = NoEntry THEN [coins |-> e.coins, dirty |-> TRUE, fresh |-> TRUE]
  ELSE [p EXCEPT !.coins = e.coins, !.dirty = TRUE]

BatchWriteTip ==
  /\ tip' = [t \in TxIds |-> Merged(tip[t], view[t])]
  /\ tipUsage' = tipUsage
       + Total([t \in TxIds |-> EntryUsage(Merged(tip[t], view[t])) - EntryUsage(tip[t])])
  /\ tipBest' = viewBest

(* assert(view.Flush()); the view then goes out of scope.                   *)
FlushView ==
  /\ job.phase = "ready"
  /\ BatchWriteTip
  /\ view' = EmptyCache /\ viewBest' = NoBlock /\ viewUsage' = 0
  /\ job' = Idle
  /\ UNCHANGED <<db, dbBest, undo>>

(* CCoinsViewDB::BatchWrite is one LevelDB batch: dirty records are written *)
(* or erased, and the best block is written with them unless it is null.    *)
WrittenNoErase(t) ==
  IF tip[t] # NoEntry /\ tip[t].dirty /\ ~IsPruned(tip[t].coins) THEN tip[t].coins ELSE db[t]
Written(t) == IF tip[t] # NoEntry /\ tip[t].dirty THEN tip[t].coins ELSE db[t]

FlushTip ==
  /\ job.phase = "idle"
  /\ db' = [t \in TxIds |-> Written(t)]
  /\ dbBest' = IF tipBest = NoBlock THEN dbBest ELSE tipBest
  /\ tip' = EmptyCache /\ tipUsage' = 0
  /\ UNCHANGED <<tipBest, viewVars, undo, job>>

(* The process dies at any point and is started again on the same files.    *)
Crash ==
  /\ tip' = EmptyCache /\ tipBest' = NoBlock /\ tipUsage' = 0
  /\ Reject
  /\ UNCHANGED <<db, dbBest, undo>>

ConnectSteps == CheckBIP30 \/ StartTransactions \/ SpendInput \/ CreateOutputs \/ FinishConnect
DisconnectSteps == RemoveOutputs \/ RestoreInput \/ FinishDisconnect

Next ==
  \/ FetchCoins
  \/ StartConnect \/ ConnectSteps
  \/ StartDisconnect \/ DisconnectSteps
  \/ Drop \/ FlushView \/ FlushTip \/ Crash

Spec == Init /\ [][Next]_vars
-----------------------------------------------------------------------------
(* Every member has the shape its C++ type gives it; job.pos stays within   *)
(* one step of the block's accesses.                                        *)
JobType == [phase : Phases, block : Blocks, pos : Nat,
            blockundo : Seq(Heights), clean : BOOLEAN]
TypeOK ==
  /\ db \in [TxIds -> Coins]
  /\ dbBest \in Blocks \cup {NoBlock}
  /\ tip \in [TxIds -> Entry \cup {NoEntry}]
  /\ tipBest \in Blocks \cup {NoBlock}
  /\ view \in [TxIds -> Entry \cup {NoEntry}]
  /\ viewBest \in Blocks \cup {NoBlock}
  /\ undo \in [Blocks -> Seq(Heights)]
  /\ job \in JobType

(* FRESH and DIRTY of the node's cache mean what coins.h says: an entry is   *)
(* fresh exactly when the database has no record, and an entry that is not   *)
(* dirty is the database's own.  Erasing a fresh pruned entry, or skipping a *)
(* clean one in BatchWrite, loses a change otherwise.                        *)
TipFlagsSound == \A t \in TxIds : tip[t] # NoEntry =>
  /\ tip[t].fresh <=> IsPruned(db[t])
  /\ ~tip[t].dirty => tip[t].coins = db[t]

(* The same for the block's view over the node's cache.  Its base is a      *)
(* cache, so a fresh entry may lie over a pruned one.                       *)
ViewFlagsSound == \A t \in TxIds : view[t] # NoEntry =>
  /\ view[t].fresh => IsPruned(TipCoins(t))
  /\ ~view[t].dirty => view[t].coins = TipCoins(t)

(* An entry of the view that is not fresh was pulled up through the node's   *)
(* cache, which still has it: nothing empties that cache under a live view.  *)
ViewBacked == \A t \in TxIds :
  view[t] # NoEntry /\ ~view[t].fresh => tip[t] # NoEntry

(* Between two blocks no view is left over.                                  *)
IdleHasNoView == job.phase = "idle" => view = EmptyCache /\ viewBest = NoBlock

(* Flush hands its raw hashBlock down.  A null one would make the node's     *)
(* cache fall back to the best block of the database while it holds newer    *)
(* coins, so a view must know its block before it is flushed.                *)
ReadyIsTagged == job.phase = "ready" => viewBest # NoBlock

(* A block's undo data have one record for each access, as DisconnectBlock    *)
(* expects ("block and undo data inconsistent" otherwise).                    *)
UndoFits ==
  /\ \A b \in Blocks : undo[b] # << >> => Len(undo[b]) = Len(Accesses[b])
  /\ job.pos <= Len(Accesses[job.block]) + 1
  /\ job.phase = "connect" => Len(job.blockundo) + 1 = job.pos
  /\ job.phase = "bip30" => job.blockundo = << >> /\ job.pos >= 1
  /\ job.phase = "disconnect" => undo[job.block] # << >> /\ job.block # Genesis

(* What the correctness of the flags rests on, together.                     *)
LayerInv == /\ TypeOK /\ UndoFits
            /\ TipFlagsSound /\ ViewFlagsSound /\ ViewBacked
            /\ IdleHasNoView /\ ReadyIsTagged

(* The assertion of BatchWrite: a live record the parent cache has never     *)
(* heard of must be fresh ("if the grandparent did have it, we would have    *)
(* pulled it in at first GetCoins").                                         *)
BatchWriteAssertion == \A t \in TxIds :
  (/\ view[t] # NoEntry /\ view[t].dirty /\ ~IsPruned(view[t].coins)
   /\ tip[t] = NoEntry) => view[t].fresh

(* cachedCoinsUsage is the exact weight of the cached records: it is         *)
(* adjusted by differences only, and FlushStateToDisk decides by it when the *)
(* cache is too large.                                                       *)
UsageExact ==
  /\ tipUsage = Total(UsageOf(tip))
  /\ viewUsage = Total(UsageOf(view))

(* The UTXO set of a block by definition: its accesses, in order, applied to *)
(* the UTXO set of its parent.                                               *)
Applied(utxo, b, a) ==
  [utxo EXCEPT ![a.tx] = IF a.op = "create" THEN FromTx(b, a.tx)
                         ELSE MkCoins(@.nHeight, @.vout \ {a.n})]
AfterAccesses(utxo, b) ==
  LET after[i \in 0 .. Len(Accesses[b])] ==
        IF i = 0 THEN utxo ELSE Applied(after[i - 1], b, Accesses[b][i])
  IN  after
UtxoOf[b \in Blocks \cup {NoBlock}] ==
  IF b = NoBlock THEN [t \in TxIds |-> Spent]
  ELSE AfterAccesses(UtxoOf[Parent[b]], b)[Len(Accesses[b])]

(* GetBestBlock of every view is "the block hash whose state this CCoinsView *)
(* currently represents": for the database after any crash, for the node's   *)
(* cache even while a block is half connected, for the view once finished.   *)
BestBlockRepresentsState ==
  /\ db = UtxoOf[dbBest]
  /\ [t \in TxIds |-> TipCoins(t)] = UtxoOf[TipBestBlock]
  /\ job.phase = "ready" => [t \in TxIds |-> ViewCoins(t)] = UtxoOf[viewBest]

(* The reference rule for a block's coins: nothing it creates overwrites a   *)
(* live record of its parent's state, and what it spends is there.           *)
UnspentBefore(b, i) == AfterAccesses(UtxoOf[Parent[b]], b)[i - 1]
CoinsValid(b) == \A i \in 1 .. Len(Accesses[b]) :
  LET a == Accesses[b][i]
  IN  IF a.op = "create" THEN IsPruned(UtxoOf[Parent[b]][a.tx])
      ELSE a.n \in UnspentBefore(b, i)[a.tx].vout

(* The double spend or overwriting block never becomes the state of any view *)
(* the node keeps.                                                           *)
OnlyValidBlocks ==
  \A b \in {dbBest, TipBestBlock} \cup (IF job.phase = "ready" THEN {viewBest} ELSE {}) :
     b # NoBlock => CoinsValid(b)

(* The three layers of caching implement three plain maps.                   *)
Disk == [coins |-> db, best |-> dbBest]
Mem  == [coins |-> [t \in TxIds |-> TipCoins(t)], best |-> TipBestBlock]
Work == [coins |-> [t \in TxIds |-> ViewCoins(t)], best |-> ViewBestBlock]
Store == INSTANCE UtxoStore WITH disk <- Disk, mem <- Mem, work <- Work
ImplementsUtxoStore == Store!StoreSpec
=============================================================================
