----------------------------- MODULE ChainState -----------------------------
(***************************************************************************)
(* The block index and the choice of the active chain, from main.cpp:       *)
(* mapBlockIndex with nStatus, nTx, nChainTx and nSequenceId of every       *)
(* entry, setBlockIndexCandidates, mapBlocksUnlinked, chainActive,          *)
(* setDirtyBlockIndex, the block of pcoinsTip, and what of it is on disk.   *)
(*                                                                          *)
(* Headers and blocks arrive in any order.  ActivateBestChain runs in       *)
(* several critical sections of cs_main; in each it looks for the best      *)
(* candidate and connects blocks until the chain is better than it was, and *)
(* between two of them other threads may change everything.  job is what    *)
(* the holder of cs_main is doing.  Inside a critical section the process   *)
(* may die between any two blocks, and whenever FlushStateToDisk runs.      *)
(*                                                                          *)
(* A definition that no action uses, right before one whose name it extends *)
(* (LinkedThroughGaps before Linked), is that one with a plausible error in  *)
(* it.  It is there to show that a property would notice.                   *)
(***************************************************************************)
EXTENDS Integers, FiniteSets

CONSTANTS
  Blocks,     \* block hashes
  Genesis,    \* hashGenesisBlock
  NoBlock,    \* no block
  Parent,     \* pprev
  Chain,      \* for each block, itself and all its ancestors
  Height,     \* nHeight
  Work,       \* nChainWork
  Addr,       \* rank of the index entries by address
  BadBlock,   \* blocks that ContextualCheckBlock rejects
  BadSpend,   \* blocks that only ConnectBlock finds invalid
  Keep,       \* MIN_BLOCKS_TO_KEEP
  Features    \* which of the events below the instance has

AllFeatures == {"flush", "crash", "prune", "invalidate", "reconsider",
                "unrequested", "forced", "diskFull"}

ASSUME ChainStateAssumption ==
  /\ IsFiniteSet(Blocks)
  /\ Genesis \in Blocks /\ NoBlock \notin Blocks
  /\ Parent \in [Blocks -> Blocks \cup {NoBlock}]
  /\ \A b \in Blocks : Parent[b] = NoBlock <=> b = Genesis
  /\ Height \in [Blocks -> Nat] /\ Work \in [Blocks -> Nat] /\ Addr \in [Blocks -> Nat]
  /\ \A b \in Blocks \ {Genesis} :
        /\ Height[b] = Height[Parent[b]] + 1
        /\ Work[b] > Work[Parent[b]]
        /\ Chain[b] = {b} \cup Chain[Parent[b]]
        /\ b \notin Chain[Parent[b]]
  /\ Chain \in [Blocks -> SUBSET Blocks]
  /\ Chain[Genesis] = {Genesis}
  /\ \A a, b \in Blocks : Addr[a] = Addr[b] => a = b
  /\ BadBlock \cup BadSpend \subseteq Blocks \ {Genesis}
  /\ Keep \in Nat /\ Features \subseteq AllFeatures
-----------------------------------------------------------------------------
VARIABLES
  index,       \* mapBlockIndex: the part of an entry that is written to disk
  chainTx,     \* the entries with nChainTx # 0
  seq,         \* nSequenceId
  candidates,  \* setBlockIndexCandidates
  unlinked,    \* mapBlocksUnlinked, without its keys (always pprev)
  dirty,       \* setDirtyBlockIndex
  tip,         \* chainActive.Tip()
  coins,       \* pcoinsTip->GetBestBlock()
  diskIndex,   \* the block index database
  diskCoins,   \* DB_BEST_BLOCK of the chainstate database
  job,         \* what the holder of cs_main is doing
  pending,     \* a thread is in ActivateBestChain and has not seen it done
  node         \* "up", "stopping" after AbortNode, "down" before a start

memVars  == <<index, chainTx, seq, candidates, unlinked, dirty>>
diskVars == <<diskIndex, diskCoins>>
vars == <<index, chainTx, seq, candidates, unlinked, dirty, tip, coins,
          diskIndex, diskCoins, job, pending, node>>

(* BlockStatus: the three validity levels the code ever raises an entry to.  *)
TREE == 2
TRANSACTIONS == 3
SCRIPTS == 5

(* nStatus, split into its parts, and whether nTx is set.                    *)
Entry == [level : {TREE, TRANSACTIONS, SCRIPTS}, data : BOOLEAN, undo : BOOLEAN,
          failedValid : BOOLEAN, failedChild : BOOLEAN, nTx : BOOLEAN]
Absent == [level |-> 0]
NewEntry == [level |-> TREE, data |-> FALSE, undo |-> FALSE,
             failedValid |-> FALSE, failedChild |-> FALSE, nTx |-> FALSE]
Index == [Blocks -> Entry \cup {Absent}]

Known == {b \in Blocks : index[b] # Absent}
Failed(e) == e.failedValid \/ e.failedChild
IsValid(e, nUpTo) == ~Failed(e) /\ e.level >= nUpTo
RaiseValidityUnmasked(e, nUpTo) ==   \* nStatus |= nUpTo: 3 | 5 is 7
  IF Failed(e) THEN e
  ELSE [e EXCEPT !.level = IF @ = TRANSACTIONS /\ nUpTo = SCRIPTS THEN 7 ELSE nUpTo]
RaiseValidity(e, nUpTo) ==
  IF ~Failed(e) /\ e.level < nUpTo THEN [e EXCEPT !.level = nUpTo] ELSE e

(* CBlockIndexWorkComparator: a sorts before b, that is, it is the worse     *)
(* one; s holds the sequence numbers.                                        *)
WorseBySeq(a, b, s) == Work[a] < Work[b] \/ (Work[a] = Work[b] /\ s[a] > s[b])
WorseIn(s, a, b) ==
  \/ WorseBySeq(a, b, s)
  \/ Work[a] = Work[b] /\ s[a] = s[b] /\ Addr[a] > Addr[b]
Worse(a, b) == WorseIn(seq, a, b)

(* The blocks from b down to the active chain, which they do not belong to.  *)
OffChain(b) == Chain[b] \ Chain[tip]

(* target and old are pindexMostWork and the chain's tip when the section     *)
(* began, or the block being invalidated; move is the move whose view was     *)
(* flushed into pcoinsTip before UpdateTip tells chainActive of it.           *)
Free == [phase |-> "free", target |-> NoBlock, old |-> NoBlock, move |-> "none"]
JobType == [phase : {"free", "find", "step", "invalidate", "update", "flush"},
            target : Blocks \cup {NoBlock}, old : Blocks \cup {NoBlock},
            move : {"none", "connect", "disconnect", "invalidate"}]

(* After InitBlockIndex: the genesis block is active and flushed.            *)
GenesisEntry == [NewEntry EXCEPT !.level = TRANSACTIONS, !.data = TRUE, !.nTx = TRUE]
Init ==
  /\ index = [b \in Blocks |-> IF b = Genesis THEN GenesisEntry ELSE Absent]
  /\ chainTx = {Genesis}
  /\ seq = [b \in Blocks |-> IF b = Genesis THEN 1 ELSE 0]
  /\ candidates = {Genesis} /\ unlinked = {} /\ dirty = {}
  /\ tip = Genesis /\ coins = Genesis
  /\ diskIndex = index /\ diskCoins = Genesis
  /\ job = Free /\ pending = FALSE /\ node = "up"

(* cs_main is free and the process runs: a thread may enter.                 *)
Enter == node # "down" /\ job = Free
-----------------------------------------------------------------------------
(* AcceptBlockHeader: the parent must be known and not marked invalid.       *)
HeaderFits(b) == Parent[b] \in Known /\ ~Failed(index[Parent[b]])

AcceptBlockHeader == \E b \in Blocks \ Known :
  /\ Enter
  /\ HeaderFits(b)
  /\ index' = [index EXCEPT ![b] = NewEntry]
  /\ dirty' = dirty \cup {b}
  /\ UNCHANGED <<chainTx, seq, candidates, unlinked, tip, coins, diskVars, job, pending, node>>

(* The blocks ReceivedBlockTransactions links when b is received: b, and     *)
(* the descendants that wait in mapBlocksUnlinked one after the other.       *)
LinkedJustReceived(b) == {b}
LinkedThroughGaps(b) == {b} \cup {x \in unlinked : b \in Chain[x]}
Linked(b) == {b} \cup {x \in unlinked : b \in Chain[x] /\ Chain[x] \ Chain[b] \subseteq unlinked}

(* Each linked block gets the next nSequenceId.  Only the order among blocks *)
(* of the same work is ever looked at, so the number is kept as a rank among *)
(* those.  Within one batch the order is that of the multimap, left open: pos. *)
Orders(L) == {p \in [L -> 1 .. Cardinality(L)] : \A x, y \in L : p[x] = p[y] => x = y}
Resequenced(L, pos) ==
  LET key == [x \in Blocks |-> IF x \in L THEN Cardinality(Blocks) + pos[x] ELSE seq[x]]
  IN  [x \in Blocks |-> IF key[x] = 0 THEN 0
         ELSE Cardinality({y \in Blocks : Work[y] = Work[x] /\ key[y] \in 1 .. key[x]})]

(* ReceivedBlockTransactions for block b whose entry was e.                  *)
ReceivedBlockTransactions(b, e) ==
  /\ index' = [index EXCEPT ![b] =
                 RaiseValidity([e EXCEPT !.nTx = TRUE, !.data = TRUE], TRANSACTIONS)]
  /\ dirty' = dirty \cup {b}
  /\ IF Parent[b] \in chainTx
     THEN LET L == Linked(b) IN
          /\ \E pos \in Orders(L) : seq' = Resequenced(L, pos)
          /\ chainTx' = chainTx \cup L
          /\ candidates' = candidates \cup {x \in L : ~WorseIn(seq', x, tip)}
          /\ unlinked' = unlinked \ (L \ {b})
     ELSE /\ chainTx' = chainTx \ {b}
          /\ unlinked' = IF IsValid(index[Parent[b]], TREE) THEN unlinked \cup {b} ELSE unlinked
          /\ UNCHANGED <<seq, candidates>>

(* AcceptBlock, and the call of ActivateBestChain that follows it in         *)
(* ProcessNewBlock.  A block nobody asked for must be new, have more work    *)
(* than the tip and not be too far ahead; the node itself asks only for      *)
(* blocks it lacks off the active chain, but fForceProcessing skips this.    *)
WantedUnrequested(b, e) ==
  /\ ~e.nTx
  /\ Work[b] > Work[tip]
  /\ Height[b] <= Height[tip] + Keep

AcceptBlock == \E b \in Blocks \ {Genesis}, fRequested \in BOOLEAN :
  LET e == IF b \in Known THEN index[b] ELSE NewEntry IN
  /\ Enter
  /\ IF b \in Known THEN ~Failed(index[b]) ELSE HeaderFits(b)
  /\ ~e.data
  /\ IF fRequested THEN b \notin Chain[tip] \/ "forced" \in Features
     ELSE "unrequested" \in Features /\ WantedUnrequested(b, e)
  /\ UNCHANGED <<tip, coins, diskVars, job, node>>
  /\ \/ /\ b \in BadBlock
        /\ index' = [index EXCEPT ![b] = [e EXCEPT !.failedValid = TRUE]]
        /\ dirty' = dirty \cup {b}
        /\ UNCHANGED <<chainTx, seq, candidates, unlinked, pending>>
     \/ /\ b \notin BadBlock
        /\ ReceivedBlockTransactions(b, e)
        /\ pending' = TRUE

(* A block that is there already, or was dismissed, is no error: AcceptBlock *)
(* returns true and ActivateBestChain runs.                                  *)
AcceptBlockAgain == \E b \in Known :
  /\ Enter
  /\ ~Failed(index[b])
  /\ index[b].data \/ ("unrequested" \in Features /\ ~WantedUnrequested(b, index[b]))
  /\ pending' = TRUE
  /\ UNCHANGED <<memVars, tip, coins, diskVars, job, node>>
-----------------------------------------------------------------------------
(* A critical section of ActivateBestChain begins.                           *)
EnterActivateBestChain ==
  /\ Enter /\ pending
  /\ job' = [Free EXCEPT !.phase = "find", !.old = tip]
  /\ UNCHANGED <<memVars, tip, coins, diskVars, pending, node>>

IsBest(b) == b \in candidates /\ \A c \in candidates \ {b} : Worse(c, b)
Unusable(b) == Failed(index[b]) \/ ~index[b].data
(* The first unusable block met when walking down from b to the chain.       *)
IsFirstUnusable(m, b) ==
  /\ m \in OffChain(b) /\ Unusable(m)
  /\ \A x \in OffChain(b) : Unusable(x) => x \in Chain[m]

(* The blocks above a failed one are failed too; those above a missing one   *)
(* go back to mapBlocksUnlinked.                                             *)
FailedChainOrMissing(m) == TRUE
FailedChain(m) == Failed(index[m])
AddedBack(above) == unlinked \cup above

(* One turn of the loop of FindMostWorkChain.                                *)
FindMostWorkChain ==
  /\ job.phase = "find"
  /\ UNCHANGED <<chainTx, seq, dirty, tip, coins, diskVars, node>>
  /\ \/ /\ candidates = {}
        /\ job' = Free /\ pending' = FALSE
        /\ UNCHANGED <<index, candidates, unlinked>>
     \/ \E b \in candidates :
        /\ IsBest(b)
        /\ \A x \in OffChain(b) : ~Unusable(x)
        /\ IF b = tip THEN job' = Free /\ pending' = FALSE
           ELSE job' = [job EXCEPT !.phase = "step", !.target = b] /\ UNCHANGED pending
        /\ UNCHANGED <<index, candidates, unlinked>>
     \/ \E b \in candidates, m \in Blocks :
        /\ IsBest(b) /\ IsFirstUnusable(m, b)
        /\ LET above == Chain[b] \ Chain[m] IN
           /\ candidates' = candidates \ (above \cup {m})
           /\ IF FailedChain(m)
              THEN /\ index' = [x \in Blocks |-> IF x \in above
                                  THEN [index[x] EXCEPT !.failedChild = TRUE] ELSE index[x]]
                   /\ UNCHANGED unlinked
              ELSE /\ unlinked' = AddedBack(above)
                   /\ UNCHANGED index
        /\ UNCHANGED <<job, pending>>

(* The section ends.  The thread leaves ActivateBestChain when the tip is    *)
(* what it was looking for.  It looks without cs_main; if another thread     *)
(* moved the tip meanwhile, it goes round once more, like AcceptBlockAgain.  *)
LeaveAlways(newTip) == job' = Free /\ pending' = FALSE
Leave(newTip) == job' = Free /\ pending' = (newTip # job.target)

(* return false: ActivateBestChain, if it is that which runs, gives up.       *)
AbortNode ==
  /\ job' = Free /\ node' = "stopping"
  /\ pending' = (pending /\ job.phase # "step" /\ job.move \notin {"connect", "disconnect"})

(* "Verify that the view's current state corresponds to the previous block", *)
(* in ConnectBlock, and the like in DisconnectBlock: two assertions.         *)
ViewIsAt(b) == coins = b

(* DisconnectTip, up to the flush of its view into pcoinsTip.  Without the   *)
(* block it calls AbortNode; without its undo data it just fails, and the    *)
(* RPC, which looks at the CValidationState only, calls ActivateBestChain.   *)
DisconnectTip(move) ==
  \/ /\ index[tip].data /\ index[tip].undo /\ ViewIsAt(tip)
     /\ coins' = Parent[tip]
     /\ job' = [job EXCEPT !.phase = "update", !.move = move]
     /\ UNCHANGED <<pending, node>>
  \/ ~index[tip].data /\ AbortNode /\ UNCHANGED coins
  \/ /\ index[tip].data /\ ~index[tip].undo /\ ViewIsAt(tip)
     /\ job' = Free /\ pending' = (move = "invalidate")
     /\ UNCHANGED <<coins, node>>

StepDisconnect ==
  /\ job.phase = "step" /\ tip \notin Chain[job.target]
  /\ DisconnectTip("disconnect")
  /\ UNCHANGED <<memVars, tip, diskVars>>

(* ConnectTip, up to the flush of its view: ConnectBlock writes undo data    *)
(* and raises the validity the first time; InvalidBlockFound marks the block.*)
NextBlock(b) == b \in OffChain(job.target) /\ Parent[b] = tip

ConnectTip == \E b \in Blocks :
  /\ job.phase = "step" /\ NextBlock(b) /\ index[b].data /\ ViewIsAt(tip) /\ b \notin BadSpend
  /\ IF index[b].undo /\ IsValid(index[b], SCRIPTS)
     THEN UNCHANGED <<index, dirty>>
     ELSE /\ index' = [index EXCEPT ![b] = RaiseValidity([@ EXCEPT !.undo = TRUE], SCRIPTS)]
          /\ dirty' = dirty \cup {b}
  /\ coins' = b
  /\ job' = [job EXCEPT !.phase = "update", !.move = "connect"]
  /\ UNCHANGED <<chainTx, seq, candidates, unlinked, tip, diskVars, pending, node>>

InvalidBlockFound == \E b \in Blocks :
  /\ job.phase = "step" /\ NextBlock(b) /\ index[b].data /\ ViewIsAt(tip) /\ b \in BadSpend
  /\ index' = [index EXCEPT ![b].failedValid = TRUE]
  /\ dirty' = dirty \cup {b}
  /\ candidates' = candidates \ {b}
  /\ Leave(tip)
  /\ UNCHANGED <<chainTx, seq, unlinked, tip, coins, diskVars, node>>

(* A deep reorganisation may prune a block it is about to connect.           *)
FailedToRead == \E b \in Blocks :
  /\ job.phase = "step" /\ NextBlock(b) /\ ~index[b].data
  /\ AbortNode
  /\ UNCHANGED <<memVars, tip, coins, diskVars>>

(* UpdateTip ends both.  After a connect, PruneBlockIndexCandidates, and the *)
(* step is over when the chain is better than it was or is complete.         *)
NotWorse(C, t) == {c \in C : ~Worse(c, t)}
UpdateTip ==
  /\ job.phase = "update"
  /\ tip' = coins
  /\ UNCHANGED <<index, chainTx, seq, unlinked, dirty, coins, diskVars, node>>
  /\ IF job.move = "connect"
     THEN /\ candidates' = NotWorse(candidates, coins)
          /\ IF Work[coins] > Work[job.old] \/ coins = job.target
             THEN Leave(coins)
             ELSE job' = [job EXCEPT !.phase = "step", !.move = "none"] /\ UNCHANGED pending
     ELSE /\ job' = [job EXCEPT !.phase = IF job.move = "disconnect" THEN "step" ELSE "invalidate",
                                !.move = "none"]
          /\ UNCHANGED <<candidates, pending>>
-----------------------------------------------------------------------------
(* The RPC invalidateblock: the block is marked, then the chain is taken     *)
(* back below it, one DisconnectTip at a time, under one lock.               *)
InvalidateBlock == \E b \in Known \ {Genesis} :
  /\ Enter /\ "invalidate" \in Features
  /\ index' = [index EXCEPT ![b].failedValid = TRUE]
  /\ dirty' = dirty \cup {b}
  /\ candidates' = candidates \ {b}
  /\ job' = [Free EXCEPT !.phase = "invalidate", !.target = b]
  /\ UNCHANGED <<chainTx, seq, unlinked, tip, coins, diskVars, pending, node>>

InvalidateTip ==
  /\ job.phase = "invalidate" /\ job.target \in Chain[tip]
  /\ index' = [index EXCEPT ![tip].failedChild = TRUE]
  /\ dirty' = dirty \cup {tip}
  /\ candidates' = candidates \ {tip}
  /\ DisconnectTip("invalidate")
  /\ UNCHANGED <<chainTx, seq, unlinked, tip, diskVars>>

(* "The resulting new best tip may not be in setBlockIndexCandidates         *)
(* anymore, so add it again": every linked block that is not worse.          *)
Linkable(idx) == {b \in chainTx : IsValid(idx[b], TRANSACTIONS)}
InvalidateDoneAsIs ==
  /\ job.phase = "invalidate" /\ job.target \notin Chain[tip]
  /\ job' = Free /\ pending' = TRUE
  /\ UNCHANGED <<memVars, tip, coins, diskVars, node>>
InvalidateDoneAtOnce ==
  /\ job.phase = "invalidate"
  /\ candidates' = candidates \cup NotWorse(Linkable(index), tip)
  /\ job' = Free /\ pending' = TRUE
  /\ UNCHANGED <<index, chainTx, seq, unlinked, dirty, tip, coins, diskVars, node>>
InvalidateDone ==
  /\ job.phase = "invalidate" /\ job.target \notin Chain[tip]
  /\ candidates' = candidates \cup NotWorse(Linkable(index), tip)
  /\ job' = Free /\ pending' = TRUE
  /\ UNCHANGED <<index, chainTx, seq, unlinked, dirty, tip, coins, diskVars, node>>

(* Of the blocks that were cleared, those better than the tip.               *)
BetterAll(S) == S
Better(S) == {x \in S : Worse(tip, x)}

(* The RPC reconsiderblock clears the marks of b, of its descendants and of  *)
(* its ancestors.                                                            *)
ReconsiderBlock == \E b \in Known :
  LET below == {x \in Known : b \in Chain[x] /\ ~IsValid(index[x], TRANSACTIONS)}
      above == {x \in Chain[b] : Failed(index[x])}
      cleared == [x \in Blocks |-> IF x \in below \cup above
                    THEN [index[x] EXCEPT !.failedValid = FALSE, !.failedChild = FALSE]
                    ELSE index[x]]
  IN
  /\ Enter /\ "reconsider" \in Features
  /\ index' = cleared
  /\ dirty' = dirty \cup below \cup above
  /\ candidates' = candidates \cup Better(below \cap Linkable(cleared))
  /\ pending' = TRUE
  /\ UNCHANGED <<chainTx, seq, unlinked, tip, coins, diskVars, job, node>>
-----------------------------------------------------------------------------
(* FlushStateToDisk.  It may prune block files that hold no block near the   *)
(* tip; it then writes the dirty index entries in one batch, and in a full   *)
(* flush pcoinsTip after that.  A file may hold any such blocks.             *)
Prunable == IF "prune" \in Features
            THEN {b \in Known : index[b].data /\ Height[b] <= Height[tip] - Keep} ELSE {}

PruneOneBlockFileKeepUndo(S) ==
  [b \in Blocks |-> IF b \in S THEN [index[b] EXCEPT !.data = FALSE] ELSE index[b]]
PruneOneBlockFile(S) ==
  [b \in Blocks |-> IF b \in S THEN [index[b] EXCEPT !.data = FALSE, !.undo = FALSE]
                    ELSE index[b]]

PruneUnlinked(S) == unlinked \ S

(* WriteBatchSync: the dirty entries, those just pruned included.            *)
WriteBatchSyncNothing(idx, S) == diskIndex
WriteBatchSyncWithoutPruned(idx, S) ==
  [b \in Blocks |-> IF b \in dirty \ S THEN idx[b] ELSE diskIndex[b]]
WriteBatchSync(idx, S) ==
  [b \in Blocks |-> IF b \in dirty \cup S THEN idx[b] ELSE diskIndex[b]]

FlushStateToDisk == \E S \in SUBSET Prunable, fDoFullFlush \in BOOLEAN :
  /\ "flush" \in Features
  /\ node # "down" /\ (job = Free \/ job.phase = "update")
  /\ S # {} \/ job.phase = "update" => fDoFullFlush
  /\ index' = PruneOneBlockFile(S)
  /\ unlinked' = PruneUnlinked(S)
  /\ diskIndex' = WriteBatchSync(PruneOneBlockFile(S), S)
  /\ dirty' = {}
  /\ job' = IF fDoFullFlush THEN [job EXCEPT !.phase = "flush"] ELSE job
  /\ UNCHANGED <<chainTx, seq, candidates, tip, coins, diskCoins, pending, node>>

(* A flush that fails: there is no space, at the first or the second look, or *)
(* the write of pcoinsTip throws.  ConnectTip and DisconnectTip return before *)
(* UpdateTip then, and chainActive no longer is where the coins are.         *)
NoSpaceForIndex ==
  /\ "diskFull" \in Features
  /\ node # "down" /\ (job = Free \/ job.phase = "update")
  /\ \E S \in SUBSET Prunable :
       index' = PruneOneBlockFile(S) /\ unlinked' = PruneUnlinked(S) /\ dirty' = dirty \cup S
  /\ AbortNode
  /\ UNCHANGED <<chainTx, seq, candidates, tip, coins, diskVars>>
CoinsNotFlushed ==
  /\ "diskFull" \in Features /\ job.phase = "flush"
  /\ AbortNode
  /\ UNCHANGED <<memVars, tip, coins, diskVars>>

FlushCoinsAndReturn ==
  /\ job.phase = "flush"
  /\ diskCoins' = coins
  /\ job' = Free
  /\ UNCHANGED <<memVars, tip, coins, diskIndex, pending, node>>
FlushCoins ==
  /\ job.phase = "flush"
  /\ diskCoins' = coins
  /\ job' = IF job.move = "none" THEN Free ELSE [job EXCEPT !.phase = "update"]
  /\ UNCHANGED <<memVars, tip, coins, diskIndex, pending, node>>

(* The process ends, at any point or, with its flush, in Shutdown.  What is  *)
(* in memory is gone.                                                        *)
Nothing == [b \in Blocks |-> Absent]
Stop ==
  /\ index' = Nothing /\ seq' = [b \in Blocks |-> 0]
  /\ chainTx' = {} /\ candidates' = {} /\ unlinked' = {} /\ dirty' = {}
  /\ tip' = NoBlock /\ coins' = NoBlock
  /\ job' = Free /\ pending' = FALSE /\ node' = "down"

Crash ==
  /\ "crash" \in Features /\ node # "down"
  /\ Stop
  /\ UNCHANGED diskVars

(* An assertion of ViewIsAt fails: the process is gone.                       *)
AssertionFails ==
  /\ ~ViewIsAt(tip)
  /\ \/ /\ \/ job.phase = "step" /\ tip \notin Chain[job.target]
           \/ job.phase = "invalidate" /\ job.target \in Chain[tip]
        /\ index[tip].data
     \/ job.phase = "step" /\ \E b \in Blocks : NextBlock(b) /\ index[b].data
  /\ Stop
  /\ UNCHANGED diskVars

Shutdown ==
  /\ "crash" \in Features \/ node = "stopping"
  /\ Enter
  /\ Stop
  /\ diskIndex' = WriteBatchSync(index, {})
  /\ diskCoins' = coins

(* LoadBlockIndexDB rebuilds everything from the two databases, and start-up *)
(* then calls ActivateBestChain.  PruneBlockIndexCandidates asserts that a   *)
(* candidate is left; a node for which none is cannot start.                 *)
Stored == {b \in Blocks : diskIndex[b] # Absent}
StoredChainTx == {b \in Stored : \A x \in Chain[b] : x \in Stored /\ diskIndex[x].nTx}
StartCandidates ==
  {b \in StoredChainTx : /\ IsValid(diskIndex[b], TRANSACTIONS)
                         /\ ~WorseIn([x \in Blocks |-> 0], b, diskCoins)}

LoadBlockIndexDB ==
  /\ node = "down" /\ StartCandidates # {}
  /\ index' = diskIndex
  /\ chainTx' = StoredChainTx
  /\ seq' = [b \in Blocks |-> 0]
  /\ unlinked' = {b \in Stored \ {Genesis} : diskIndex[b].nTx /\ Parent[b] \notin StoredChainTx}
  /\ candidates' = StartCandidates
  /\ dirty' = {}
  /\ tip' = diskCoins /\ coins' = diskCoins
  /\ job' = Free /\ pending' = TRUE /\ node' = "up"
  /\ UNCHANGED diskVars

(* Every later start of such a node fails in the same way.                   *)
StartFails == node = "down" /\ StartCandidates = {} /\ UNCHANGED vars

Activation == \/ EnterActivateBestChain \/ FindMostWorkChain
              \/ StepDisconnect \/ ConnectTip \/ InvalidBlockFound \/ FailedToRead
              \/ UpdateTip
Rpc == InvalidateBlock \/ InvalidateTip \/ InvalidateDone \/ ReconsiderBlock

Next ==
  \/ AcceptBlockHeader \/ AcceptBlock \/ AcceptBlockAgain
  \/ Activation \/ Rpc
  \/ FlushStateToDisk \/ FlushCoins
  \/ NoSpaceForIndex \/ CoinsNotFlushed \/ AssertionFails
  \/ Crash \/ Shutdown \/ LoadBlockIndexDB \/ StartFails

Spec == Init /\ [][Next]_vars

(* A thread that is in ActivateBestChain gets cs_main again and again, as     *)
(* flushes are an hour apart, and goes on; a flush that was begun ends.      *)
FairSpec == Spec /\ SF_vars(Activation) /\ WF_vars(FlushCoins)
-----------------------------------------------------------------------------
TypeOK ==
  /\ index \in Index /\ diskIndex \in Index
  /\ chainTx \subseteq Blocks /\ candidates \subseteq Blocks
  /\ unlinked \subseteq Blocks /\ dirty \subseteq Blocks
  /\ seq \in [Blocks -> Nat]
  /\ tip \in Blocks \cup {NoBlock} /\ coins \in Blocks \cup {NoBlock}
  /\ diskCoins \in Blocks
  /\ job \in JobType /\ pending \in BOOLEAN
  /\ node \in {"up", "stopping", "down"}

(* What CheckBlockIndex looks at whenever a thread holds cs_main.            *)
LockFree == node # "down" /\ job = Free
Invalid(b) == \E x \in Chain[b] : index[x].failedValid
NeverProcessed(b) == \E x \in Chain[b] : ~index[x].nTx
Missing(b) == \E x \in Chain[b] : ~index[x].data

(* nChainTx is set exactly for blocks all of whose ancestors were received,  *)
(* in whatever order they came, and only those have a sequence number.       *)
LinkedExactly == LockFree => \A b \in Known :
  /\ b \in chainTx <=> ~NeverProcessed(b)
  /\ seq[b] # 0 => b \in chainTx

(* The parts of nStatus agree: level with nTx, undo data with block data,    *)
(* and a block is SCRIPTS valid only over a chain that is.                   *)
StatusConsistent == LockFree => \A b \in Known :
  /\ index[b].nTx <=> index[b].level >= TRANSACTIONS
  /\ index[b].data => index[b].nTx
  /\ index[b].undo => index[b].data
  /\ index[b].level = SCRIPTS => \A x \in Chain[b] \ {Genesis} : index[x].level = SCRIPTS

(* "The failed mask cannot be set for blocks without invalid parents."       *)
FailedHasInvalidAncestor == LockFree => \A b \in Known : Failed(index[b]) => Invalid(b)

(* "If this block sorts at least as good as the current tip and is valid and *)
(* we have all data for its parents, it must be in setBlockIndexCandidates." *)
BetterMustBeCandidate(b) ==
  (/\ ~Worse(b, tip) /\ ~NeverProcessed(b) /\ ~Invalid(b)
   /\ ~Missing(b) \/ b = tip) => b \in candidates
BetterAreCandidates == LockFree => \A b \in Known : BetterMustBeCandidate(b)

Quiescent == node = "up" /\ job = Free /\ ~pending

(* The same once no thread is in the middle of ActivateBestChain.            *)
QuiescentBetterAreCandidates ==
  Quiescent => \A b \in Known : BetterMustBeCandidate(b)

(* "If this block sorts worse than the current tip or some ancestor's block  *)
(* has never been seen, it cannot be in setBlockIndexCandidates."            *)
CandidatesSound == LockFree => \A b \in candidates : ~Worse(b, tip) /\ ~NeverProcessed(b)

(* A block that was received before an ancestor waits in mapBlocksUnlinked,  *)
(* and so does a better chain that lost a block file once no thread is in    *)
(* the middle of ActivateBestChain: nothing else would ever link it.         *)
NeverLinked(b) == LockFree /\ NeverProcessed(b)
LostAFile(b) ==
  Quiescent /\ ~NeverProcessed(b) /\ Missing(b) /\ ~Worse(b, tip) /\ b \notin candidates
WaitingAreUnlinked == \A b \in Known \ {Genesis} :
  index[b].data /\ ~Invalid(b) /\ (NeverLinked(b) \/ LostAFile(b)) => b \in unlinked

(* When every thread has left ActivateBestChain, no chain that is complete   *)
(* and not marked invalid sorts better than the active one.                  *)
UsableChain(b) ==
  /\ b \in Known
  /\ \A x \in Chain[b] : index[x].nTx /\ ~Failed(index[x])
  /\ \A x \in OffChain(b) : index[x].data
QuiescentTipIsBest ==
  Quiescent => \A b \in Known : UsableChain(b) => ~Worse(tip, b)

(* A complete chain that is not marked invalid is active in the end, or a    *)
(* better one is, or a block of it turns out to be invalid or is pruned, or  *)
(* the node is going down.                                                   *)
EventuallyActive == \A b \in Blocks :
  UsableChain(b) ~> (~UsableChain(b) \/ ~Worse(tip, b) \/ node = "stopping")

(* Nor is a block that is marked invalid in the active chain then ("force    *)
(* disconnect away from it"), unless pruning took the undo data of a block   *)
(* on it or above it, which DisconnectTip needs.                             *)
ActiveChainNotFailed == Quiescent =>
  \A b \in Chain[tip] : Failed(index[b]) =>
     \E x \in Chain[tip] : b \in Chain[x] /\ ~index[x].undo

(* An entry that is not in setDirtyBlockIndex is on disk as it is in memory; *)
(* only the marks FindMostWorkChain derives from an ancestor's are not kept. *)
SameOnDisk(b) ==
  IF index[b] = Absent \/ diskIndex[b] = Absent THEN index[b] = diskIndex[b]
  ELSE [index[b] EXCEPT !.failedChild = FALSE] = [diskIndex[b] EXCEPT !.failedChild = FALSE]
DirtyIsComplete == node # "down" => \A b \in Blocks \ dirty : SameOnDisk(b)

(* "Flush the chainstate (which may refer to block index entries)": whenever *)
(* the process dies, the chain the coins belong to is in the index on disk,  *)
(* connected before, and every entry there has its parent.                   *)
DiskChainIsIndexed ==
  /\ \A b \in Chain[diskCoins] \ {Genesis} :
        diskIndex[b] # Absent /\ diskIndex[b].level = SCRIPTS
  /\ \A b \in Blocks \ {Genesis} : diskIndex[b] # Absent => diskIndex[Parent[b]] # Absent

(* Whenever the process dies, it can start again.                            *)
RestartSucceeds == StartCandidates # {}

(* The coins and chainActive are one block apart at most, and, until a flush  *)
(* fails and the node goes down, only inside ConnectTip or DisconnectTip; so  *)
(* the assertion of ConnectBlock that the view is at the block's parent holds.*)
CoinsFollowChain == node # "down" =>
  \/ node = "stopping" /\ (Parent[coins] = tip \/ Parent[tip] = coins)
  \/ coins = tip
  \/ job.phase \in {"update", "flush"} /\ (Parent[coins] = tip \/ Parent[tip] = coins)
=============================================================================
