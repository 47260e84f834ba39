# A TLA+ verification of ROIcoin's validation core

ROIcoin is a C++ full node in the line of Bitcoin Core 0.11 and HOdlcoin. This
directory holds TLA+ modules of the parts that decide which chain is the active
one, what its unspent outputs are and are worth, which transactions wait for the next
block and how blocks are fetched from peers, TLC
configurations that model-check them
on small instances, and TLAPS proofs of theorems about them for every instance.
Paths below are relative to the repository's `src/` directory of C++ code.

1. [The system](#1-the-system) – components, state, operations, what is hard
2. [The modules](#2-the-modules) – how variables and actions correspond to the code
3. [The runs](#3-the-runs) – what each one shows, bounds, fairness
4. [The proofs](#4-the-proofs) – what is proved, from what, along which argument
5. [What the checks found](#5-what-the-checks-found)
6. [What is not modelled](#6-what-is-not-modelled)
7. [Plan](#7-plan)

## 1. The system

### Components

| component | code | state | operations |
|---|---|---|---|
| UTXO set | `coins.*`, `undo.h`, `txdb.cpp` | `coinsdb` (LevelDB), `pcoinsTip`, the view of a block under test: entries with DIRTY and FRESH, `hashBlock`, `cachedCoinsUsage` | `FetchCoins`, `ModifyCoins`, `BatchWrite`, `Flush`, `ConnectBlock`, `DisconnectBlock` |
| Chain state | `main.cpp`, `chain.*` | `mapBlockIndex` (`nStatus`, `nTx`, `nChainTx`, `nSequenceId`), `setBlockIndexCandidates`, `mapBlocksUnlinked`, `chainActive`, `setDirtyBlockIndex`, both databases | `AcceptBlockHeader`, `AcceptBlock`, `ActivateBestChain`, `InvalidateBlock`, `ReconsiderBlock`, pruning, `FlushStateToDisk`, `LoadBlockIndexDB` |
| Script check queue | `checkqueue.h`, `ConnectBlock` | `queue`, `nIdle`, `nTotal`, `fAllOk`, `nTodo` | `Add`, `Wait`, `Loop`, interruption |
| Memory pool | `txmempool.*`, `AcceptToMemoryPool`, `ConnectTip`, `DisconnectTip` | `mapTx`, `mapNextTx`, `totalTxSize`, `mapDeltas` | accept, `remove`, `removeConflicts`, `removeForBlock`, `removeCoinbaseSpends`, `check` |
| Interest | `primitives/transaction.cpp` | the global `chainHeight` | `GetInterest`, `setNumBlock` |
| Block download | `main.cpp` 180–492, `SendMessages`, the `inv`, `headers` and `block` messages | `CNodeState`, `mapBlocksInFlight`, `nQueuedValidatedHeaders`, `nPreferredDownload`, `nSyncStarted`, `pindexBestHeader`, `mapBlockSource` | `MarkBlockAsInFlight`, `MarkBlockAsReceived`, `FindNextBlocksToDownload`, `SendMessages`, `FinalizeNode` |
| Transaction relay | `main.cpp` 550–631, 3862–3883, 4416–4537 | `mapOrphanTransactions`, `mapOrphanTransactionsByPrev`, `recentRejects` | the `tx` message, `AddOrphanTx`, `EraseOrphanTx`, `LimitOrphanTxSize`, `EraseOrphansFor`, `AlreadyHave` |
| Scheduler | `scheduler.*` | `taskQueue`, `nThreadsServicingQueue`, stop flags | `schedule`, `serviceQueue`, `stop` |
| Miner | `miner.cpp`, `patternsearch.cpp` | block template, `minerStopFlag` | `CreateNewBlock`, `ProcessBlockFound` |
| Peers and addresses | `net.cpp`, `addrman.*` | sockets, `vNodes`, buckets | threads, `Good`, `Attempt`, `Select` |
| Wallet | `wallet/*` | `mapWallet`, keys, key pool | `AddToWallet`, `CreateTransaction`, `SyncTransaction` |
| The rest | RPC, REST, GUI, alerts, fees, filters, vendored libraries | | see `PROJECT.json` |

### How they interact

* `cs_main` protects the chain state and the coins. `ProcessNewBlock` takes it
  to accept a block, gives it up, and calls `ActivateBestChain`, which takes it
  once per step. RPC threads take it for `invalidateblock` and `reconsiderblock`
  and then call `ActivateBestChain` too.
* `ConnectTip` and `DisconnectTip` put a temporary view over `pcoinsTip`, run
  `ConnectBlock` or `DisconnectBlock` on it, flush it, perhaps write everything
  to disk, move transactions between chain and mempool, and call `UpdateTip`. While
  the mempool is repaired the coins are at one height and `chainActive` at another.
* `ConnectBlock` hands script checks to `scriptcheckqueue` and waits; worker
  threads serve it under the queue's own mutex.
* `FlushStateToDisk` writes the block index first and the coins after it. A start
  rebuilds everything in memory from the two databases.
* `GetInterest` reads the global `chainHeight`, which `UpdateTip` and the end of the
  start-up set; `CheckInputs`, the fee in `AcceptToMemoryPool` and `CTxMemPool::check`
  call it for heights of their own.
* The message handler calls `ProcessMessages` and `SendMessages` for each peer in turn,
  under `cs_main`; the sockets thread closes connections and calls `FinalizeNode`.
* Peers' messages, the wallet and the miner act on all this through
  `ProcessNewBlock`, `AcceptToMemoryPool` and the signals of
  `validationinterface`.

### What is hard

* **Interleaving.** Between two critical sections of `ActivateBestChain` blocks
  arrive, chains are invalidated, files pruned.
* **Order.** Blocks arrive before their parents; script checks finish in any order.
* **Crashes.** The two databases are written one after the other, and the coins
  at any distance behind the chain in memory.
* **Caches over caches.** DIRTY and FRESH of three layers must agree over long
  sequences of connects, disconnects and flushes.
* **Pruning.** Data disappears under candidates, waiting blocks, and the active
  chain.
* **Values that depend on height.** Interest makes a transaction's input value a
  function of the chain's height: what was affordable may not be a block earlier.
* **A global read out of step.** `chainHeight` decides on which side of the fork a coin's
  rates are, and is set after the coins have moved.
* **Writes that fail.** A full disk or a refused batch stops a flush in the middle, and
  the process goes on until it notices.
* **Peers that do not answer.** What was asked of one peer must not be asked of another,
  and must not be lost when the first is slow, silent or gone.
* **Dependent removals.** A transaction that leaves the pool takes its descendants
  along or leaves them behind, depending on why it goes; it may not even be in the pool.
* **Indexes walked over while they should change.** The handler of `tx` goes over the
  orphans of a parent, accepts and rejects them, and erases them only at the end.

`PROJECT.json` lists the hazards line by line, with the properties that cover each.

### What makes each component correct

* UTXO set: reads never depend on what is cached; the coins always are those of
  the block they name, in every layer and after a crash.
* Chain state: the best usable chain is found and becomes active; the incremental
  sets equal what a scan of the index would give; a restart always succeeds.
* Check queue: a block is valid exactly if all its checks are, it always gets an
  answer, and nothing of it is touched afterwards.
* Memory pool: its transactions have their inputs on the current tip or in the pool,
  `mapNextTx` is the inverse of its inputs, a reorganisation preserves both, loses
  nothing that fits, and drops nothing without a cause.
* Transaction relay: the orphans' index is exact, their number limited, and an orphan
  whose last parent is accepted is dealt with at once.
* Interest: what an input is worth depends on the chain only, not on when or by whom it
  is asked.
* Block download: a block is asked of one peer at a time, counters agree with the
  lists, a peer that answers is not punished, and one that does not holds nothing up
  for ever.

## 2. The modules

| module | what it is |
|---|---|
| `UtxoStore` | abstract: three plain UTXO maps, each with the block it belongs to |
| `CoinsView` | detailed: `coinsdb`, `pcoinsTip`, one temporary view, and their use by `ConnectBlock` and `DisconnectBlock` |
| `CoinsViewProofs` | theorems about `CoinsView` |
| `MCCoinsView` | a ten-block tree for TLC |
| `ChainState` | block index, choice of the active chain, flush, crash and start |
| `ChainStateProofs` | theorems about `ChainState`: types, databases, coins and chain |
| `ChainStateMarkProofs` | theorems about failed blocks, the active chain and starts |
| `ChainStateBestProofs` | theorems about the choice of the best chain |
| `MCChainState` | block trees for TLC |
| `ScriptVerification` | abstract: hand over checks, be told whether all hold |
| `CheckQueue` | detailed: `CCheckQueue`, `CCheckQueueControl` and their threads |
| `CheckQueueProofs` | theorems about `CheckQueue` |
| `MCCheckQueue` | two workers, a master and four checks for TLC |
| `Mempool` | the pool, and what `ConnectTip` and `DisconnectTip` do to it |
| `TxRelay` | composes `Mempool` with the `tx` message, orphans and `recentRejects` |
| `MempoolProofs` | theorems about `Mempool` inside `TxRelay` |
| `CoinsFlushFailure` | `CoinsView` over a database that may refuse a write |
| `MCCoinsFlushFailure` | the tree of `MCCoinsView` with it |
| `BlockAssignment` | abstract: which peer each block is asked of |
| `BlockDownload` | detailed: block download, its messages, time-outs and disconnects |
| `BlockDownloadProofs` | theorems about `BlockDownload` |
| `MCBlockDownload` | a tree with a valid and an invalid branch and two peers for TLC |
| `Interest` | `GetInterest`, and the life of `chainHeight` in the node |
| `InterestProofs` | theorems about `Interest` |
| `MCInterest` | a chain of seven blocks around the fork for TLC |
| `MCTxRelay` | four blocks, eight transactions above the root and two peers for TLC |

A detailed module also holds, next to some definitions, a variant with a plausible
error (`FetchedFresh` before `Fetched`). No action uses these. Put in the place of
the definition each makes TLC report the property it is listed with in
`PROJECT.json`, which shows that the property can fail.

### CoinsView

* A coin record is one transaction's outputs. Amounts and scripts do not matter to
  the layers and are left out; height, version and coinbase flag are kept as the
  height, which undo records must preserve.
* `cacheCoins` of a layer is a function from the txids that have an entry to
  coins and flags. `FetchCoins` reads through and caches; `ModifyCoins` marks
  DIRTY, and FRESH if the layer below has no unspent version.
* A block is connected by `StartConnect`, `CheckBIP30`, `StartTransactions`,
  `SpendInput`, `CreateOutputs`, `FinishConnect`, and disconnected in the opposite
  order; a block that fails, and `TestBlockValidity`, drop the view (`Drop`).
* `FlushView` merges it into `pcoinsTip` (`Merged` is the loop of `BatchWrite`),
  `FlushTip` writes `pcoinsTip` to the database in one batch, `Crash` loses both
  caches.
* `CoinsFlushFailure` adds `FlushTipThrows`: the batch is filled, the entries are erased on
  the way, and the database throws. `tip` is then empty, `tipBest` as before.
* `ImplementsUtxoStore` maps each layer to the map a reader of it sees. In
  `UtxoStore` there are no flags and no cached entries, so it says that caching is
  invisible.

### ChainState

* `index` has what `CDiskBlockIndex` stores: the validity level, HAVE_DATA,
  HAVE_UNDO, both failure marks and whether `nTx` is set. `chainTx` is the set of
  entries with `nChainTx` set. `unlinked` is the range of `mapBlocksUnlinked`.
* Work, height and parents are constants. `nSequenceId` is kept as a rank among
  the blocks of the same work, which is all the comparator looks at; so it is
  bounded without a cap. Addresses of entries, the last tie-break, are a constant
  order; it may be a different one after a restart in reality.
* `job` is the critical section somebody is in. A section of `ActivateBestChain` is
  split into steps (`FindMostWorkChain` turn by turn, `StepDisconnect`,
  `ConnectTip`, `UpdateTip`) so that a crash or a flush may come between, but no
  other thread can act: all others need `job = Free`.
* `pending` says that some thread is in `ActivateBestChain`. One flag stands for all
  threads: they do the same, and `AcceptBlockAgain` (a block the node already has
  ends in `ActivateBestChain`, too) allows a further round at any time.
* `AbortNode` is a failure that asks for a shutdown: a block that cannot be read, a full
  disk before the index is written (`NoSpaceForIndex`) or before the coins are
  (`CoinsNotFlushed`). The call in progress returns from where it is, coins and chain a
  block apart if it was `ConnectTip`'s flush, and other threads go on until they notice
  or until `AssertionFails`, the view in `ConnectBlock` being at the wrong block.
* `FlushStateToDisk` and `FlushCoins` are the two halves of a flush, called when
  `cs_main` is free or from inside `ConnectTip` and `DisconnectTip`. Pruning is part
  of the first half. Any set of old enough blocks may go: as if each had a file.
* `Crash` may happen in every state; `LoadBlockIndexDB` rebuilds what it rebuilds.
  `StartFails` is a start that ends in the assertion of `PruneBlockIndexCandidates`.
* `Features` switches kinds of events on per run, to keep the state spaces small.

### CheckQueue

* `batch[t]` is what thread t has taken and not reported; `pc[t]` says where it is.
  A critical section of `Loop` reports the last batch (`Report`), or is the first
  (`FirstTurn`) or follows a wait (`WakeUp`); each then goes on with `Proceed`: take
  a batch, sleep, or return.
* The vector is a set: which checks are taken does not matter to the properties.
* `notified` are sleepers released by a notification; a sleeper may also wake up
  for no reason. `notify_one` to workers releases any one of them.
* `Interrupted` is `thread_interrupted` thrown out of `cond.wait`: the thread's share
  of `nIdle` and `nTotal` is never taken back. A master that is interrupted leaves
  through `~CCheckQueueControl`, which waits once more.
* `ImplementsScriptVerification`: the verdict of a block that asked for one is that
  all checks it added hold.

### Mempool

* The chain is a tree of blocks that `ConnectBlock` accepts (`BlocksAssumption` says
  what that means, with the same `CheckInputs` as for the pool). `Unspent[c]` is what
  `pcoinsTip` holds with c as its best block; that the caches give exactly this is
  what `CoinsView` is about.
* `coins` is the best block of `pcoinsTip`, `tip` is `chainActive.Tip()`. `ConnectTip`
  and `DisconnectTip` move `coins`; `Connected` and `Disconnected` move `tip`. In
  between `RemoveForBlock` or `Resurrect` runs once per transaction of the block;
  `job.todo` is what is left. `Candidate` looks at `tip` (`CheckFinalTx`) and
  `CheckInputs` at `coins` (`GetBestBlock`), as in the code.
* `remove` with `fRecursive` is `Recursive`: what is reachable along `mapNextTx`, from
  the transaction, or from its children if it is not in the pool. Without it, the
  transaction alone (`Included`).
* Amounts are relative to the principal and counted in one block's interest on one
  output, up to `Cap` blocks. `Claim` is how much of it a transaction pays out. One unit
  is more than the tolerance of 100 satoshi in `CheckInputs`, which thus never matters.
* What depends on fees, priority, size or standardness is a refusal that may or may not
  happen: in `Mempool` an acceptance need not be taken; in `TxRelay`, where a refusal has
  effects of its own, `Refusable` is the set of transactions it may happen to. A script that
  fails only under flags that are not mandatory is such a refusal too.
* The wallet and RPCs hand in transactions through the same function: the action
  `AcceptToMemoryPool`.

### TxRelay

* `orphans` maps an orphan to its sender, `byPrev` is `mapOrphanTransactionsByPrev` as a
  set of pairs. `EraseOrphanTx` works on the values it is given, so that `AddOrphanTx`
  followed by `LimitOrphanTxSize` is one action.
* `ReceiveTx` is the message up to the first acceptance, orphan or rejection. Then
  `TryOrphan` is one turn of the inner loop, `NextInWorkQueue` one of the outer loop, and
  `EraseQueue` the end. The pool and orphans are visible between the turns, where the code
  calls `mempool.check`. Nobody else acts, since `cs_main` is held.
* An orphan is refused with a penalty only if `AcceptToMemoryPool` comes to its script and a
  mandatory rule fails (`Invalid`). One that pays out more than it has is refused for its
  fee before that (`main.cpp` 1050, `fLimitFree` is set), and one that policy refuses never gets
  there: `RejectOrphan` then leaves `setMisbehaving` (`handler.bad`) as it is.
* `left` has no order. The code's is that of the hashes, which means nothing to the
  properties: all orders are covered.
* `Rejects` is `recentRejects` with the reset on a new tip that every reader does first.

### BlockDownload

* `node` is the `CNodeState` of each peer: `best`, `unknown` and `common` are
  `pindexBestKnownBlock`, `hashLastUnknownBlock` and `pindexLastCommonBlock`, `blocks` is
  `vBlocksInFlight` with, for each, whether its header was known, `n` and `nValid` are the
  two counters. `inFlight` is `mapBlocksInFlight`.
* `SendMessagesTo` is one call for one peer: ban, header synchronisation, time-outs,
  `FindNextBlocksToDownload`, requests. `ReceiveInv`, `ReceiveHeaders` and `ReceiveBlock`
  are the messages. `ReceiveBlock` has `ActivateBestChain` in it, with the tips at which it asks
  whether the initial download is over (`TipsPassed`); transactions and "getheaders", for which
  that is asked as well, are not modelled here. `MarkBlockAsReceived` and `MarkBlockAsInFlight` are written for a set
  of blocks, in the order of the calls.
* The loop of `FindNextBlocksToDownload` stops when it meets an invalid block, when it has
  enough, or after the window: `Seen` is the part of the path that it comes to.
* `requests` are the questions a peer still has to answer, in order. A peer not in `Slow`
  answers them as this code would. A Slow one may leave any of them, send blocks it was not
  asked for, or send a block whose contents do not pass `CheckBlock`. Headers that answer
  no request are left out, as are messages that are malformed or not continuous.
* Clocks are left out: a time-out may strike any Slow peer that owes a block, and no other
  peer; whether the tip is recent is a property of the block (`Today`, `Fresh`).
* The misbehaviour score is left out: a penalty below 100 may or may not be the one that
  reaches `-banscore`.
* `ProcessNewBlock` with `ActivateBestChain` is one action here; `ChainState` shows what
  happens inside.
* A NodeId is never used twice, so each peer of `Peers` connects once; a node that
  reconnects is another member. The constructor and the `version` message are one action,
  as nothing else is said in between.
* `AskedOfOnePeer` maps `mapBlocksInFlight` to `BlockAssignment`, whose only moves are
  to ask a peer for free blocks, to receive one, and to lose a peer with all that it was
  asked for. So the first line of `MarkBlockAsInFlight`, which takes the block from whoever
  had it, never has anything to do.

### Interest

* `GetInterest` is translated part by part; each part is an operator with the heights as
  parameters and `tip` for the global `chainHeight`. `chainHeight` is compared with an
  unsigned constant, so that -1, the height of an empty chain, is past the fork
  (`PastFork`).
* `node`, `height`, `coins` and `chainHeight` are the process, `chainActive.Height()`, the
  height of `pcoinsTip` and the global. `ConnectTip` and `DisconnectTip` move the coins,
  `UpdateTip` the chain and the global. A start sets the global to 0 and, after `VerifyDB`,
  to the height that was loaded (`Loaded`).
* `spend` says that somebody values inputs and for which height. `OneValue` compares, for
  every amount, height of the coin and term, what `GetInterest` returns then with what it
  returned when the block of that height was connected on its parent.

## 3. The runs

All bounds are the finite constants; the only cap is `MaxPending` in `block_download`.

| run | instance | states | shows |
|---|---|---|---|
| `coins_view` | ten blocks with forks, shared and repeated transactions, BIP30 conflicts | 15,045 | layers agree, `BatchWrite` asserts nothing false, usage is exact, only valid blocks pass, refinement of `UtxoStore` |
| `chain_activation` | six blocks, two branches, one bad spend; flush, pruning, unrequested blocks; fairness | 116,361 | `nChainTx` is set exactly when it should be; no block that waits, for a parent or for its data, is forgotten; **the best usable chain becomes active** |
| `chain_crash` | five blocks; flush, crash, full disk, pruning, blocks pushed again | 977,507 | every crash leaves an index that covers the coins' chain; the node starts again; status bits agree; nothing is marked failed for missing data; the dirty set is complete; coins and `chainActive` are at most a block apart |
| `chain_invalidate` | five blocks, one that `CheckBlock` refuses and one bad spend; invalidateblock, flush, unrequested blocks | 632,070 | after every thread has left, the tip is a best usable chain, all that compete are candidates, no failed block is active |
| `chain_rpc` | four blocks; invalidateblock, reconsiderblock, flush, crash | 1,052,654 | candidates are linked and not worse than the tip |
| `chain_no_restart` | three blocks; violation expected | | section 5 |
| `check_queue` | two workers, one master, four checks of which one fails, batches of two, interruption; fairness | 220,175 | the verdict is right, always comes, and no check outlives its block |
| `tx_relay` | a branch of two blocks and one of one above a root, eight transactions that are not in the root (chains, two double spends, two claims of interest, a lock time, a bad script, an orphan of two parents), two interchangeable peers, two orphans | 3,175,232 | `mapNextTx` and the orphans' index are exact in every state, the pool fits the chain whenever it is used, only policy refuses what a disconnected block gives back, nothing leaves without a cause, no orphan is left behind |
| `mempool_interest` | the same; violation expected | | section 5 |
| `block_download` | six blocks, a valid branch and one with a bad block behind a bad spend; a peer that answers, with the valid branch, and one that need not, with the other; fairness | 267,400 | the books on blocks in flight are exact; a stalling peer owes a block; the common block is here and is the peer's; the honest peer is never punished; **its best block is downloaded**; refinement of `BlockAssignment` |
| `interest` | seven blocks, the fork at the third, a year of five; all heights, amounts and terms | 186 | an input has the value that the chain gives it |
| `coins_flush_fails` | that of `coins_view`; violation expected | | section 5 |

**Why these bounds are enough.** Two branches of which one becomes longer give a
reorganisation; a block that only `ConnectBlock` rejects, at the end of the longer
branch, gives a failed one. Three branches give a third candidate behind it. With
`Keep` at 1 or 2, blocks of both branches and of the active chain can be pruned.
Every violated statement that was met while modelling had a counterexample with
four blocks or fewer. For the queue, two workers and a master are the least for
which one thread reports while another sleeps and a third works, and four checks
fill a batch of two and leave two single ones. For the pool, a branch of two blocks and
another of one give every kind of reorganisation in which a transaction of the pool is
confirmed, given back, conflicts with the other branch, or loses a coinbase or a parent;
chains of three transactions are the least for which removing a child differs from
removing descendants; and two orphans against three candidates make eviction happen.
For block download, two blocks in transit, a window of one and two headers per message make
each limit be met by branches of three blocks: the window's end is passed, a headers message
is full and asks for more, and the last block of a branch waits for the one before. `MaxPending`,
the only cap, stops a peer's announcements, not its answers, while it owes one. For
interest, the chain is longer than thirty days (two blocks) and than a year (five), with
coins on both sides of the fork (the third), so both caps, each bonus and each set of rates
are reached.

**Fairness.** `chain_activation`: a thread that is in `ActivateBestChain` gets
`cs_main` again and again, and goes on (strong fairness of `Activation`: other threads take
the lock in between, and none holds it for ever), and a flush that has written the
index writes the coins (weak fairness of `FlushCoins`). No fairness is given to peers, RPCs or
flushes. `check_queue`: a thread that has the mutex to get, work to do, or a
notification to follow goes on (weak fairness of `Runs`); no fairness for spurious
wake-ups or for interruption. `block_download`: the message handler visits every peer in
turn, so that a peer not in `Slow` is asked when there is something to ask, such a peer
answers, a Slow one that owes a block runs into a time-out, and the sockets thread finalizes
peers that are marked for it. These are weak fairness; the first three are written out in temporal logic, with the
condition under which the action is enabled, as TLC evaluates that much faster. Nobody
has to announce, connect or leave.

**Deadlock** is not checked for `block_download`, where each peer connects once and all may
have gone, and for `check_queue`, where all threads may have been
interrupted at shutdown, and a master is then not obliged to open another control.
In `tx_relay` blocks can always be connected or disconnected, and in the runs of
`ChainState` a block can always be pushed again.

## 4. The proofs

TLAPS checks them for every value of the constants that satisfies the modules'
assumptions (one `ASSUME` per module, which TLC evaluates on the instances). Those of
`ChainState` and `BlockDownload` say that blocks form a tree with one root, in which
heights count and work grows, and that no set is infinite; that of `CoinsView` says that
heights count, that a block other than the genesis block has accesses, and that
transactions and outputs are finitely many; those of `Mempool` that blocks form a tree
above `Root`, that exactly the coinbases spend nothing, that each block is one that
`ConnectBlock` accepts on its parent, and that what is spent in `Root` was made there (it
stands for the chain below any reorganisation).

**CoinsViewProofs.** `TypesOK`, `LayersSound` (`LayerInv`), `BatchWriteNeverAsserts`,
`CoinsViewRefines` (`ImplementsUtxoStore`), `BestBlockAlways`, `OnlyValidBlocksAlways`,
`UsageExactAlways`: all that the run checks. The invariant about flags is the heart: an
entry that is not DIRTY equals what the layer below shows, and a FRESH one has
nothing unspent below. It is inductive only together with the same statement for
the layer below and with what the pc says of the view, since `Merged` turns
facts about the view and about `pcoinsTip` into one about `pcoinsTip` alone.
Refinement then needs one lemma per operation: what a reader sees after it. The
assertion in `BatchWrite` follows from the invariant.
That each view holds the UTXO set of its best block needs three things more. The first is
what `UtxoOf` is: the provers know nothing of recursive functions, so its equations
(`UtxoOfIs`, `AfterAccessesIs`) are proved from partial solutions, one height after the other.
The second is algebra: an undo record gives back exactly the record that was there
(`UndoRestores`): its height, 0 for "the record is still there", cannot be taken for that of a
coin, since the outputs of the genesis block are in no view. The third is `BestInv`: undo
data are those of a valid block whose parent was connected, and while a block is worked on
the view is at the stage of that block the position says, with one exception. A block that creates a transaction twice is, while it is
undone, without the record between the two; `DisconnectRight` allows that only
where the parent has no record either, and `fClean` ends such an attempt.
The sums of the usage counters are treated like `UtxoOf`: `SumIs` is the equation of
`MapThenSumSet`, `SumAdds` and `SumOfOne` make it independent of the order, by the smallest
set for which they would fail, and every step then moves a counter as it moves the sum.

**CheckQueueProofs.** `TypesOK`, `TodoExact`, `ChecksStayInside`,
`ControlNeverAsserts`, `TellsTheTruth`. The inductive invariant `IInv` has five parts:
types; `TodoIsExact`; `PlacesInv`, where a check can be and which threads are inside
when there is a master; `CountInv`, that `nTotal - nIdle` is the number of threads
awake in `Loop`, interrupted ones cancelling out; and `OkInv`, that fAllOk and the
fOk of the batches not yet reported together say whether a failing check has been
met among those reported. Every action of `Loop` ends in `Proceed`, so one lemma
shows that `MidInv`, the invariant in the middle of a critical section, is turned
into `IInv` by it, and each action has to establish `MidInv` only.

**MempoolProofs.** `NextTxExactAlways`, `RelayTypeCorrect`, `OrphanIndexExactAlways`,
`PoolFitsChainAlways`, `NothingButPolicyRefusesAlways`, `LeavesForACauseAlways`,
`NoOrphanLeftBehindAlways`: all that `tx_relay` checks, of `RelaySpec`, for any
transactions, any tree of acceptable blocks, any peers and any limit.
`NextTxExact` is inductive as it stands, by three lemmas: `addUnchecked` of a
`Candidate`, whose inputs `mapNextTx` does not know, and `Erase` of any part of the pool
preserve it, and what `Recursive` and `Conflicts` reach is in the pool.

That the pool fits the chain is true only when it has been repaired, so `PoolInv` says what
is left to be repaired while transactions of a block are still in `todo`. `Supplied`: each
input of the pool is in the chain, comes from the pool, or, when a block is connected, is
spent by a transaction of `todo`, when one is disconnected, was made by one. `Unconfirmed`
and `NoConflict`: the pool has nothing of the chain but what is in `todo`, and spends
nothing that the chain has spent. `AllMature`, and `ToComeBack`: what `todo` still has to
give back is not in the pool, fits as soon as its parents are there, and conflicts with
nothing. Three facts about chains carry it: what is spent in a chain was made in it
(`SpentIsMade`), a transaction is confirmed in one block of a chain only (`ConfirmedOnce`),
so its coin keeps its height when a block is added (`CoinHeightKept`); they go from `Root`
upwards (`FromRoot`), by the lowest block for which they would fail. For
`LeavesForACause`, `ReachedAreLost` says that what `remove` with `fRecursive` reaches had
its supply from what is removed with it. That no orphan is lost needs `WorkInv`: what was
accepted in the loop is in the work queue, and each orphan under a finished entry of the
queue was seen in its turn, or waits for a parent that is not here or is still to be
visited; or its sender is in `setMisbehaving`, where nobody is but for an orphan with a bad
script that is about to be erased (`BadInv`). The theorem about
the orphans' index needs `OrphanInv`: the index, the limit, and, while the handler walks, that
`left` and `erase` are among the orphans, which holds since no turn of the loop
touches the two maps. `SUBSET` of a finite set and cardinalities after an eviction
come from the library's theorems on finite sets.

**InterestProofs.** `OneValueAlways` (`OneValue`), `OldCoinsKeepTheirValue`, `EarningStops`,
for any rates, amounts, height of the fork and terms. The parts of `GetInterest` look at the
tip through `PastFork` alone (`TipThroughFork`), so two values of `chainHeight` on the same
side give the same result, and for a coin older than the fork any two do. What is left is
the block at the fork while `chainHeight` is not below it: a coin that old is spent in its
own block and earns nothing (`SpentAtOnce`). The inductive invariant `IInv` says that
`chainHeight` is the height of the chain while the node is up, and that nothing is valued
above the next block. The provers know neither powers nor recursive functions, so what is
needed of those, the first values of the tables and that a share of nothing is nothing, is
part of `InterestAssumption`, which TLC evaluates.

**ChainStateProofs.** `TypesOK`, `CoinsFollowChainAlways`, `DiskChainIsIndexedAlways`,
`DirtyIsCompleteAlways`, `StatusConsistentAlways`, for every block tree and every set of
`Features`: blocks in any order, both RPCs, pruning, full disks, deaths and starts. The
inductive invariant `IInv` adds to types what each critical section may rely on (`JobInv`:
which job goes with which state of the coins; `PlaceInv`: tip and coins are at most the
block under way apart; `TargetInv`: in a step no block on the way to the target is known
to have failed), what is true of the index (`IndexInv`: known entries are closed under
`Parent`, a SCRIPTS valid one has SCRIPTS valid ancestors, the chains of tip and coins are
SCRIPTS valid, an entry outside `dirty` is on disk as in memory, and none ever has a
lower level than on disk; `SetsInv`: candidates and waiting blocks are in the index, and
between the two halves of a flush nothing is dirty), and what is true of the databases
(`DiskInv`: the chain of the coins on disk is in the index on disk, SCRIPTS valid). That
nothing is dirty when the coins are written is what makes a death between the two writes
harmless. Facts about all ancestors
of a block are proved by the smallest counterexample: a nonempty set of blocks has a lowest one
(`FirstOfItsChain`), whose parent is not in the set.

**ChainStateMarkProofs.** `FailedHasInvalidAncestorAlways`, without reconsiderblock: a mark comes
from a block that is invalid, or was invalidated, below it. `RestartSucceedsAlways`, without
invalidateblock: every start, from every pair of databases that the node can leave, finds
a candidate. `MInv` adds to `IInv`, in memory and on disk, what is true of every entry
(`SoundEntry`: what breaks the rules of a block is never stored, what breaks those of a
spend is never SCRIPTS valid, data stay until they are pruned, and without invalidateblock
a mark has such a cause in the chain) and `Marked`, that there is a BLOCK_FAILED_VALID below
every mark. `Changed` says, once for all actions, what a step can do to an entry. With
invalidateblock the start may fail: section 5. `ActiveChainNotFailedAlways`: a block marked
invalid is not in the active chain once all threads have left, unless undo data on it or above it
is gone. Without invalidateblock this follows from `SoundEntry`, with all other events. With it,
the hypothesis is that nothing cuts a flush in two ("crash" and "diskFull" are off; an
`AbortNode` for a block that cannot be read, the shutdown after it and the next start are
there), as TLC finds it violated otherwise. The invariant, `ActiveInv`, says for every state
in between that a marked block of the coins' chain is either being taken back by the
`InvalidateBlock` under way (`TakenBack`) or under a block without undo data (`GapAbove`), and
of a node that is down the same for the databases. To get from memory to disk it needs
`ChildMarksKept`: a derived mark on disk is in memory too, or its entry is dirty.

**ChainStateBestProofs.** That a node ends on its best chain, in three steps.
`LinkedExactlyAlways`, without pruning and invalidateblock: `nChainTx` is set exactly for the
blocks whose chain was received, though a block arriving sets it for whatever
waited for it (the loop over `mapBlocksUnlinked`, a set of descendants in the model). `WaitInv` is the
heart: a block that was received, and is not linked, waits in `mapBlocksUnlinked` or stands
on a block that was rejected or invalidated; `WaitingAreUnlinkedAlways`, without pruning and
reconsiderblock, follows. `CandidatesSoundAlways`, without pruning:
no candidate is worse than the tip, nor unlinked. `QuiescentBetterAreCandidatesAlways` and
`QuiescentTipIsBestAlways`, without pruning and reconsiderblock, and with invalidateblock as long
as nothing cuts a flush in two ("crash" and "diskFull" are off): a complete chain that is valid and not
worse than the tip is a candidate, and when no thread is in `ActivateBestChain` none is
better. The strengthening `BestInv` holds in the middle of `ActivateBestChain` too: there
is a reference block, not worse than the tip, such that everything that is valid and not
worse than it is a candidate (`Covered`), as candidates behind it may have been pruned before
the chain came back; and once all threads have left (`Settled`) it is the tip. While
`InvalidateBlock` takes the chain back, it erases candidates as it goes and there may be no such
block. Its last section adds every linked block that does not sort before the tip, and the tip is
the reference block from then on; that the tip it stopped at is not marked itself is `ActiveInv` of
`ChainStateMarkProofs`, which is why a flush may not be cut in two. Pruning is excluded
because the proofs need all data to be there (`HasData`); the other features that a theorem excludes
are those with which TLC finds it violated: section 5.

**BlockDownloadProofs.** `DownloadTypes`, `InFlightAgrees`, `StallingOwesAlways`,
`CommonIsHadAlways`, `AsksOnePeer` (the refinement of `BlockAssignment`),
`HonestUnpunishedAlways`, for any peers, windows and limits. Of the inductive invariant, `FlightInv` says that a block is in the map
for a peer exactly if it is in that peer's list, once, and that both counters cover the
lists; `ConnInv` who may have anything at all, and that the counts of flags are exact;
`ChainInv` that what was received or failed is in the index and the active chain is here;
`KnownInv` what a peer's best, unknown and common block can be. `MarkBlockAsReceived` and
`MarkBlockAsInFlight` for a set of blocks need lemmas on the lists and on cardinalities:
removing from a list without repetitions removes from its set, and the counter loses
as many. `MapStep` says of each action what it may do to the map, which gives the
refinement: free blocks are given to one peer, one block is received, or a peer goes with all that
it had. Here `FindNextBlocksToDownload` passing over what is in flight is what matters.
The model numbers the blocks of a path by counting lower ones; that the path is listed
completely (`InOrderOf`) is proved by counting too.
`HonestUnpunishedAlways` has an inductive invariant of its own, `HInv`, on top of it: the index
is closed under `Parent` and `pindexBestHeader` has the most work of it; a block that failed has
a bad one in its chain, and whoever a bad block is traced to serves it (`CausesInv`); what
is best known of a peer is in the index; and the requests to an honest peer are `Ordered`: a
"getheaders" starts from a block of the index, and a "getdata" is for a block of the peer's
chain whose header is here or comes with the answer to a request before it. That the answer
leaves no gap and reaches what was asked for is `HeadersReach`. The last part needs the
hypothesis `NearTip`, the condition of section 5; the tree of `MCBlockDownload` satisfies it.

**Model-checked only:** what the prover cannot express, liveness: `EventuallyActive`,
`WaitReturns`, `EventuallyDownloaded`. All other properties of the passing runs are stated by
a theorem. One run goes further than the theorems of `ChainStateBestProofs`, on its instance:
`chain_activation` checks `LinkedExactly` and `WaitingAreUnlinked` with pruning (`Keep` at 1).

## 5. What the checks found

* **A crash during invalidateblock can leave a node that never starts**
  (`chain_no_restart`). `InvalidateBlock` marks the entries from the tip down, and
  `DisconnectTip` changes coins in memory only. If the index is written, and the
  process dies before the coins are, the next start finds the coins at a block that
  is marked invalid. It is no candidate, all others sort worse, and
  `PruneBlockIndexCandidates` asserts that one is left.
* **A refused write of the coins leaves a database that names the wrong block**
  (`coins_flush_fails`). `CCoinsViewDB::BatchWrite` erases the cache's entries while it fills
  the batch. When LevelDB throws, they are neither on disk nor in memory, but `pcoinsTip`
  still names its best block. `FlushStateToDisk` asks for a shutdown, and the flush of
  `Shutdown`, if the database accepts it (a disk that has room again), writes that name over
  the old coins. The next start believes it.
* **A transaction that pays out interest stays in the pool when the chain gets shorter**
  (`mempool_interest`). `DisconnectTip` drops what spends an immature coinbase, since that
  depends on the height, but interest depends on it as well: what was affordable on top of
  the old tip may not be on top of its parent, or when the parent transaction itself
  is back in the pool, where it earns nothing. `CTxMemPool::check` (`-checkmempool`) asserts
  `CheckInputs` for all transactions and stops the node.

Of the relay of transactions, the model shows behaviour that no comment contradicts but
a reader should know of. An orphan that is found under two accepted parents is tried
twice; the second time it is in the pool already, and its id enters `recentRejects`
although it was accepted. An orphan that was tried while another parent was missing, and whose input is
then spent by a transaction accepted after it in the same loop, stays in the map though it
can never be accepted (so `NoOrphanLeftBehind` asks for a missing parent only). An orphan that is skipped because another of its sender has a bad script, or
whose parent arrives in a block, stays in the map, and `AlreadyHave` keeps it from being
asked for again until it is evicted or its sender leaves. And since a coin from the pool
earns nothing, an orphan that claims interest on a parent in the pool is refused for its fee
and enters `recentRejects`, though it may be good once the parent is confirmed. Its sender is
not punished, and other orphans of that sender are still tried.

More statements, of `CheckBlockIndex`'s kind, turned out not to hold in rare cases. The
properties are stated so as to exclude exactly these, by run, by premise or by the
hypotheses of a theorem (`QuiescentBetterAreCandidates` instead of `BetterAreCandidates`;
`ActiveChainNotFailed` allows for pruned undo data; `WaitingAreUnlinked` is checked without
restarts and RPCs, and proved with restarts and invalidateblock but without pruning). With the `Features` and blocks named here, and `Keep` at 1, TLC shows each:

* A candidate may be missing in the middle of `ActivateBestChain`.
* After a restart all sequence numbers are 0. A pruned candidate that is received again
  gets a later one while it is in the ordered set (`main.cpp` 2617), sorts worse than the
  tip, and stays, against `main.cpp` 3705; `invalidateblock` leads there too.
* `reconsiderblock` clears the marks of ancestors without making them candidates, against
  `main.cpp` 3694–3700 (`QuiescentBetterAreCandidates`: "invalidate" and "reconsider", genesis
  and a branch of two).
* `ReconsiderBlock` (`main.cpp` 2552–2558) visits the block's ancestors and descendants only:
  blocks on a branch that leaves the chain in between keep BLOCK_FAILED_CHILD below nothing
  that failed, against the assertion at `main.cpp` 3690 (`FailedHasInvalidAncestor`: the same
  features, genesis, a1, and two blocks above a1).
* A block received under an invalidated header is not put into `mapBlocksUnlinked`
  (`main.cpp` 2632) and is not linked when its parent arrives, against the comment and the
  assertions at `main.cpp` 3678–3680 (`LinkedExactly`: "invalidate", genesis and a branch of
  three). One that is pruned while it waits for its parent is not linked either; it has
  `nTx` without `nChainTx` for good.
* A crash between the two writes of a flush can bring back a chain that was invalidated, as its
  blocks are marked on disk and the coins still are theirs: a failed block is active, and
  valid blocks are no candidates (`ActiveChainNotFailed`, `QuiescentBetterAreCandidates`:
  "crash" and "invalidate"). The chain may then come to rest on a worse one: the marked tip is
  no candidate, so once it is disconnected, and the branch that was to replace it
  turns out to have a bad spend, nothing leads back to an unmarked block that was as good
  (`QuiescentTipIsBest`: the same features, two branches of two and three blocks above
  genesis, a bad spend at the second block of the longer one).
* With `Keep` at 0 a block of the active chain may be pruned and pushed again, and is then a
  candidate that is worse than the tip (`CandidatesSound`: "prune" and "forced").
* `LoadBlockIndexDB` puts pruned blocks into `mapBlocksUnlinked`.
* `invalidateblock` of a block whose undo data is gone returns in the middle.
* A refused write of the block index has emptied `setDirtyBlockIndex` already
  (`main.cpp` 2092–2100). A later flush writes coins whose blocks the index on disk does
  not know, against the comment at `main.cpp` 2107. Not modelled.

Of interest: `OneValue` leaves out two readers of `chainHeight` for which it fails.
`VerifyDB` runs before `setNumBlock` at a start (`init.cpp` 1271), with `chainHeight` at 0, so
that at `-checklevel=4` coins younger than the fork are valued at the old rates. With
the real constants these are never below the new ones in any of the values compared, so
the check is only more lenient. And `CTxMemPool::check`, called in `ConnectTip` before
`UpdateTip`, values inputs at the fork block with `chainHeight` still below it. The
top-level `README.md` describes interest differently from the code: "When a Term Deposit
matures, it stops earning interest" (line 83), where the code stops only at a year or at the
spend, and terms of one and two years (lines 44–45), where it has thirty days and one year.

Of block download: `FinalizeNode` takes nothing back from `nQueuedValidatedHeaders`, so the
counter is only a bound from above (`InFlightExact`), and time-outs grow with it. A peer that
is silent in the first header synchronisation keeps `nSyncStarted` at 1, and until the headers
are a day old or less no other peer is asked: `EventuallyDownloaded` starts from a peer
whose best block is known. `HonestUnpunished` holds as long as fewer than
`MAX_HEADERS_RESULTS` headers lie between our best header and an announced block: otherwise
the block that was asked for directly can come before its header. The condition is about forks: it is
enough that, for every announced block whose header makes us fetch it at once (we are
nearly synchronised) and every best header with at least the work of such a tip, the
two chains part at most `MAX_HEADERS_RESULTS` below the end of the peer's (`NearTip`, a
little stronger: it asks this of every block with that much work and of the end of the chain).
With one header per message and a recent genesis TLC finds the honest peer banned.

## 6. What is not modelled

* In `ChainState`: `pindexBestHeader` (in `BlockDownload`) and `pindexBestInvalid` (only
  shown), a write that fails other than for want of space, `-reindex` and block files as
  containers, the genesis block being invalidated, checkpoints. An entry's address order is
  fixed.
* In `CoinsView`: `CCoinsViewErrorCatcher`, concurrent readers (all take `cs_main`), amounts
  and scripts.
* In `Mempool` and `TxRelay`: sizes, fees, priorities, `mapDeltas`, `totalTxSize` and the fee
  estimator, which no decision but policy's reads; rates and terms (in `Interest`); lock
  times given as times and sequence numbers; blocks that fail in `ConnectBlock` (the pool is
  not touched then); false positives of the bloom filter; peers' scores beyond one message.
* In `BlockDownload`: clocks, the amount of the misbehaviour score, pruned nodes, peers with
  `fClient` or `fOneShot`, checkpoints' estimate of the height, more than one item in an inv
  message, headers that nobody asked for, malformed messages, imports.
* In `Interest`: the rounding of double arithmetic after the fork (the model has the exact
  power, rounded down), lock times that are dates beyond the one test, the wallet's and the
  GUI's estimates.
* In `CheckQueue`: `fQuit`, which nothing sets, and an exception thrown out of the
  destructor, which ends the process.
* Components with status `not_modelled` in `PROJECT.json`, each with its reason: pure
  I/O (leveldb, sockets), floating point (fee estimator), sequential algorithms on
  data (script interpreter, hashing, patternsearch), presentation (GUI, RPC), and
  those that are planned.

## 7. Plan

1. A refused write of the block index, composed with the coins: a module beside `ChainState`,
   as `CoinsFlushFailure` is beside `CoinsView`.
2. Where the reach of a run allows it: the scheduler, `addrman`'s tables, `CreateNewBlock`
   over the mempool, the wallet's view of what is spent.
