------------------------------- MODULE Mempool -------------------------------
(***************************************************************************)
(* The memory pool of txmempool.cpp and what main.cpp does to it while the   *)
(* chain grows and shrinks: AcceptToMemoryPool, removeForBlock in ConnectTip, *)
(* resurrection and removeCoinbaseSpends in DisconnectTip.                   *)
(*                                                                          *)
(* pcoinsTip moves before the pool is repaired and chainActive after it, so  *)
(* the pool lives for a while between two heights: coins and tip tell them   *)
(* apart.  The repair is one step per transaction of the block; cs_main is   *)
(* held throughout, so nothing but job's holder acts before it is finished.  *)
(*                                                                          *)
(* An unspent output earns interest while it waits, so what a transaction    *)
(* may pay out depends on the height it is spent at.  Amounts are counted in *)
(* the interest of one output over one block, which is above the tolerance   *)
(* of 100 satoshi, and relative to the principal.                            *)
(***************************************************************************)
EXTENDS Integers, Sequences, FiniteSetsExt

CONSTANTS
  Txs,        \* transaction ids
  Coinbases,  \* those of coinbase transactions
  Inputs,     \* the outpoints <<tx, n>> a transaction spends
  NOut,       \* vout.size()
  Claim,      \* value out less the principal of the inputs
  Lock,       \* nLockTime, as a height; 0 for none
  Blocks,     \* the blocks ConnectBlock accepts
  Root,       \* a block below which no reorganisation goes: with all before it
  Parent,     \* pprev
  Chain,      \* for each block, itself and its ancestors down to Root
  Height,     \* nHeight
  BlockTxs,   \* vtx, the coinbase first
  BadScript,  \* transactions whose script verification fails
  Maturity,   \* COINBASE_MATURITY
  Cap         \* blocks after which an output stops to earn: THIRTYDAYS

Outputs(t) == {t} \X (0 .. NOut[t] - 1)
Content(b) == {BlockTxs[b][i] : i \in DOMAIN BlockTxs[b]}
Confirmed == [c \in Blocks |-> UNION {Content(b) : b \in Chain[c]}]

(* The state of pcoinsTip when c is its best block.                          *)
Unspent == [c \in Blocks |-> (UNION {Outputs(t) : t \in Confirmed[c]})
                               \ (UNION {Inputs[t] : t \in Confirmed[c]})]
CoinHeight(t, c) == Height[CHOOSE b \in Chain[c] : t \in Content(b)]

(* The view of AcceptToMemoryPool: the outputs of the transactions in pool   *)
(* over the coins of block c; a block being connected is such a pool too.    *)
HaveInputs(t, pool, c) ==
  \A o \in Inputs[t] : o \in Unspent[c] \/ (o[1] \in pool /\ o \in Outputs(o[1]))

(* How long the coin that o spends has been in the chain when it is spent on *)
(* top of c.  One from the pool has MEMPOOL_HEIGHT and earns nothing.        *)
Age(o, pool, c) == IF o[1] \in pool THEN 0 ELSE Height[c] + 1 - CoinHeight(o[1], c)
Interest(age) == IF age > Cap THEN Cap ELSE age
Earned(S, c) == MapThenSumSet(LAMBDA o : Interest(Height[c] + 1 - CoinHeight(o[1], c)), S)

Matured(t, pool, c) ==
  \A o \in Inputs[t] : o[1] \in Coinbases => Age(o, pool, c) >= Maturity
Afforded(t, pool, c) ==
  Claim[t] <= Earned({o \in Inputs[t] : o[1] \notin pool}, c)

CheckInputs(t, pool, c) ==
  /\ HaveInputs(t, pool, c) /\ Matured(t, pool, c) /\ Afforded(t, pool, c)

(* What ConnectBlock and ContextualCheckBlock ask of a block's transactions. *)
Acceptable(b) ==
  /\ BlockTxs[b][1] \in Coinbases
  /\ Content(b) \cap Confirmed[Parent[b]] = {}
  /\ \A i \in 2 .. Len(BlockTxs[b]) :
       LET t == BlockTxs[b][i]
           earlier == {BlockTxs[b][j] : j \in 2 .. i - 1}
       IN /\ t \notin Coinbases \cup earlier \cup BadScript
          /\ CheckInputs(t, earlier, Parent[b])
          /\ \A u \in earlier : Inputs[u] \cap Inputs[t] = {}
          /\ Lock[t] < Height[b]

(* CheckTransaction wants inputs ("bad-txns-vin-empty"), and the only one of  *)
(* a coinbase is null.                                                       *)
ASSUME MempoolAssumption ==
  /\ Coinbases \cup BadScript \subseteq Txs
  /\ Inputs \in [Txs -> SUBSET (Txs \X Nat)] /\ NOut \in [Txs -> Nat]
  /\ \A t \in Txs : Inputs[t] = {} <=> t \in Coinbases
  /\ Claim \in [Txs -> Nat] /\ Lock \in [Txs -> Nat]
  /\ Root \in Blocks /\ Height \in [Blocks -> Nat]
  /\ Parent \in [Blocks \ {Root} -> Blocks]
  /\ Chain \in [Blocks -> SUBSET Blocks] /\ Chain[Root] = {Root}
  /\ \A b \in Blocks \ {Root} :
        /\ Height[b] = Height[Parent[b]] + 1
        /\ Chain[b] = {b} \cup Chain[Parent[b]] /\ b \notin Chain[Parent[b]]
  /\ BlockTxs \in [Blocks -> Seq(Txs)]
  /\ Maturity \in Nat /\ Cap \in Nat

(* What Root's transactions spend was made by them: none came before it.     *)
ASSUME BlocksAssumption ==
  /\ \A b \in Blocks \ {Root} : Acceptable(b)
  /\ UNION {Inputs[t] : t \in Content(Root)} \subseteq UNION {Outputs(t) : t \in Content(Root)}
-----------------------------------------------------------------------------
VARIABLES
  mapTx,      \* the transactions in the pool
  mapNextTx,  \* which of them spends an outpoint
  coins,      \* pcoinsTip->GetBestBlock()
  tip,        \* chainActive.Tip()
  job         \* what the holder of cs_main does: a block is connected or
              \* disconnected, with the transactions of it that are still to be
              \* taken care of, or a peer's transaction is handled (TxRelay)

poolVars == <<mapTx, mapNextTx>>
vars == <<mapTx, mapNextTx, coins, tip, job>>

Free == [phase |-> "free", todo |-> <<>>]
Job(phase, b) == [phase |-> phase, todo |-> BlockTxs[b]]

Init ==
  /\ mapTx = {} /\ mapNextTx = [o \in {} |-> Root]
  /\ coins = Root /\ tip = Root
  /\ job = Free
-----------------------------------------------------------------------------
(* AcceptToMemoryPool up to the look for the inputs, and what it then asks;  *)
(* both leave out what depends on fees, priority and standardness.           *)
HaveOldCoins(t) ==   \* the view is over the coins of chainActive.Tip()
  t \in mapTx \/ Outputs(t) \cap Unspent[tip] # {}
HaveCoins(t) == t \in mapTx \/ Outputs(t) \cap Unspent[coins] # {}

CandidateOrCoinbase(t) ==   \* "coinbase as individual tx" is let through
  Lock[t] < Height[tip] + 1 /\ Inputs[t] \cap DOMAIN mapNextTx = {} /\ ~HaveCoins(t)
Candidate(t) ==
  /\ t \notin Coinbases
  /\ Lock[t] < Height[tip] + 1
  /\ Inputs[t] \cap DOMAIN mapNextTx = {}
  /\ ~HaveCoins(t)

MissingInputs(t) == Candidate(t) /\ \E o \in Inputs[t] : ~HaveCoins(o[1])
Fits(t) == Candidate(t) /\ CheckInputs(t, mapTx, coins) /\ t \notin BadScript

addUnchecked(t) ==
  /\ mapTx' = mapTx \cup {t}
  /\ mapNextTx' = [o \in DOMAIN mapNextTx \cup Inputs[t] |->
                     IF o \in Inputs[t] THEN t ELSE mapNextTx[o]]

(* The spenders of t's outputs, by mapNextTx.                                *)
Children(t) == {mapNextTx[o] : o \in Outputs(t) \cap DOMAIN mapNextTx}

(* What the loop of remove with fRecursive reaches from the queue roots.     *)
ReachedWithin(pool, roots) ==
  {t \in pool : \A S \in SUBSET pool :
     (roots \cap pool \subseteq S /\ \A u \in S : Children(u) \cap pool \subseteq S) => t \in S}

(* remove with fRecursive: a transaction that is not in the pool has its     *)
(* children removed all the same.                                            *)
RecursiveIfPresent(t) == ReachedWithin(mapTx, {t})
Recursive(t) == ReachedWithin(mapTx, IF t \in mapTx THEN {t} ELSE Children(t))

EraseEntriesOnly(S) == mapTx' = mapTx \ S /\ mapNextTx' = mapNextTx
Erase(S) ==
  /\ mapTx' = mapTx \ S
  /\ mapNextTx' = [o \in DOMAIN mapNextTx \ UNION {Inputs[t] : t \in S} |-> mapNextTx[o]]

(* A peer, the wallet or an RPC call hands in a transaction.                 *)
AcceptToMemoryPool == \E t \in Txs :
  /\ job = Free
  /\ Fits(t)
  /\ addUnchecked(t)
  /\ UNCHANGED <<coins, tip, job>>
-----------------------------------------------------------------------------
(* ConnectTip: the view of the new block is flushed into pcoinsTip.          *)
ConnectTip == \E b \in Blocks \ {Root} :
  /\ job = Free
  /\ Parent[b] = tip
  /\ coins' = b
  /\ job' = Job("connect", b)
  /\ UNCHANGED <<poolVars, tip>>

(* removeForBlock, for one transaction of the block: it leaves without its    *)
(* children, then those that spend one of its inputs leave with theirs.      *)
Conflicts(t) == ReachedWithin(mapTx \ {t}, {mapNextTx[o] : o \in Inputs[t] \cap DOMAIN mapNextTx})
IncludedWithChildren(t) == Recursive(t)
Included(t) == {t} \cap mapTx

RemoveForBlock ==
  /\ job.phase = "connect" /\ job.todo # <<>>
  /\ Erase(Included(Head(job.todo)) \cup Conflicts(Head(job.todo)))
  /\ job' = [job EXCEPT !.todo = Tail(@)]
  /\ UNCHANGED <<coins, tip>>

Connected ==
  /\ job.phase = "connect" /\ job.todo = <<>>
  /\ tip' = coins
  /\ job' = Free
  /\ UNCHANGED <<poolVars, coins>>
-----------------------------------------------------------------------------
(* DisconnectTip, for the better chain or for invalidateblock.               *)
DisconnectTip ==
  /\ job = Free
  /\ tip # Root
  /\ coins' = Parent[tip]
  /\ job' = Job("disconnect", tip)
  /\ UNCHANGED <<poolVars, tip>>

(* A transaction of the block comes back, unless it does not fit or policy   *)
(* (standardness, priority, sigops) refuses it: then its children go.        *)
Resurrect ==
  /\ job.phase = "disconnect" /\ job.todo # <<>>
  /\ LET t == Head(job.todo)
     IN (Fits(t) /\ addUnchecked(t)) \/ Erase(Recursive(t))
  /\ job' = [job EXCEPT !.todo = Tail(@)]
  /\ UNCHANGED <<coins, tip>>

(* removeCoinbaseSpends, at the height of the block that went.               *)
Immature == {t \in mapTx : \E o \in Inputs[t] :
  /\ o[1] \notin mapTx
  /\ \/ Outputs(o[1]) \cap Unspent[coins] = {}
     \/ o[1] \in Coinbases /\ Height[tip] - CoinHeight(o[1], coins) < Maturity}

Disconnected ==
  /\ job.phase = "disconnect" /\ job.todo = <<>>
  /\ Erase(ReachedWithin(mapTx, Immature))
  /\ tip' = coins
  /\ job' = Free
  /\ UNCHANGED coins

Next == AcceptToMemoryPool \/ ConnectTip \/ RemoveForBlock \/ Connected
          \/ DisconnectTip \/ Resurrect \/ Disconnected

Spec == Init /\ [][Next]_vars
-----------------------------------------------------------------------------
TypeOK ==
  /\ mapTx \subseteq Txs \ Coinbases
  /\ DOMAIN mapNextTx \subseteq Txs \X Nat /\ \A o \in DOMAIN mapNextTx : mapNextTx[o] \in Txs
  /\ coins \in Blocks /\ tip \in Blocks
  /\ job \in [phase : {"free", "connect", "disconnect", "relay"}, todo : Seq(Txs)]

(* mapNextTx is the exact inverse of the inputs of the transactions in the   *)
(* pool, so no two of them spend the same outpoint: the assertions of        *)
(* CTxMemPool::check on it, in the middle of a repair too.                   *)
NextTxExact ==
  /\ \A t \in mapTx : \A o \in Inputs[t] : o \in DOMAIN mapNextTx /\ mapNextTx[o] = t
  /\ \A o \in DOMAIN mapNextTx : mapNextTx[o] \in mapTx /\ o \in Inputs[mapNextTx[o]]

(* Whenever check or removeCoinbaseSpends runs over the pool, and whenever    *)
(* cs_main is free, every transaction in it has its inputs, in the chain or   *)
(* from the pool, and is not in the chain already; it spends no immature      *)
(* coinbase, unless removeCoinbaseSpends is what comes next.                  *)
PoolFitsChain == job.todo = <<>> =>
  \A t \in mapTx : /\ HaveInputs(t, mapTx, coins)
                   /\ t \notin Confirmed[coins]
                   /\ job.phase = "disconnect" \/ Matured(t, mapTx, coins)

(* check: assert(CheckInputs(tx, ...)) for every transaction in the pool.     *)
PoolPassesCheckInputs == job = Free => \A t \in mapTx : CheckInputs(t, mapTx, coins)

(* A block that is disconnected gives its transactions back: nothing but     *)
(* policy refuses one whose parents are in the chain or came back before it, *)
(* although chainActive and pcoinsTip are at two different heights then.     *)
NothingButPolicyRefuses ==
  (job.phase = "disconnect" /\ job.todo # <<>>) =>
    LET t == Head(job.todo)
    IN (t \notin Coinbases /\ \A o \in Inputs[t] : o[1] \in mapTx \cup Confirmed[coins]) => Fits(t)

(* A transaction leaves the pool only if it was confirmed, or if it could    *)
(* not stay: an input of it is spent in the chain, not there any more, or an *)
(* immature coinbase.                                                        *)
LeavesForACause ==
  [][\A t \in mapTx \ mapTx' :
       \/ t \in Confirmed[coins]
       \/ ~ HaveInputs(t, mapTx', coins)
       \/ ~ Matured(t, mapTx', coins)]_vars
=============================================================================
