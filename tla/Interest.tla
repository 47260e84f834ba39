------------------------------ MODULE Interest ------------------------------
(***************************************************************************)
(* What an output is worth when it is spent.                                *)
(*                                                                          *)
(* Every output earns interest on its amount from the block that made it    *)
(* up to the one that spends it: GetInterest of primitives/transaction.cpp, *)
(* with one set of rates before the block FORK1HEIGHT and another one after *)
(* it.  A block is valid only if no transaction in it spends more than its  *)
(* inputs are worth, so all nodes must come to the same value.              *)
(*                                                                          *)
(* GetInterest is told the heights of the output and of the spending block, *)
(* but takes the side of the fork from the global chainHeight too.  It is 0 *)
(* when the process starts, set when the block index is loaded and whenever *)
(* chainActive changes, and read at moments in between.                     *)
(*                                                                          *)
(* Arithmetic is on integers as in the code (CBigNum does not overflow).    *)
(* The compound rate after the fork is computed there in double precision:  *)
(* here it is the exact power, rounded down.                                *)
(***************************************************************************)
EXTENDS Integers

CONSTANTS
  MaxHeight,       \* bound: the height of the chain
  FORK1HEIGHT,
  THIRTYDAYS, ONEYEAR,
  SHORTESTTERM,    \* a term deposit is rewarded above 720*2 blocks
  LOCKTIMELIMIT,   \* 500000000: a larger lock time is a date, no height
  MAX_MONEY,
  RATESTART, RATESTEP,    \* rateTable: its first value, and 2^18
  BONUSSTART, BONUSSTEP,  \* bonusTable: its first value, and 2^16
  POSTSTEP,               \* the inverse of 0.0000005975
  Amounts, NoTerm,        \* amounts of outputs; GetTermDepositReleaseBlock of others, -1
  MEMPOOL_HEIGHT          \* the height of outputs that are in the pool

VARIABLES
  node,         \* "down", "starting" until the block index is loaded and verified, "up"
  height,       \* chainActive.Height(), or that of the chain a stopped node left on disk
  coins,        \* the height of the best block of pcoinsTip
  chainHeight,  \* the global chainHeight
  spend         \* the height at which inputs are being valued, and who does it

vars == <<node, height, coins, chainHeight, spend>>

NoChain == -1    \* chainActive.Height() of an empty chain
TWOYEARS == 2 * ONEYEAR
Least(a, b) == IF a < b THEN a ELSE b

-----------------------------------------------------------------------------
(* Rates *)

validateCoins(n) == IF n < 0 THEN 0 ELSE IF n > MAX_MONEY THEN MAX_MONEY - 1 ELSE n

rateTable[i \in 0..ONEYEAR] ==
  IF i = 0 THEN RATESTART ELSE rateTable[i - 1] + rateTable[i - 1] \div RATESTEP
bonusTable[i \in 0..ONEYEAR] ==
  IF i = 0 THEN BONUSSTART ELSE bonusTable[i - 1] + bonusTable[i - 1] \div BONUSSTEP

(* n times the power p of the share f of two years.                          *)
Share(n, f, p) == (n * f^p) \div TWOYEARS^p

(* The tables start above 0; a height in the pool is above those of blocks;  *)
(* a share of nothing is nothing.                                            *)
ASSUME InterestAssumption ==
  /\ FORK1HEIGHT \in Nat /\ THIRTYDAYS \in Nat /\ ONEYEAR \in Nat /\ MaxHeight \in Nat
  /\ SHORTESTTERM \in Nat /\ NoTerm \in Int
  /\ \A f \in 0..TWOYEARS, p \in {4, 6} : Share(0, f, p) = 0
  /\ MAX_MONEY \in Nat /\ Amounts \subseteq 0..MAX_MONEY
  /\ rateTable[0] \in Nat \ {0} /\ bonusTable[0] \in Nat \ {0}
  /\ MEMPOOL_HEIGHT \in Nat /\ MEMPOOL_HEIGHT > MaxHeight + 1

getRateForAmount(periods, n) == validateCoins((n * rateTable[periods]) \div rateTable[0] - n)
getBonusForAmount(periods, n) == validateCoins((n * bonusTable[periods]) \div bonusTable[0] - n)
getPostRateForAmount(periods, n) ==
  IF periods <= 0 THEN 0
  ELSE validateCoins((n * (POSTSTEP + 1)^periods) \div POSTSTEP^periods - n)

-----------------------------------------------------------------------------
(* GetInterest: out is the height of the output, at that of the spending     *)
(* block, maturation that at which a term deposit is released, tip the       *)
(* global chainHeight.                                                       *)

(* chainHeight is compared as an unsigned number: no chain, -1, is past the  *)
(* fork.                                                                     *)
PastFork(tip) == tip < 0 \/ tip >= FORK1HEIGHT
OldRates(out, tip) == ~PastFork(tip) \/ out < FORK1HEIGHT

EarningBlocks(out, at, maturation) ==
  Least(IF maturation > 0 THEN ONEYEAR ELSE THIRTYDAYS, at - out)

StandardInterest(n, blocks, out, tip) ==
  IF OldRates(out, tip) THEN getRateForAmount(blocks, n) ELSE getPostRateForAmount(blocks, n)

BonusAmount(n, blocks, out, tip) ==
  LET bonus == getBonusForAmount(blocks, n)
      early == out < TWOYEARS
  IN IF (early /\ ~PastFork(tip)) \/ out < FORK1HEIGHT THEN bonus - Share(bonus, TWOYEARS - out, 4)
     ELSE IF early /\ PastFork(tip) THEN bonus \div 10
     ELSE 0

TermDepositAmount(interest, out, maturation, tip) ==
  LET term == Least(ONEYEAR, maturation - out)
  IN IF maturation <= 0 \/ term <= SHORTESTTERM THEN 0
     ELSE IF OldRates(out, tip) THEN interest - Share(interest, TWOYEARS - term, 6)
     ELSE Share(interest, TWOYEARS - term, 4)

GetInterest(n, out, at, maturation, tip) ==
  LET blocks   == EarningBlocks(out, at, maturation)
      interest == StandardInterest(n, blocks, out, tip) + BonusAmount(n, blocks, out, tip)
  IN IF maturation >= LOCKTIMELIMIT \/ out < 0 \/ at < out THEN n
     ELSE validateCoins(n + interest + TermDepositAmount(interest, out, maturation, tip))

-----------------------------------------------------------------------------
(* The node *)

Nobody == [by |-> "nobody", at |-> 0]
ValueAt(by, at) ==
  /\ spend = Nobody /\ spend' = [by |-> by, at |-> at]
  /\ UNCHANGED <<node, height, coins, chainHeight>>
Valued ==
  /\ spend # Nobody /\ spend' = Nobody
  /\ UNCHANGED <<node, height, coins, chainHeight>>

Init ==
  /\ node = "down" /\ height = 0 /\ coins = 0 /\ chainHeight = 0
  /\ spend = Nobody

(* The process starts, its globals at 0, and loads the chain that is on disk *)
(* or, with -reindex, none.                                                  *)
Start(h) ==
  /\ node = "down" /\ node' = "starting"
  /\ height' = h /\ coins' = h
  /\ chainHeight' = 0
  /\ UNCHANGED spend
LoadBlockIndex == Start(height)
Reindex == Start(NoChain)

(* "Block Index loaded, lets tell transaction.cpp about it"; by then VerifyDB *)
(* has been run.                                                             *)
setNumBlock(activeHeight) == chainHeight' = activeHeight
Loaded ==
  /\ node = "starting" /\ spend = Nobody
  /\ node' = "up"
  /\ setNumBlock(height)
  /\ UNCHANGED <<height, coins, spend>>

(* VerifyDB at level 4, at the start or for the RPC verifychain: blocks of    *)
(* the chain are connected once more.                                       *)
VerifyDB ==
  /\ node # "down" /\ coins = height
  /\ \E h \in 1..height : ValueAt("VerifyDB", h)

(* ConnectBlock of a block on the tip, for ConnectTip and TestBlockValidity. *)
ConnectBlock ==
  /\ node = "up" /\ coins = height /\ height \in 0..(MaxHeight - 1)
  /\ ValueAt("ConnectBlock", height + 1)

(* AcceptToMemoryPool: CheckInputs goes by the coins, the fee by the chain,   *)
(* which is a block higher while DisconnectTip gives transactions back.      *)
AcceptToMemoryPool ==
  /\ node = "up" /\ coins \in 0..height
  /\ \E h \in {coins, height} : ValueAt("AcceptToMemoryPool", h + 1)

(* CTxMemPool::check, before and after the pool is repaired.                 *)
check ==
  /\ node = "up" /\ coins >= 0
  /\ ValueAt("check", coins + 1)

(* ConnectTip and DisconnectTip flush the view into pcoinsTip; UpdateTip then *)
(* tells chainActive, and transaction.cpp.                                  *)
ConnectTip ==
  /\ node = "up" /\ spend = Nobody /\ coins = height /\ height < MaxHeight
  /\ coins' = height + 1
  /\ UNCHANGED <<node, height, chainHeight, spend>>
DisconnectTip ==
  /\ node = "up" /\ spend = Nobody /\ coins = height /\ height > 0
  /\ coins' = height - 1
  /\ UNCHANGED <<node, height, chainHeight, spend>>
UpdateTipOnly ==   \* setNumBlock left out
  /\ node = "up" /\ spend = Nobody /\ coins # height
  /\ height' = coins
  /\ UNCHANGED <<node, coins, chainHeight, spend>>
UpdateTip ==
  /\ node = "up" /\ spend = Nobody /\ coins # height
  /\ height' = coins
  /\ setNumBlock(coins)
  /\ UNCHANGED <<node, coins, spend>>

(* Shutdown flushes the coins; a crash leaves those of an earlier flush.     *)
Shutdown ==
  /\ node # "down" /\ spend = Nobody /\ coins = height
  /\ node' = "down"
  /\ UNCHANGED <<height, coins, chainHeight, spend>>
Crash ==
  /\ node # "down"
  /\ node' = "down" /\ spend' = Nobody
  /\ \E h \in Least(0, height)..Least(coins, height) : height' = h /\ coins' = h
  /\ UNCHANGED chainHeight

Next ==
  \/ LoadBlockIndex \/ Reindex \/ Loaded \/ Shutdown \/ Crash
  \/ VerifyDB \/ ConnectBlock \/ AcceptToMemoryPool \/ check \/ Valued
  \/ ConnectTip \/ DisconnectTip \/ UpdateTip

Spec == Init /\ [][Next]_vars

-----------------------------------------------------------------------------
(* Whenever a block is connected or connected again, or a transaction is      *)
(* taken into the pool, every output has the value that each node gave it     *)
(* when it connected the block at that height on top of the one before: when  *)
(* the node was started, where its chain was then and the moment within a    *)
(* reorganisation make no difference, or nodes would not agree on blocks.     *)
(* Two users of GetInterest are not covered.  VerifyDB at the start runs with *)
(* chainHeight at 0, so that coins younger than the fork get the rates before *)
(* it; and check, while the block at the fork is being connected, gives its   *)
(* outputs the rates before the fork.                                       *)
Consensus == node = "up" /\ spend.by \in {"VerifyDB", "ConnectBlock", "AcceptToMemoryPool"}
OneValue == Consensus =>
  \A amount \in Amounts, out \in 0..spend.at \cup {MEMPOOL_HEIGHT},
     maturation \in {NoTerm} \cup 1..MaxHeight :
    GetInterest(amount, out, spend.at, maturation, chainHeight)
      = GetInterest(amount, out, spend.at, maturation, spend.at - 1)
=============================================================================
