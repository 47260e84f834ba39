--------------------------- MODULE InterestProofs ---------------------------
(***************************************************************************)
(* The value of an output is a function of the chain, and when it stops     *)
(* growing: for every set of rates and every height of the fork.            *)
(***************************************************************************)
EXTENDS Interest, TLAPS

(* The parts of GetInterest look at the tip through PastFork only.           *)
LEMMA TipThroughFork ==
  ASSUME NEW amount, NEW out, NEW at, NEW maturation, NEW s, NEW t,
         \/ PastFork(s) <=> PastFork(t)
         \/ out < FORK1HEIGHT
  PROVE  GetInterest(amount, out, at, maturation, s) = GetInterest(amount, out, at, maturation, t)
<1> DEFINE blocks == EarningBlocks(out, at, maturation)
<1>1. OldRates(out, s) <=> OldRates(out, t)
  BY DEF OldRates
<1>2. StandardInterest(amount, blocks, out, s) = StandardInterest(amount, blocks, out, t)
  BY <1>1, Zenon DEF StandardInterest
<1>3. BonusAmount(amount, blocks, out, s) = BonusAmount(amount, blocks, out, t)
  <2>1. CASE out < FORK1HEIGHT
    BY <2>1, Zenon DEF BonusAmount
  <2>2. CASE PastFork(s) <=> PastFork(t)
    BY <2>2, Zenon DEF BonusAmount
  <2>3. QED
    BY <2>1, <2>2
<1>4. ASSUME NEW i
      PROVE  TermDepositAmount(i, out, maturation, s) = TermDepositAmount(i, out, maturation, t)
  BY <1>1, Zenon DEF TermDepositAmount
<1>5. QED
  BY <1>2, <1>3, <1>4, Zenon DEF GetInterest

(* "This should not change the maturation value of already locked coins":     *)
(* coins older than the fork have one value, wherever the chain is now.  The  *)
(* code tests their height beside chainHeight at each of the four places      *)
(* where the rates differ.                                                   *)
THEOREM OldCoinsKeepTheirValue ==
  ASSUME NEW amount, NEW out, NEW at, NEW maturation, NEW s, NEW t, out < FORK1HEIGHT
  PROVE  GetInterest(amount, out, at, maturation, s) = GetInterest(amount, out, at, maturation, t)
  BY TipThroughFork

-----------------------------------------------------------------------------
(* An output that is spent in the block that makes it earns nothing, at       *)
(* whatever rates.                                                           *)
LEMMA NothingYet ==
  ASSUME NEW n \in Nat, NEW r \in Nat \ {0}
  PROVE  (n * r) \div r - n = 0
  OBVIOUS

LEMMA SpentAtOnce ==
  ASSUME NEW amount \in Amounts, NEW out \in Nat, NEW maturation \in Int,
         NEW s \in Int, NEW t \in Int, FORK1HEIGHT <= out
  PROVE  GetInterest(amount, out, out, maturation, s) = GetInterest(amount, out, out, maturation, t)
<1> USE InterestAssumption
<1>1. EarningBlocks(out, out, maturation) = 0
  BY DEF EarningBlocks, Least
<1>2. amount \in Nat /\ validateCoins(0) = 0
  BY DEF validateCoins
<1>3. getRateForAmount(0, amount) = 0
  BY <1>2, NothingYet DEF getRateForAmount
<1>4. getBonusForAmount(0, amount) = 0
  BY <1>2, NothingYet DEF getBonusForAmount
<1>5. ASSUME NEW tip \in Int
      PROVE  StandardInterest(amount, 0, out, tip) = 0
  BY <1>3 DEF StandardInterest, getPostRateForAmount
<1>6. ASSUME NEW tip \in Int
      PROVE  BonusAmount(amount, 0, out, tip) = 0
  <2>1. out < TWOYEARS => Share(0, TWOYEARS - out, 4) = 0
    BY DEF TWOYEARS
  <2>2. 0 \div 10 = 0 /\ ~(out < FORK1HEIGHT)
    OBVIOUS
  <2>3. QED
    BY <1>4, <2>1, <2>2 DEF BonusAmount
<1>7. ASSUME NEW tip \in Int
      PROVE  TermDepositAmount(0, out, maturation, tip) = 0
  <2> DEFINE term == Least(ONEYEAR, maturation - out)
  <2>1. ~(term <= SHORTESTTERM) => TWOYEARS - term \in 0..TWOYEARS
    BY DEF Least, TWOYEARS
  <2>2. ~(term <= SHORTESTTERM) => Share(0, TWOYEARS - term, 4) = 0 /\ Share(0, TWOYEARS - term, 6) = 0
    BY <2>1
  <2> HIDE DEF term
  <2>3. CASE maturation <= 0 \/ term <= SHORTESTTERM
    BY <2>3 DEF TermDepositAmount, term
  <2>4. CASE ~(maturation <= 0 \/ term <= SHORTESTTERM)
    BY <2>2, <2>4 DEF TermDepositAmount, term
  <2>5. QED
    BY <2>3, <2>4
<1>8. ASSUME NEW tip \in Int
      PROVE  GetInterest(amount, out, out, maturation, tip)
               = IF maturation >= LOCKTIMELIMIT THEN amount ELSE validateCoins(amount)
  <2>1. ~(out < 0) /\ ~(out < out) /\ 0 + 0 = 0 /\ amount + 0 + 0 = amount
    BY <1>2
  <2>2. QED
    BY <1>1, <1>5, <1>6, <1>7, <2>1 DEF GetInterest
<1>9. QED
  BY <1>8

-----------------------------------------------------------------------------
(* A running node's chainHeight is that of its chain, and nothing is valued   *)
(* for the chain above the next block.                                       *)
IInv ==
  /\ height \in Int /\ height <= MaxHeight /\ coins \in Int /\ coins <= MaxHeight
  /\ chainHeight \in Int
  /\ node = "up" => chainHeight = height
  /\ Consensus => spend.at \in Nat /\ 1 <= spend.at /\ spend.at <= height + 1

LEMMA IInvIsInvariant == Spec => []IInv
<1> USE InterestAssumption DEF Nobody, NoChain
<1>1. Init => IInv
  BY DEF Init, IInv, Consensus
<1>2. ASSUME IInv, [Next]_vars
      PROVE  IInv'
  <2> USE <1>2 DEF IInv, Consensus
  <2>1. CASE LoadBlockIndex \/ Reindex
    BY <2>1 DEF LoadBlockIndex, Reindex, Start
  <2>2. CASE Loaded
    BY <2>2 DEF Loaded, setNumBlock
  <2>3. CASE Shutdown
    BY <2>3 DEF Shutdown
  <2>4. CASE Crash
    BY <2>4 DEF Crash, Least
  <2>5. CASE VerifyDB
    BY <2>5 DEF VerifyDB, ValueAt
  <2>6. CASE ConnectBlock
    BY <2>6 DEF ConnectBlock, ValueAt
  <2>7. CASE AcceptToMemoryPool
    BY <2>7 DEF AcceptToMemoryPool, ValueAt
  <2>8. CASE check
    BY <2>8 DEF check, ValueAt
  <2>9. CASE Valued
    BY <2>9 DEF Valued
  <2>10. CASE ConnectTip
    BY <2>10 DEF ConnectTip
  <2>11. CASE DisconnectTip
    BY <2>11 DEF DisconnectTip
  <2>12. CASE UpdateTip
    BY <2>12 DEF UpdateTip, setNumBlock
  <2>13. CASE UNCHANGED vars
    BY <2>13 DEF vars
  <2>14. QED
    BY <1>2, <2>1, <2>2, <2>3, <2>4, <2>5, <2>6, <2>7, <2>8, <2>9, <2>10, <2>11, <2>12, <2>13 DEF Next
<1>3. QED
  BY <1>1, <1>2, PTL DEF Spec

LEMMA IInvMeansOneValue == IInv => OneValue
<1> SUFFICES ASSUME IInv, Consensus, NEW amount \in Amounts,
                    NEW out \in 0..spend.at \cup {MEMPOOL_HEIGHT},
                    NEW maturation \in {NoTerm} \cup 1..MaxHeight
             PROVE  GetInterest(amount, out, spend.at, maturation, chainHeight)
                      = GetInterest(amount, out, spend.at, maturation, spend.at - 1)
  BY DEF OneValue
<1> DEFINE at == spend.at
<1> USE InterestAssumption
<1>1. /\ at \in Nat /\ 1 <= at /\ at <= MaxHeight + 1 /\ at - 1 <= chainHeight
      /\ chainHeight \in Int /\ maturation \in Int
  BY DEF IInv, Consensus
<1> HIDE DEF at
<1>2. CASE out = MEMPOOL_HEIGHT
  <2>1. at < out
    BY <1>1, <1>2
  <2>2. QED
    BY <2>1, Zenon DEF GetInterest, at
<1>3. CASE FORK1HEIGHT <= at - 1
  <2>1. PastFork(at - 1) /\ PastFork(chainHeight)
    BY <1>1, <1>3 DEF PastFork
  <2>2. QED
    BY <2>1, TipThroughFork DEF at
<1>4. CASE out \in 0..at /\ out < FORK1HEIGHT
  BY <1>4, TipThroughFork DEF at
<1>5. CASE out \in 0..at /\ ~(FORK1HEIGHT <= at - 1) /\ ~(out < FORK1HEIGHT)
  <2>1. out = at /\ FORK1HEIGHT <= out /\ out \in Nat
    BY <1>1, <1>5
  <2>2. GetInterest(amount, out, out, maturation, chainHeight)
          = GetInterest(amount, out, out, maturation, at - 1)
    BY <1>1, <2>1, SpentAtOnce
  <2>3. QED
    BY <2>1, <2>2, Zenon DEF at
<1>6. QED
  BY <1>2, <1>3, <1>4, <1>5 DEF at

(* For every set of rates, every height of the fork and every history of      *)
(* starts, crashes and reorganisations: the value of an input depends on the  *)
(* chain alone, never on when chainHeight was last set.                       *)
THEOREM OneValueAlways == Spec => []OneValue
  BY IInvIsInvariant, IInvMeansOneValue, PTL

(* An output earns for thirty days and a term deposit for a year, and no     *)
(* longer, however much later it is spent.                                   *)
THEOREM EarningStops ==
  ASSUME NEW amount, NEW out \in Int, NEW maturation \in Int, NEW tip,
         THIRTYDAYS \in Nat, ONEYEAR \in Nat,
         NEW at \in Int, NEW later \in Int, at <= later,
         out + (IF maturation > 0 THEN ONEYEAR ELSE THIRTYDAYS) <= at
  PROVE  GetInterest(amount, out, later, maturation, tip)
           = GetInterest(amount, out, at, maturation, tip)
<1>1. EarningBlocks(out, later, maturation) = EarningBlocks(out, at, maturation)
  BY DEF EarningBlocks, Least
<1>2. ~(at < out) /\ ~(later < out)
  OBVIOUS
<1>3. QED
  BY <1>1, <1>2, Zenon DEF GetInterest
=============================================================================
