------------------------- MODULE ChainStateBestProofs -------------------------
(***************************************************************************)
(* The chain a node follows is the best it has.  Blocks arrive in any order, *)
(* and each is linked as soon as its ancestors are there; of the linked ones *)
(* setBlockIndexCandidates never loses one that is valid and not worse than  *)
(* the tip, whatever threads do between two sections of ActivateBestChain;   *)
(* and when the last of them leaves it, no valid chain sorts before the      *)
(* active one.                                                              *)
(*                                                                          *)
(* The last of this is about a node that neither prunes nor is told to       *)
(* reconsider a block, and that does not die between the two writes of a     *)
(* flush if it is told to invalidate one.  Each theorem says what it         *)
(* excludes, and README.md what goes wrong with that.                       *)
(***************************************************************************)
EXTENDS ChainStateMarkProofs

(* All of the chain of b was received at some time.                          *)
Complete(idx, b) == \A x \in Chain[b] : idx[x] # Absent /\ idx[x].nTx

(* nChainTx and nSequenceId are for complete chains, and everything that      *)
(* ActivateBestChain works on has nChainTx; mapBlocksUnlinked has blocks that *)
(* were received.                                                           *)
LinksInv ==
  /\ \A b \in chainTx : Complete(index, b)
  /\ Genesis \in chainTx /\ \A b \in chainTx \ {Genesis} : Parent[b] \in chainTx
  /\ candidates \subseteq chainTx /\ tip \in chainTx /\ coins \in chainTx
  /\ Stepping => job.target \in chainTx
  /\ \A b \in unlinked : b # Genesis /\ index[b].nTx
  /\ \A b \in Blocks : seq[b] # 0 => b \in chainTx

(* Without invalidateblock, a block marked before all of its chain is there   *)
(* is one AcceptBlock rejected.                                              *)
FailedComplete(idx) == "invalidate" \in Features \/
  \A b \in Blocks : idx[b] # Absent =>
    /\ idx[b].failedChild => Complete(idx, b)
    /\ idx[b].failedValid => Complete(idx, b) \/ b \in BadBlock

(* mapBlocksUnlinked has no block whose parent is linked.                    *)
Apart == "prune" \in Features \/ \A b \in unlinked : Parent[b] \notin chainTx

(* A block that was received but not linked waits in mapBlocksUnlinked, or    *)
(* stands on a block that was rejected, or invalidated.                      *)
OnRejected(b) == \E x \in Chain[b] :
  \/ x \in BadBlock /\ (index[x].failedValid \/ "reconsider" \in Features)
  \/ "invalidate" \in Features /\ index[x].failedValid
WaitInv == "prune" \in Features \/ {"invalidate", "reconsider"} \subseteq Features \/
  \A b \in Known : index[b].nTx /\ b \notin chainTx => b \in unlinked \/ OnRejected(b)

LInv ==
  /\ MInv
  /\ node # "down" => LinksInv /\ FailedComplete(index) /\ Apart /\ WaitInv
  /\ FailedComplete(diskIndex)
-----------------------------------------------------------------------------
LEMMA CompleteDown ==
  ASSUME NEW idx, NEW b \in Blocks, Complete(idx, b), NEW x \in Chain[b]
  PROVE  Complete(idx, x)
  BY ChainOfAncestor DEF Complete

LEMMA CompleteParent ==
  ASSUME NEW idx, NEW b \in Blocks \ {Genesis}
  PROVE  Complete(idx, b) <=> idx[b] # Absent /\ idx[b].nTx /\ Complete(idx, Parent[b])
  BY ParentOf DEF Complete

(* What was received stays received.                                         *)
LEMMA CompleteStays ==
  ASSUME Changed, NEW b \in Blocks, Complete(index, b)
  PROVE  Complete(index', b)
<1> SUFFICES ASSUME NEW x \in Chain[b] PROVE index'[x] # Absent /\ index'[x].nTx
  BY DEF Complete
<1>1. x \in Blocks /\ index[x] # Absent /\ index[x].nTx
  BY OwnChain DEF Complete
<1>2. index'[x] # Absent /\ ChangedTo(x, index[x], index'[x])
  BY <1>1 DEF Changed, Before
<1> QED BY <1>1, <1>2 DEF ChangedTo

(* Only AcceptBlock receives anything.                                       *)
LEMMA CompleteBefore ==
  ASSUME Changed, ~AcceptBlock, NEW b \in Blocks, Complete(index', b)
  PROVE  Complete(index, b)
<1> SUFFICES ASSUME NEW x \in Chain[b] PROVE index[x] # Absent /\ index[x].nTx
  BY DEF Complete
<1>1. x \in Blocks /\ index'[x] # Absent /\ index'[x].nTx
  BY OwnChain DEF Complete
<1>2. Before(x).nTx
  BY <1>1 DEF Changed, ChangedTo
<1>3. ~NewEntry.nTx
  BY DEF NewEntry
<1> QED BY <1>2, <1>3 DEF Before

(* Every block of a chain that was connected was received and breaks no rule. *)
LEMMA ScriptedComplete ==
  ASSUME NEW idx, IndexOK(idx), Sound(idx), NEW b \in Blocks, Scripted(idx, b)
  PROVE  /\ Complete(idx, b)
         /\ \A x \in Chain[b] : x \notin BadBlock \cup BadSpend
         /\ "invalidate" \notin Features => \A x \in Chain[b] : ~Failed(idx[x])
<1>1. ASSUME NEW x \in Chain[b]
      PROVE  /\ x \in Blocks /\ idx[x] # Absent /\ idx[x].nTx
             /\ x \notin BadBlock \cup BadSpend
  <2>1. x \in Blocks
    BY OwnChain
  <2>2. CASE x = Genesis
    <3>1. idx[x] # Absent /\ idx[x].nTx
      BY <2>1, <2>2 DEF IndexOK, Sound, SoundEntry
    <3> QED BY <2>1, <2>2, <3>1, ChainStateAssumption
  <2>3. CASE x # Genesis
    <3>1. idx[x].level = SCRIPTS
      BY <2>3 DEF Scripted
    <3>2. idx[x] # Absent
      BY <3>1, AbsentLevel DEF SCRIPTS
    <3>3. idx[x].nTx
      BY <2>1, <3>1, <3>2 DEF IndexOK, EntryOK, SCRIPTS, TRANSACTIONS
    <3> QED BY <2>1, <3>1, <3>2, <3>3 DEF Sound, SoundEntry
  <2> QED BY <2>2, <2>3
<1>2. ASSUME "invalidate" \notin Features, NEW x \in Chain[b] PROVE ~Failed(idx[x])
  <2>1. \A y \in Chain[x] : y \notin BadBlock \cup BadSpend
    BY <1>1, ChainOfAncestor
  <2> QED BY <1>1, <1>2, <2>1 DEF Sound, SoundEntry, BreaksRules
<1> QED BY <1>1, <1>2 DEF Complete

(* nChainTx is set for every complete chain, too.                            *)
LEMMA CompleteLinked ==
  ASSUME IInv, node # "down", Sound(index), LinksInv, Apart, WaitInv,
         Features \cap {"prune", "invalidate"} = {}
  PROVE  \A b \in Blocks : Complete(index, b) => b \in chainTx
<1> DEFINE S == {b \in Blocks : Complete(index, b) /\ b \notin chainTx}
<1>1. SUFFICES ASSUME S # {} PROVE FALSE
  OBVIOUS
<1>2. S \in SUBSET (Blocks \ {Genesis})
  BY DEF LinksInv
<1>3. PICK b \in S : Parent[b] \in Blocks \ S
  BY <1>1, <1>2, FirstOfItsChain
<1>4. Complete(index, Parent[b])
  BY <1>2, <1>3, CompleteParent
<1>5. Parent[b] \in chainTx
  BY <1>3, <1>4
<1>6. b \in Known /\ index[b].nTx /\ b \in Blocks
  BY <1>2, OwnChain DEF Complete, Known
<1>7. OnRejected(b)
  BY <1>3, <1>5, <1>6 DEF Apart, WaitInv
<1>8. PICK x \in Chain[b] : x \in BadBlock
  BY <1>7 DEF OnRejected
<1>9. x \in Blocks /\ index[x] # Absent /\ index[x].nTx
  BY <1>3, <1>6, OwnChain DEF Complete
<1> QED BY <1>8, <1>9 DEF Sound, SoundEntry

(* No cause of a mark is in the chain of b: what invalidateblock was called   *)
(* for, or turned out to be invalid, is below none of these.                 *)
Eligible(b) == Complete(index, b) /\ \A x \in Chain[b] : ~index[x].failedValid

(* With invalidateblock, nChainTx is still set for all of these.             *)
LEMMA EligibleLinked ==
  ASSUME LinksInv, Apart, WaitInv, Sound(index), Features \cap {"prune", "reconsider"} = {}
  PROVE  \A b \in Blocks : Eligible(b) => b \in chainTx
<1> DEFINE S == {b \in Blocks : Eligible(b) /\ b \notin chainTx}
<1>1. SUFFICES ASSUME S # {} PROVE FALSE
  OBVIOUS
<1>2. S \in SUBSET (Blocks \ {Genesis})
  BY DEF LinksInv
<1>3. PICK b \in S : Parent[b] \in Blocks \ S
  BY <1>1, <1>2, FirstOfItsChain
<1>4. Eligible(Parent[b])
  BY <1>2, <1>3, CompleteParent, ParentOf DEF Eligible
<1>5. Parent[b] \in chainTx
  BY <1>3, <1>4
<1>6. b \in Known /\ index[b].nTx /\ b \in Blocks /\ b \notin chainTx
  BY <1>2, <1>3, OwnChain DEF Eligible, Complete, Known
<1>7. b \notin unlinked
  BY <1>5 DEF Apart
<1>8. OnRejected(b)
  BY <1>6, <1>7 DEF WaitInv
<1>9. PICK x \in Chain[b] : x \in BadBlock \/ index[x].failedValid
  BY <1>8 DEF OnRejected
<1>10. x \in Blocks /\ index[x] # Absent /\ index[x].nTx /\ ~index[x].failedValid
  BY <1>3, <1>6, OwnChain DEF Eligible, Complete
<1> QED BY <1>9, <1>10 DEF Sound, SoundEntry
-----------------------------------------------------------------------------
(* What the steps in which no block is received do to the sets.              *)
OtherSets ==
  /\ UNCHANGED <<chainTx, seq>>
  /\ candidates' \subseteq candidates \cup chainTx
  /\ \A x \in unlinked' \ unlinked : x # Genesis /\ \E c \in candidates : x \in Chain[c]
  /\ "prune" \in Features \/ unlinked' = unlinked
  /\ Stepping' => (Stepping /\ job'.target = job.target) \/ job'.target \in candidates

(* Nor do the tip and the coins leave the linked blocks.                      *)
OtherPlace == tip' \in {tip, coins} /\ coins' \in chainTx

LEMMA LinkedDown ==
  ASSUME LinksInv, chainTx \subseteq Blocks
  PROVE  \A b \in chainTx : Chain[b] \subseteq chainTx
<1> DEFINE S == {b \in chainTx : ~(Chain[b] \subseteq chainTx)}
<1>1. SUFFICES ASSUME S # {} PROVE FALSE
  OBVIOUS
<1>2. S \in SUBSET (Blocks \ {Genesis})
  BY ChainStateAssumption DEF LinksInv
<1>3. PICK b \in S : Parent[b] \in Blocks \ S
  BY <1>1, <1>2, FirstOfItsChain
<1>4. Parent[b] \in chainTx /\ Chain[Parent[b]] \subseteq chainTx
  BY <1>2, <1>3 DEF LinksInv
<1> QED BY <1>2, <1>3, <1>4, ParentOf

LEMMA EveryPlace ==
  ASSUME IInv, LinksInv, Next, node # "down", node' # "down"
  PROVE  OtherPlace
<1>1. JobInv /\ chainTx \subseteq Blocks /\ coins \in chainTx /\ tip \in chainTx
  BY DEF IInv, UpInv, TypeOK, LinksInv
<1>2. CASE UNCHANGED <<tip, coins>>
  BY <1>1, <1>2 DEF OtherPlace
<1>3. ASSUME NEW move, DisconnectTip(move), UNCHANGED tip, tip # Genesis PROVE OtherPlace
  <2>1. Parent[tip] \in chainTx
    BY <1>1, <1>3 DEF LinksInv
  <2>2. coins' \in {coins, Parent[tip]}
    BY <1>3 DEF DisconnectTip
  <2> QED BY <1>1, <1>3, <2>1, <2>2 DEF OtherPlace
<1>4. CASE StepDisconnect
  <2>1. job.phase = "step" /\ tip \notin Chain[job.target] /\ UNCHANGED tip /\ DisconnectTip("disconnect")
    BY <1>4 DEF StepDisconnect
  <2>2. tip # Genesis
    BY <1>1, <2>1, GenesisInChain DEF JobInv, Stepping
  <2> QED BY <1>3, <2>1, <2>2
<1>5. CASE InvalidateTip
  <2>1. job.phase = "invalidate" /\ job.target \in Chain[tip] /\ UNCHANGED tip
        /\ DisconnectTip("invalidate")
    BY <1>5 DEF InvalidateTip
  <2>2. tip # Genesis
    BY <1>1, <2>1, ChainStateAssumption DEF JobInv, Invalidating
  <2> QED BY <1>3, <2>1, <2>2
<1>6. CASE ConnectTip
  <2>1. PICK b \in Blocks : /\ job.phase = "step" /\ b \in Chain[job.target]
                            /\ coins' = b /\ UNCHANGED tip
    BY <1>6 DEF ConnectTip, NextBlock, OffChain
  <2>2. job.target \in chainTx
    BY <2>1 DEF LinksInv, Stepping
  <2> QED BY <1>1, <2>1, <2>2, LinkedDown DEF OtherPlace
<1>7. CASE UpdateTip
  BY <1>1, <1>7 DEF UpdateTip, OtherPlace
<1>8. ~(Crash \/ AssertionFails \/ Shutdown \/ LoadBlockIndexDB)
  BY DEF Crash, AssertionFails, Shutdown, LoadBlockIndexDB, Stop
<1>9. UNCHANGED <<tip, coins>> \/ StepDisconnect \/ InvalidateTip \/ ConnectTip \/ UpdateTip
  BY <1>8 DEF Next, Activation, Rpc, AcceptBlockHeader, AcceptBlock, AcceptBlockAgain,
     EnterActivateBestChain, FindMostWorkChain, InvalidBlockFound, FailedToRead,
     InvalidateBlock, InvalidateDone, ReconsiderBlock, FlushStateToDisk, FlushCoins,
     NoSpaceForIndex, CoinsNotFlushed, StartFails, memVars, vars
<1> QED BY <1>2, <1>4, <1>5, <1>6, <1>7, <1>9

LEMMA FindMostWorkChainSets ==
  ASSUME IInv, Sound(index), LinksInv, FindMostWorkChain
  PROVE  OtherSets
<1>1. /\ job \in JobType /\ node # "down" /\ ~Stepping /\ job.move = "none"
      /\ candidates \subseteq Blocks
  <2>1. job.phase = "find"
    BY DEF FindMostWorkChain
  <2>2. JobInv /\ SetsInv /\ job \in JobType /\ node # "down"
    BY <2>1, InJob
  <2> QED BY <2>1, <2>2 DEF Stepping, JobInv, Moving, SetsInv, Known
<1>2. UNCHANGED <<chainTx, seq>>
  BY DEF FindMostWorkChain
<1>3. CASE candidates' = candidates /\ unlinked' = unlinked /\ job' = Free
  BY <1>2, <1>3, FreeFields DEF OtherSets, Stepping
<1>4. ASSUME NEW b \in candidates, job' = [job EXCEPT !.phase = "step", !.target = b],
             candidates' = candidates, unlinked' = unlinked
      PROVE  OtherSets
  <2>1. job'.target = b
    BY <1>1, <1>4 DEF JobType
  <2> QED BY <1>2, <1>4, <2>1 DEF OtherSets
<1>5. ASSUME NEW b \in candidates, NEW m \in Blocks, IsFirstUnusable(m, b),
             candidates' \subseteq candidates, job' = job,
             unlinked' = unlinked \/
               (~Failed(index[m]) /\ unlinked' = unlinked \cup (Chain[b] \ Chain[m]))
      PROVE  OtherSets
  <2>1. b \in Blocks /\ m \in Chain[b] /\ Unusable(m)
    BY <1>1, <1>5 DEF IsFirstUnusable, OffChain
  <2>2. Genesis \in Chain[m]
    BY GenesisInChain
  <2>3. ASSUME unlinked' # unlinked PROVE "prune" \in Features
    <3>1. Complete(index, b)
      BY DEF LinksInv
    <3>2. index[m] # Absent /\ index[m].nTx /\ ~index[m].data
      BY <1>5, <2>1, <2>3, <3>1 DEF Complete, Unusable
    <3> QED BY <3>2 DEF Sound, SoundEntry
  <2>4. ~Stepping'
    BY <1>1, <1>5 DEF Stepping
  <2>5. \A x \in unlinked' \ unlinked : x # Genesis /\ x \in Chain[b]
    BY <1>5, <2>2
  <2> QED BY <1>2, <1>5, <2>3, <2>4, <2>5 DEF OtherSets
<1>6. \/ candidates' = candidates /\ unlinked' = unlinked /\ job' = Free
      \/ \E b \in candidates : /\ job' = [job EXCEPT !.phase = "step", !.target = b]
                               /\ candidates' = candidates /\ unlinked' = unlinked
      \/ \E b \in candidates, m \in Blocks :
           /\ IsFirstUnusable(m, b)
           /\ LET above == Chain[b] \ Chain[m] IN
              /\ candidates' = candidates \ (above \cup {m})
              /\ IF FailedChain(m) THEN UNCHANGED unlinked
                 ELSE unlinked' = AddedBack(above)
           /\ UNCHANGED <<job, pending>>
  BY Zenon DEF FindMostWorkChain
<1>7. ASSUME NEW b \in candidates, NEW m \in Blocks,
             LET above == Chain[b] \ Chain[m] IN
              /\ candidates' = candidates \ (above \cup {m})
              /\ IF FailedChain(m) THEN UNCHANGED unlinked
                 ELSE unlinked' = AddedBack(above)
      PROVE  /\ candidates' \subseteq candidates
             /\ unlinked' = unlinked \/
                  (~Failed(index[m]) /\ unlinked' = unlinked \cup (Chain[b] \ Chain[m]))
  BY <1>7 DEF FailedChain, AddedBack
<1> QED BY <1>3, <1>4, <1>5, <1>6, <1>7

LEMMA StepSets == IInv /\ (StepDisconnect \/ ConnectTip \/ UpdateTip) => OtherSets
<1> SUFFICES ASSUME IInv, StepDisconnect \/ ConnectTip \/ UpdateTip PROVE OtherSets
  OBVIOUS
<1>1. /\ UNCHANGED <<chainTx, seq, unlinked>> /\ candidates' \subseteq candidates
      /\ job.phase \in {"step", "update"}
  BY DEF StepDisconnect, ConnectTip, UpdateTip, memVars, NotWorse
<1>2. job \in JobType /\ JobInv
  BY <1>1, InJob
<1>3. \/ job' = Free
      \/ \E mv : job' = [job EXCEPT !.phase = "update", !.move = mv] /\ job.phase = "step"
      \/ job' = [job EXCEPT !.phase = "step", !.move = "none"] /\ job.move \in {"connect", "disconnect"}
      \/ job' = [job EXCEPT !.phase = "invalidate", !.move = "none"]
  <2>1. CASE StepDisconnect
    BY <2>1 DEF StepDisconnect, DisconnectTip, AbortNode
  <2>2. CASE ConnectTip
    BY <2>2 DEF ConnectTip
  <2>3. CASE UpdateTip
    BY <1>2, <2>3 DEF UpdateTip, Leave, JobType
  <2> QED BY <2>1, <2>2, <2>3
<1>4. Stepping' => Stepping /\ job'.target = job.target
  BY <1>2, <1>3, FreeFields DEF Stepping, JobType
<1> QED BY <1>1, <1>4 DEF OtherSets

LEMMA RpcSets == IInv /\ Rpc => OtherSets
<1> SUFFICES ASSUME IInv, Rpc PROVE OtherSets
  OBVIOUS
<1>1. job \in JobType /\ (job.phase = "invalidate" => ~Stepping /\ job.move = "none")
  BY InJob DEF IInv, TypeOK, JobInv, Moving, Stepping
<1>2. CASE InvalidateBlock
  <2>1. ~Stepping'
    BY <1>2, FreeFields DEF InvalidateBlock, Stepping, Free
  <2> QED BY <1>2, <2>1 DEF InvalidateBlock, OtherSets
<1>3. CASE InvalidateTip
  <2>1. \/ job' = Free
        \/ job' = [job EXCEPT !.phase = "update", !.move = "invalidate"]
    BY <1>3 DEF InvalidateTip, DisconnectTip, AbortNode
  <2>2. ~Stepping'
    BY <1>1, <2>1, FreeFields DEF Stepping, JobType
  <2> QED BY <1>3, <2>2 DEF InvalidateTip, OtherSets
<1>4. CASE InvalidateDone
  <2>1. ~Stepping'
    BY <1>4, FreeFields DEF InvalidateDone, Stepping
  <2> QED BY <1>4, <2>1 DEF InvalidateDone, OtherSets, NotWorse, Linkable
<1>5. CASE ReconsiderBlock
  <2>1. PICK S : candidates' = candidates \cup Better(S \cap {x \in chainTx : TRUE})
    <3>1. PICK b, below, cl : candidates' = candidates \cup Better(below \cap Linkable(cl))
      BY <1>5, Zenon DEF ReconsiderBlock
    <3>2. below \cap Linkable(cl) = (below \cap Linkable(cl)) \cap {x \in chainTx : TRUE}
      BY DEF Linkable
    <3> QED BY <3>1, <3>2
  <2>2. UNCHANGED <<chainTx, seq, unlinked, job>> /\ job = Free
    BY <1>5, Zenon DEF ReconsiderBlock, Enter
  <2> QED BY <2>1, <2>2, FreeFields DEF OtherSets, Better, Stepping
<1> QED BY <1>2, <1>3, <1>4, <1>5 DEF Rpc

LEMMA FlushSets ==
  IInv /\ (FlushStateToDisk \/ FlushCoins \/ NoSpaceForIndex \/ CoinsNotFlushed) => OtherSets
<1> SUFFICES ASSUME IInv, FlushStateToDisk \/ FlushCoins \/ NoSpaceForIndex \/ CoinsNotFlushed
             PROVE  OtherSets
  OBVIOUS
<1>1. job \in JobType
  BY DEF IInv, TypeOK
<1>2. /\ UNCHANGED <<chainTx, seq, candidates>> /\ unlinked' \subseteq unlinked
      /\ "prune" \in Features \/ unlinked' = unlinked
  BY DEF FlushStateToDisk, FlushCoins, NoSpaceForIndex, CoinsNotFlushed, memVars,
     PruneUnlinked, Prunable
<1>3. \/ job' = Free \/ job' = job
      \/ job' = [job EXCEPT !.phase = "flush"]
      \/ job' = [job EXCEPT !.phase = "update"]
  BY DEF FlushStateToDisk, FlushCoins, NoSpaceForIndex, CoinsNotFlushed, AbortNode
<1>4. Stepping' => Stepping /\ job'.target = job.target
  BY <1>1, <1>3, FreeFields DEF Stepping, JobType
<1> QED BY <1>2, <1>4 DEF OtherSets

LEMMA EverySets ==
  ASSUME IInv, Sound(index), LinksInv, Next, node # "down", node' # "down", ~AcceptBlock
  PROVE  OtherSets
<1>1. CASE UNCHANGED <<chainTx, seq, candidates, unlinked, job>>
  BY <1>1 DEF OtherSets, Stepping
<1>2. CASE AcceptBlockHeader \/ AcceptBlockAgain \/ StartFails
  BY <1>1, <1>2 DEF AcceptBlockHeader, AcceptBlockAgain, StartFails, memVars, vars
<1>3. CASE UNCHANGED <<chainTx, seq, unlinked>> /\ candidates' \subseteq candidates /\ ~Stepping'
  BY <1>3 DEF OtherSets
<1>4. CASE EnterActivateBestChain \/ InvalidBlockFound \/ FailedToRead
  <2>1. ~Stepping'
    BY <1>4, FreeFields DEF EnterActivateBestChain, InvalidBlockFound, FailedToRead, Leave,
       AbortNode, Stepping, Free
  <2> QED BY <1>3, <1>4, <2>1 DEF EnterActivateBestChain, InvalidBlockFound, FailedToRead, memVars
<1>5. CASE FindMostWorkChain
  BY <1>5, FindMostWorkChainSets
<1>6. CASE StepDisconnect \/ ConnectTip \/ UpdateTip
  BY <1>6, StepSets
<1>7. CASE Rpc
  BY <1>7, RpcSets
<1>8. CASE FlushStateToDisk \/ FlushCoins \/ NoSpaceForIndex \/ CoinsNotFlushed
  BY <1>8, FlushSets
<1>9. ~(AssertionFails \/ Crash \/ Shutdown \/ LoadBlockIndexDB)
  BY DEF AssertionFails, Crash, Shutdown, LoadBlockIndexDB, Stop
<1> QED BY <1>2, <1>4, <1>5, <1>6, <1>7, <1>8, <1>9 DEF Next, Activation
-----------------------------------------------------------------------------
(* No block is received in this step.                                        *)
NoneReceived == \A b \in Blocks :
  index'[b] # Absent /\ index'[b].nTx => index[b] # Absent /\ index[b].nTx

LEMMA OtherLinks ==
  ASSUME IInv, node # "down", LinksInv, Changed, OtherSets, OtherPlace
  PROVE  LinksInv'
<1>1. \A b \in chainTx : b \in Blocks /\ Complete(index, b) /\ Complete(index', b)
  BY CompleteStays DEF LinksInv, IInv, TypeOK
<1>2. ASSUME NEW b \in unlinked' PROVE b # Genesis /\ index'[b].nTx
  <2>1. b # Genesis /\ b \in Blocks /\ index[b] # Absent /\ index[b].nTx
    <3>1. CASE b \in unlinked
      <4>1. b \in Blocks /\ index[b] # Absent
        BY <3>1 DEF IInv, UpInv, SetsInv, Known
      <4> QED BY <3>1, <4>1 DEF LinksInv
    <3>2. CASE b \notin unlinked
      <4>1. PICK c \in candidates : b # Genesis /\ b \in Chain[c]
        BY <1>2, <3>2 DEF OtherSets
      <4>2. c \in chainTx
        BY DEF LinksInv
      <4> QED BY <1>1, <4>1, <4>2, OwnChain DEF Complete
    <3> QED BY <3>1, <3>2
  <2> QED BY <2>1 DEF Changed, ChangedTo, Before
<1> QED BY <1>1, <1>2 DEF LinksInv, OtherSets, OtherPlace

LEMMA OtherApart ==
  ASSUME Apart, OtherSets
  PROVE  Apart'
  BY DEF Apart, OtherSets

(* A rejected block stays rejected.                                          *)
LEMMA StaysOnRejected ==
  ASSUME IInv, node # "down", Changed, NEW b \in Known, OnRejected(b),
         ~({"invalidate", "reconsider"} \subseteq Features)
  PROVE  OnRejected(b)'
<1>1. PICK x \in Chain[b] :
        \/ x \in BadBlock /\ (index[x].failedValid \/ "reconsider" \in Features)
        \/ "invalidate" \in Features /\ index[x].failedValid
  BY DEF OnRejected
<1>2. x \in Blocks /\ index[x] # Absent
  BY <1>1, AncestorsKnown, OwnChain DEF Known, IInv, UpInv, IndexInv
<1>3. "reconsider" \in Features \/ index'[x].failedValid
  BY <1>1, <1>2, CauseStays
<1> QED BY <1>1, <1>3 DEF OnRejected

LEMMA OtherWaits ==
  ASSUME IInv, node # "down", Changed, NoneReceived, OtherSets, WaitInv
  PROVE  WaitInv'
<1> SUFFICES ASSUME "prune" \notin Features, ~({"invalidate", "reconsider"} \subseteq Features)
             PROVE  \A b \in Known' : index'[b].nTx /\ b \notin chainTx' =>
                        b \in unlinked' \/ OnRejected(b)'
  BY DEF WaitInv
<1>1. /\ unlinked' = unlinked /\ chainTx' = chainTx
      /\ \A b \in Known : index[b].nTx /\ b \notin chainTx => b \in unlinked \/ OnRejected(b)
  BY DEF OtherSets, WaitInv
<1>2. ASSUME NEW b \in Known', index'[b].nTx, b \notin chainTx', b \notin unlinked'
      PROVE  OnRejected(b)'
  <2>1. b \in Known /\ index[b].nTx
    BY <1>2 DEF Known, NoneReceived
  <2>2. OnRejected(b)
    BY <1>1, <1>2, <2>1
  <2> QED BY <2>1, <2>2, StaysOnRejected
<1> QED BY <1>1, <1>2

(* What AcceptBlock rejects, it rejects before ReceivedBlockTransactions.    *)
LEMMA RejectedSets ==
  ASSUME IInv, node # "down", Changed, AcceptBlock,
         NEW b \in BadBlock, NEW e, e = Before(b),
         index' = [index EXCEPT ![b] = [e EXCEPT !.failedValid = TRUE]],
         UNCHANGED <<chainTx, seq, candidates, unlinked, job>>
  PROVE  OtherSets /\ NoneReceived
<1>1. OtherSets
  BY DEF OtherSets, Stepping
<1>2. b \in Blocks /\ index \in Index
  BY ChainStateAssumption DEF IInv, TypeOK
<1>3. \A x \in Blocks \ {b} : index'[x] = index[x]
  BY <1>2 DEF Index
<1>4. ASSUME index'[b] # Absent, index'[b].nTx PROVE index[b] # Absent /\ index[b].nTx
  <2>1. Before(b).nTx
    BY <1>2, <1>4 DEF Changed, ChangedTo
  <2>2. ~NewEntry.nTx
    BY DEF NewEntry
  <2> QED BY <2>1, <2>2 DEF Before
<1> QED BY <1>1, <1>3, <1>4 DEF NoneReceived
-----------------------------------------------------------------------------
(* A block is received that is not rejected.                                 *)
Received(b) ==
  /\ node # "down" /\ node' # "down" /\ b \in Blocks \ {Genesis} /\ b \notin BadBlock
  /\ index'[b] # Absent /\ index'[b].nTx
  /\ \A x \in Blocks \ {b} : index'[x] = index[x]
  /\ ~Before(b).data
  /\ index[Parent[b]] # Absent
  /\ UNCHANGED <<tip, coins, job, node>> /\ job = Free

(* It is linked, and with it what waited for it.                             *)
LinksIt(b) ==
  /\ Parent[b] \in chainTx
  /\ \E pos \in Orders(Linked(b)) : seq' = Resequenced(Linked(b), pos)
  /\ chainTx' = chainTx \cup Linked(b)
  /\ candidates' = candidates \cup {x \in Linked(b) : ~WorseIn(seq', x, tip)}
  /\ unlinked' = unlinked \ (Linked(b) \ {b})

(* Or it waits for its parent.                                               *)
WaitsIt(b) ==
  /\ Parent[b] \notin chainTx
  /\ chainTx' = chainTx \ {b}
  /\ unlinked' = IF IsValid(index[Parent[b]], TREE) THEN unlinked \cup {b} ELSE unlinked
  /\ UNCHANGED <<seq, candidates>>

LEMMA AcceptBlockCases ==
  ASSUME IInv, AcceptBlock
  PROVE  \/ /\ OtherSets /\ NoneReceived
            /\ UNCHANGED <<seq, candidates, tip, job, pending, node>>
         \/ \E b \in Blocks : Received(b) /\ (LinksIt(b) \/ WaitsIt(b)) /\ pending'
<1>1. PICK b, e :
        /\ b \in Blocks \ {Genesis}
        /\ e = (IF b \in Known THEN index[b] ELSE NewEntry)
        /\ Enter
        /\ IF b \in Known THEN ~Failed(index[b]) ELSE HeaderFits(b)
        /\ ~e.data
        /\ UNCHANGED <<tip, coins, diskVars, job, node>>
        /\ \/ /\ b \in BadBlock
              /\ index' = [index EXCEPT ![b] = [e EXCEPT !.failedValid = TRUE]]
              /\ UNCHANGED <<chainTx, seq, candidates, unlinked, pending>>
           \/ b \notin BadBlock /\ ReceivedBlockTransactions(b, e) /\ pending' = TRUE
  BY DEF AcceptBlock
<1>2. node # "down" /\ IndexOK(index) /\ job = Free
  BY <1>1 DEF IInv, UpInv, IndexInv, Enter
<1>3. e = Before(b) /\ e \in Entry /\ EntryOK(e)
  BY <1>1, <1>2, BeforeEntry DEF Before, Known
<1>4. Changed
  BY AcceptBlockChange
<1>5. CASE /\ b \in BadBlock
           /\ index' = [index EXCEPT ![b] = [e EXCEPT !.failedValid = TRUE]]
           /\ UNCHANGED <<chainTx, seq, candidates, unlinked, pending>>
  <2>1. UNCHANGED <<tip, job, node>>
    BY <1>1
  <2>2. OtherSets /\ NoneReceived
    BY <1>2, <1>3, <1>4, <1>5, <2>1, RejectedSets
  <2> QED BY <1>5, <2>1, <2>2
<1>6. CASE b \notin BadBlock /\ ReceivedBlockTransactions(b, e) /\ pending' = TRUE
  <2>1. PICK r : r = RaiseValidity([e EXCEPT !.nTx = TRUE, !.data = TRUE], TRANSACTIONS)
    OBVIOUS
  <2>2. r \in Entry /\ r.nTx = TRUE
    BY <1>3, <2>1, ReceivedFields
  <2>3. index' = [index EXCEPT ![b] = r]
    BY <1>6, <2>1, Zenon DEF ReceivedBlockTransactions
  <2>4. index'[b] = r /\ \A x \in Blocks \ {b} : index'[x] = index[x]
    BY <1>1, <1>2, <2>3 DEF IndexOK, Index
  <2>5. index[Parent[b]] # Absent
    BY <1>1, <1>2 DEF HeaderFits, Known, IndexOK
  <2>6. ~Before(b).data
    BY <1>1, <1>3
  <2>7. Received(b)
    BY <1>1, <1>2, <1>6, <2>2, <2>4, <2>5, <2>6, EntryFields DEF Received
  <2>8. LinksIt(b) \/ WaitsIt(b)
    BY <1>6, Zenon DEF ReceivedBlockTransactions, LinksIt, WaitsIt
  <2> QED BY <1>1, <1>6, <2>7, <2>8
<1> QED BY <1>1, <1>5, <1>6

(* The parent of a block that is linked with b is linked, and its children    *)
(* that wait are.                                                           *)
LEMMA LinkedFamily ==
  ASSUME NEW b \in Blocks \ {Genesis}, unlinked \subseteq Blocks \ {Genesis}
  PROVE  /\ \A x \in Linked(b) \ {b} : Parent[x] \in Linked(b)
         /\ \A x \in unlinked : Parent[x] \in Linked(b) => x \in Linked(b)
<1>1. ASSUME NEW x \in Linked(b) \ {b} PROVE Parent[x] \in Linked(b)
  <2>1. /\ x \in unlinked /\ b \in Chain[x] /\ Chain[x] \ Chain[b] \subseteq unlinked
        /\ x \in Blocks \ {Genesis}
    BY <1>1 DEF Linked
  <2>2. /\ Parent[x] \in Blocks /\ Parent[x] \in Chain[Parent[x]]
        /\ Chain[Parent[x]] \subseteq Chain[x] /\ b \in Chain[Parent[x]]
    BY <1>1, <2>1, ParentOf, OwnChain
  <2>3. CASE Parent[x] \in Chain[b]
    <3>1. Parent[x] = b
      <4>1. SUFFICES ASSUME Parent[x] # b PROVE FALSE
        OBVIOUS
      <4>2. Work[Parent[x]] < Work[b] /\ Work[b] < Work[Parent[x]]
        BY <2>2, <2>3, <4>1, AncestorHasLessWork
      <4>3. Work[Parent[x]] \in Nat /\ Work[b] \in Nat
        BY <2>2, ChainStateAssumption
      <4> QED BY <4>2, <4>3
    <3> QED BY <3>1 DEF Linked
  <2>4. CASE Parent[x] \notin Chain[b]
    BY <2>1, <2>2, <2>4 DEF Linked
  <2> QED BY <2>3, <2>4
<1>2. ASSUME NEW x \in unlinked, Parent[x] \in Linked(b) PROVE x \in Linked(b)
  <2>1. /\ x \in Blocks \ {Genesis} /\ Parent[x] \in Blocks
        /\ Chain[x] = {x} \cup Chain[Parent[x]]
    BY ParentOf
  <2>2. b \in Chain[Parent[x]] /\ Chain[Parent[x]] \ Chain[b] \subseteq unlinked
    BY <1>2, OwnChain DEF Linked
  <2> QED BY <2>1, <2>2 DEF Linked
<1> QED BY <1>1, <1>2

LEMMA ReceivedLinks ==
  ASSUME IInv, LinksInv, Changed, NEW b \in Blocks, Received(b), LinksIt(b) \/ WaitsIt(b)
  PROVE  LinksInv'
<1>1. /\ b \in Blocks \ {Genesis} /\ node # "down" /\ index'[b] # Absent /\ index'[b].nTx
      /\ ~Stepping'
  BY FreeFields DEF Received, Stepping
<1>2. /\ \A x \in chainTx : x \in Blocks /\ Complete(index', x)
      /\ candidates \subseteq chainTx /\ tip' \in chainTx /\ coins' \in chainTx
  BY CompleteStays DEF LinksInv, IInv, TypeOK, Received
<1>3. ASSUME NEW x \in unlinked
      PROVE  x \in Blocks \ {Genesis} /\ index'[x] # Absent /\ index'[x].nTx
  <2>1. x \in Blocks /\ index[x] # Absent /\ x # Genesis /\ index[x].nTx
    BY <1>1 DEF LinksInv, IInv, UpInv, SetsInv, Known
  <2> QED BY <2>1 DEF Changed, ChangedTo, Before
<1>4. CASE LinksIt(b)
  <2>1. Parent[b] \in chainTx /\ Complete(index', Parent[b])
    BY <1>2, <1>4 DEF LinksIt
  <2>2. Complete(index', b)
    BY <1>1, <2>1, CompleteParent
  <2>3. ASSUME NEW x \in Linked(b) PROVE x \in Blocks /\ Complete(index', x)
    <3>1. CASE x = b
      BY <2>2, <3>1
    <3>2. CASE x # b
      <4>1. x \in unlinked /\ Chain[x] \ Chain[b] \subseteq unlinked
        BY <2>3, <3>2 DEF Linked
      <4>2. x \in Blocks
        BY <1>3, <4>1
      <4> QED BY <1>3, <2>2, <4>1, <4>2 DEF Complete
    <3> QED BY <3>1, <3>2
  <2>4. /\ chainTx' = chainTx \cup Linked(b) /\ candidates' \subseteq candidates \cup Linked(b)
        /\ unlinked' \subseteq unlinked /\ b \in Linked(b)
    BY <1>4 DEF LinksIt, Linked
  <2>5. \A x \in chainTx' \ {Genesis} : Parent[x] \in chainTx'
    <3>1. \A x \in Linked(b) \ {b} : Parent[x] \in Linked(b)
      BY <1>1, <1>3, LinkedFamily
    <3> QED BY <2>1, <2>4, <3>1 DEF LinksInv
  <2>6. ASSUME NEW x \in Blocks, seq'[x] # 0, x \notin Linked(b) PROVE x \in chainTx
    <3>1. PICK pos : seq' = Resequenced(Linked(b), pos)
      BY <1>4 DEF LinksIt
    <3>2. seq[x] # 0
      BY <2>6, <3>1 DEF Resequenced
    <3> QED BY <3>2 DEF LinksInv
  <2> QED BY <1>1, <1>2, <1>3, <2>3, <2>4, <2>5, <2>6 DEF LinksInv
<1>5. CASE WaitsIt(b)
  <2>1. b \notin chainTx
    BY <1>1, <1>5 DEF WaitsIt, LinksInv
  <2>2. /\ chainTx' = chainTx /\ seq' = seq /\ candidates' = candidates
        /\ unlinked' \subseteq unlinked \cup {b}
    BY <1>5, <2>1 DEF WaitsIt
  <2> QED BY <1>1, <1>2, <1>3, <2>2 DEF LinksInv
<1> QED BY <1>4, <1>5

LEMMA ReceivedApart ==
  ASSUME IInv, LinksInv, Apart, NEW b \in Blocks, Received(b), LinksIt(b) \/ WaitsIt(b)
  PROVE  Apart'
<1> SUFFICES ASSUME "prune" \notin Features
             PROVE  \A x \in unlinked' : Parent[x] \notin chainTx'
  BY DEF Apart
<1>1. /\ \A x \in unlinked : Parent[x] \notin chainTx
      /\ b \in Blocks \ {Genesis} /\ unlinked \subseteq Blocks \ {Genesis}
  BY DEF Apart, Received, LinksInv, IInv, TypeOK
<1>2. CASE LinksIt(b)
  <2>1. /\ Parent[b] \in chainTx /\ chainTx' = chainTx \cup Linked(b)
        /\ unlinked' = unlinked \ (Linked(b) \ {b}) /\ b \in Linked(b)
    BY <1>2 DEF LinksIt, Linked
  <2>2. \A x \in unlinked : Parent[x] \in Linked(b) => x \in Linked(b)
    BY <1>1, LinkedFamily
  <2> QED BY <1>1, <2>1, <2>2
<1>3. CASE WaitsIt(b)
  BY <1>1, <1>3 DEF WaitsIt
<1> QED BY <1>2, <1>3

LEMMA ReceivedWaits ==
  ASSUME MInv, LinksInv, FailedComplete(index), Apart, WaitInv, Changed,
         NEW b \in Blocks, Received(b), LinksIt(b) \/ WaitsIt(b)
  PROVE  WaitInv'
<1> SUFFICES ASSUME "prune" \notin Features, ~({"invalidate", "reconsider"} \subseteq Features)
             PROVE  \A x \in Known' : index'[x].nTx /\ x \notin chainTx' =>
                        x \in unlinked' \/ OnRejected(x)'
  BY DEF WaitInv
<1>1. \A x \in Known : index[x].nTx /\ x \notin chainTx => x \in unlinked \/ OnRejected(x)
  BY DEF WaitInv
<1>2. /\ IInv /\ node # "down" /\ b \in Blocks \ {Genesis} /\ Sound(index) /\ IndexOK(index)
      /\ Marked(index)
      /\ \A x \in Blocks \ {b} : index'[x] = index[x]
      /\ unlinked \subseteq Blocks \ {Genesis}
  BY DEF Received, MInv, MarksInv, IInv, UpInv, IndexInv, LinksInv, TypeOK
<1>3. ASSUME NEW x \in Known' \ {b}, index'[x].nTx, x \notin chainTx, x \notin unlinked
      PROVE  OnRejected(x)'
  <2>1. x \in Known /\ index[x].nTx
    BY <1>2, <1>3 DEF Known
  <2>2. OnRejected(x)
    BY <1>1, <1>3, <2>1
  <2> QED BY <1>2, <2>1, <2>2, StaysOnRejected
<1>4. CASE LinksIt(b)
  BY <1>3, <1>4 DEF LinksIt, Linked
<1>5. CASE WaitsIt(b)
  <2>1. /\ Parent[b] \notin chainTx /\ b \notin chainTx
    BY <1>2, <1>5 DEF WaitsIt, LinksInv
  <2>2. /\ chainTx' = chainTx /\ unlinked \subseteq unlinked' /\ unlinked' \subseteq unlinked \cup {b}
        /\ IsValid(index[Parent[b]], TREE) => b \in unlinked'
    BY <1>5, <2>1 DEF WaitsIt
  <2>3. b \in unlinked' \/ OnRejected(b)'
    <3>1. SUFFICES ASSUME ~IsValid(index[Parent[b]], TREE) PROVE OnRejected(b)'
      BY <2>2
    <3>2. Parent[b] \in Blocks /\ index[Parent[b]] # Absent /\ Parent[b] # b /\ Parent[b] \in Chain[b]
      BY <1>2, ParentOf, OwnChain DEF Received
    <3>3. Failed(index[Parent[b]])
      <4>1. index[Parent[b]] \in Entry
        BY <1>2, <3>2, IndexValue DEF IndexOK
      <4>2. index[Parent[b]].level >= TREE
        BY <4>1, EntryFields DEF TREE
      <4> QED BY <3>1, <4>2 DEF IsValid
    <3>4. CASE "invalidate" \notin Features
      <4>1. ~Complete(index, Parent[b])
        BY <1>2, <2>1, <3>2, <3>4, CompleteLinked
      <4>2. Parent[b] \in BadBlock /\ index[Parent[b]].failedValid
        BY <3>2, <3>3, <3>4, <4>1 DEF FailedComplete, Failed
      <4>3. index'[Parent[b]].failedValid
        BY <1>2, <3>2, <4>2
      <4> QED BY <3>2, <4>2, <4>3 DEF OnRejected
    <3>5. CASE "invalidate" \in Features
      <4>1. PICK x \in Chain[Parent[b]] : index[x].failedValid
        BY <1>2, <3>2, <3>3, <3>5 DEF Marked
      <4>2. x \in Chain[b] /\ x \in Blocks /\ x # b
        BY <1>2, <3>2, <4>1, ParentOf, OwnChain
      <4>3. index'[x].failedValid
        BY <1>2, <4>1, <4>2
      <4> QED BY <3>5, <4>2, <4>3 DEF OnRejected
    <3> QED BY <3>4, <3>5
  <2> QED BY <1>3, <2>2, <2>3
<1> QED BY <1>4, <1>5
-----------------------------------------------------------------------------
(* Blocks are marked by AcceptBlock, by ConnectTip in the chain of its       *)
(* target, and by FindMostWorkChain in that of a candidate.                  *)
LEMMA ChangedFailedComplete ==
  ASSUME IInv, node # "down", LinksInv, FailedComplete(index), Changed
  PROVE  FailedComplete(index')
<1> SUFFICES ASSUME "invalidate" \notin Features, NEW b \in Blocks, index'[b] # Absent
             PROVE  /\ index'[b].failedChild => Complete(index', b)
                    /\ index'[b].failedValid => Complete(index', b) \/ b \in BadBlock
  BY DEF FailedComplete
<1>1. ChangedTo(b, Before(b), index'[b])
  BY DEF Changed
<1>2. /\ Before(b).failedChild => Complete(index, b)
      /\ Before(b).failedValid => Complete(index, b) \/ b \in BadBlock
  <2>1. ~NewEntry.failedChild /\ ~NewEntry.failedValid
    BY DEF NewEntry
  <2> QED BY <2>1 DEF Before, FailedComplete
<1>3. ASSUME NEW c \in candidates, b \in Chain[c] PROVE Complete(index, b)
  <2>1. c \in Blocks /\ c \in chainTx /\ Complete(index, c)
    BY DEF LinksInv, IInv, TypeOK
  <2> QED BY <1>3, <2>1, CompleteDown
<1>4. ASSUME Stepping, b \in Chain[job.target] PROVE Complete(index, b)
  <2>1. job.target \in Blocks /\ Complete(index, job.target)
    BY <1>4 DEF LinksInv, IInv, UpInv, JobInv
  <2> QED BY <1>4, <2>1, CompleteDown
<1>5. Complete(index, b) => Complete(index', b)
  BY CompleteStays
<1> QED BY <1>1, <1>2, <1>3, <1>4, <1>5 DEF ChangedTo

(* What is on disk as received was received.                                 *)
ReceivedToo(idx, old) == \A b \in Blocks :
  old[b] # Absent /\ old[b].nTx => idx[b] # Absent /\ idx[b].nTx

LEMMA KeptReceived ==
  ASSUME NEW idx, NEW old, IndexOK(idx), IndexOK(old), Kept(idx, old)
  PROVE  ReceivedToo(idx, old)
<1> SUFFICES ASSUME NEW b \in Blocks, old[b] # Absent, old[b].nTx
             PROVE  idx[b] # Absent /\ idx[b].nTx
  BY DEF ReceivedToo
<1>1. idx[b] # Absent /\ idx[b].level >= old[b].level /\ old[b].level >= TRANSACTIONS
  BY DEF Kept, IndexOK, EntryOK
<1>2. idx[b].level \in {0, 2, 3, 5} /\ old[b].level \in {0, 2, 3, 5}
  BY IndexValue DEF IndexOK
<1>3. idx[b].level >= TRANSACTIONS
  BY <1>1, <1>2 DEF TRANSACTIONS
<1> QED BY <1>1, <1>3 DEF IndexOK, EntryOK

(* An index w that was just written from the index idx in memory.            *)
LEMMA CompleteWritten ==
  ASSUME NEW idx, IndexOK(idx), IndexOK(diskIndex), ReceivedToo(idx, diskIndex),
         FailedComplete(idx), FailedComplete(diskIndex),
         NEW w, IndexOK(w), Copied(idx, w, {}),
         \A b \in Blocks : w[b] = idx[b] \/ w[b] = diskIndex[b]
  PROVE  FailedComplete(w)
<1>1. ASSUME NEW b \in Blocks, Complete(diskIndex, b) PROVE Complete(idx, b)
  BY <1>1, OwnChain DEF Complete, ReceivedToo
<1>2. ASSUME NEW b \in Blocks, Complete(idx, b) PROVE Complete(w, b)
  <2> SUFFICES ASSUME NEW x \in Chain[b] PROVE w[x] # Absent /\ w[x].nTx
    BY DEF Complete
  <2>1. x \in Blocks /\ idx[x] # Absent /\ idx[x].nTx
    BY <1>2, OwnChain DEF Complete
  <2>2. SameEntry(idx[x], w[x])
    BY <2>1 DEF Copied
  <2>3. w[x] # Absent
    BY <2>1, <2>2 DEF SameEntry
  <2>4. idx[x] \in Entry /\ w[x] \in Entry
    BY <2>1, <2>3, IndexValue DEF IndexOK
  <2> QED BY <2>1, <2>2, <2>4, <2>3, SameFields
<1> QED BY <1>1, <1>2 DEF FailedComplete

LEMMA InitLinks == Init => LInv
<1> SUFFICES ASSUME Init PROVE LInv
  OBVIOUS
<1>1. /\ MInv /\ Sound(index) /\ IndexOK(index) /\ node = "up"
      /\ candidates = {Genesis} /\ chainTx = {Genesis} /\ unlinked = {}
      /\ tip = Genesis /\ coins = Genesis
      /\ seq = [b \in Blocks |-> IF b = Genesis THEN 1 ELSE 0]
      /\ Chain[Genesis] = {Genesis} /\ Genesis \in Blocks /\ job = Free
      /\ diskIndex = index /\ \A b \in Blocks \ {Genesis} : index[b] = Absent
  BY InitMarks, ChainStateAssumption DEF Init, MInv, MarksInv, IInv, UpInv, IndexInv
<1>2. Complete(index, Genesis)
  BY <1>1 DEF Complete, Sound, SoundEntry, IndexOK
<1>3. ~Stepping
  BY <1>1, FreeFields DEF Stepping
<1>4. LinksInv
  BY <1>1, <1>2, <1>3 DEF LinksInv
<1>5. FailedComplete(index) /\ Apart /\ WaitInv
  BY <1>1, <1>2 DEF FailedComplete, Apart, WaitInv, Known
<1> QED BY <1>1, <1>4, <1>5 DEF LInv

LEMMA RunningLinks ==
  ASSUME LInv, Next, node # "down", node' # "down"
  PROVE  LInv'
<1>1. /\ MInv /\ LinksInv /\ FailedComplete(index) /\ Apart /\ WaitInv
      /\ FailedComplete(diskIndex)
      /\ MInv' /\ IInv /\ IInv' /\ Sound(index) /\ TargetMarked
  BY MarksInductive DEF LInv, MInv, MarksInv
<1>2. Changed /\ Writes /\ OtherPlace
  BY <1>1, EntriesChange, RunningWrites, EveryPlace
<1>3. LinksInv' /\ Apart' /\ WaitInv'
  <2>1. CASE OtherSets /\ NoneReceived
    BY <1>1, <1>2, <2>1, OtherLinks, OtherApart, OtherWaits
  <2>2. CASE \E b \in Blocks : Received(b) /\ (LinksIt(b) \/ WaitsIt(b)) /\ pending'
    BY <1>1, <1>2, <2>2, ReceivedLinks, ReceivedApart, ReceivedWaits
  <2>3. CASE ~AcceptBlock
    <3>1. NoneReceived
      <4> SUFFICES ASSUME NEW b \in Blocks, index'[b] # Absent, index'[b].nTx
                   PROVE  index[b] # Absent /\ index[b].nTx
        BY DEF NoneReceived
      <4>1. Before(b).nTx
        BY <1>2, <2>3 DEF Changed, ChangedTo
      <4>2. ~NewEntry.nTx
        BY DEF NewEntry
      <4> QED BY <4>1, <4>2 DEF Before
    <3>2. OtherSets
      BY <1>1, <2>3, EverySets
    <3> QED BY <2>1, <3>1, <3>2
  <2> QED BY <1>1, <2>1, <2>2, <2>3, AcceptBlockCases
<1>4. FailedComplete(index')
  BY <1>1, <1>2, ChangedFailedComplete
<1>5. FailedComplete(diskIndex')
  <2>1. CASE UNCHANGED diskIndex
    BY <1>1, <2>1
  <2>2. CASE /\ Copied(index', diskIndex', {})
             /\ \A b \in Blocks : diskIndex'[b] = index'[b] \/ diskIndex'[b] = diskIndex[b]
    <3>1. /\ IndexOK(index') /\ IndexOK(diskIndex) /\ IndexOK(diskIndex')
          /\ ReceivedToo(index, diskIndex)
      BY <1>1, KeptReceived DEF IInv, UpInv, IndexInv, DiskInv
    <3>2. ReceivedToo(index', diskIndex)
      BY <1>2, <3>1 DEF ReceivedToo, Changed, ChangedTo, Before
    <3> QED BY <1>1, <1>4, <2>2, <3>1, <3>2, CompleteWritten
  <2> QED BY <1>2, <2>1, <2>2 DEF Writes
<1> QED BY <1>1, <1>3, <1>4, <1>5 DEF LInv

LEMMA DyingLinks ==
  ASSUME LInv, Crash \/ AssertionFails \/ Shutdown
  PROVE  LInv'
<1>1. /\ MInv /\ MInv' /\ FailedComplete(diskIndex)
      /\ node # "down" => FailedComplete(index)
  BY DyingMarks DEF LInv
<1>2. node' = "down"
  BY DEF Crash, AssertionFails, Shutdown, Stop
<1>3. CASE Crash \/ AssertionFails
  <2>1. UNCHANGED diskIndex
    BY <1>3 DEF Crash, AssertionFails, diskVars
  <2> QED BY <1>1, <1>2, <2>1 DEF LInv
<1>4. CASE Shutdown
  <2>1. /\ node # "down"
        /\ diskIndex' = [b \in Blocks |-> IF b \in dirty THEN index[b] ELSE diskIndex[b]]
    BY <1>4 DEF Shutdown, Enter, WriteBatchSync
  <2>2. /\ IndexOK(index) /\ Copied(index, diskIndex, dirty) /\ Kept(index, diskIndex)
        /\ IndexOK(diskIndex) /\ FailedComplete(index)
    BY <1>1, <2>1 DEF MInv, IInv, UpInv, IndexInv, DiskInv
  <2>3. IndexOK(diskIndex') /\ Copied(index, diskIndex', {})
    BY <2>1, <2>2, BatchWritten
  <2>4. \A b \in Blocks : diskIndex'[b] = index[b] \/ diskIndex'[b] = diskIndex[b]
    BY <2>1
  <2>5. FailedComplete(diskIndex')
    BY <1>1, <2>2, <2>3, <2>4, KeptReceived, CompleteWritten
  <2> QED BY <1>1, <1>2, <2>5 DEF LInv
<1> QED BY <1>3, <1>4

(* LoadBlockIndexDB links the blocks again by what is on disk.               *)
LEMMA LoadLinks ==
  ASSUME LInv, MInv', LoadBlockIndexDB
  PROVE  LInv'
<1>1. /\ index' = diskIndex /\ UNCHANGED diskIndex /\ ~Stepping'
      /\ tip' = diskCoins /\ coins' = diskCoins
      /\ chainTx' = StoredChainTx /\ candidates' = StartCandidates
      /\ unlinked' = {b \in Stored \ {Genesis} : diskIndex[b].nTx /\ Parent[b] \notin StoredChainTx}
      /\ seq' = [b \in Blocks |-> 0]
  BY FreeFields DEF LoadBlockIndexDB, diskVars, Stepping
<1>2. FailedComplete(diskIndex) /\ Sound(diskIndex) /\ IndexOK(diskIndex)
  BY DEF LInv, MInv, DiskMarksInv, IInv, DiskInv
<1>3. ASSUME NEW b \in Blocks PROVE b \in StoredChainTx <=> Complete(diskIndex, b)
  BY OwnChain DEF StoredChainTx, Stored, Complete
<1>4. StoredChainTx \subseteq Blocks /\ StartCandidates \subseteq StoredChainTx
  BY DEF StoredChainTx, Stored, StartCandidates
<1>5. Genesis \in StoredChainTx
  BY <1>2, <1>3, ChainStateAssumption DEF Complete, Sound, SoundEntry, IndexOK
<1>6. ASSUME NEW b \in Blocks \ {Genesis}
      PROVE  b \in StoredChainTx <=>
               diskIndex[b] # Absent /\ diskIndex[b].nTx /\ Parent[b] \in StoredChainTx
  BY <1>3, CompleteParent, ParentOf
<1>7. diskCoins \in StoredChainTx
  BY <1>2, <1>3, ScriptedComplete DEF LInv, MInv, IInv, TypeOK, DiskInv
<1>8. LinksInv'
  BY <1>1, <1>3, <1>4, <1>5, <1>6, <1>7 DEF LinksInv, Stored
<1>9. Apart'
  BY <1>1 DEF Apart
<1>10. WaitInv'
  <2>2. ASSUME NEW b \in Known', index'[b].nTx, b \notin chainTx' PROVE b \in unlinked'
    <3>1. b \in Stored \ {Genesis}
      BY <1>1, <1>5, <2>2 DEF Known, Stored
    <3> QED BY <1>1, <1>6, <2>2, <3>1 DEF Stored
  <2> QED BY <2>2 DEF WaitInv
<1> QED BY <1>1, <1>2, <1>8, <1>9, <1>10 DEF LInv

LEMMA LinksInductive == LInv /\ [Next]_vars => LInv'
<1> SUFFICES ASSUME LInv, [Next]_vars PROVE LInv'
  OBVIOUS
<1>1. IInv /\ MInv /\ MInv'
  BY MarksInductive DEF LInv, MInv
<1>2. CASE UNCHANGED vars
  BY <1>1, <1>2 DEF vars, LInv, LinksInv, FailedComplete, Apart, WaitInv, Stepping, Complete,
     Known, OnRejected
<1>3. CASE Crash \/ AssertionFails \/ Shutdown
  BY <1>3, DyingLinks
<1>4. CASE LoadBlockIndexDB
  BY <1>1, <1>4, LoadLinks
<1>5. CASE Next /\ node # "down" /\ node' # "down"
  BY <1>5, RunningLinks
<1>6. ASSUME Next, node = "down" \/ node' = "down"
      PROVE  Crash \/ AssertionFails \/ Shutdown \/ LoadBlockIndexDB \/ UNCHANGED vars
  BY <1>1, <1>6, DownSteps
<1> QED BY <1>2, <1>3, <1>4, <1>5, <1>6

THEOREM LinksInvariant == Spec => []LInv
  BY InitLinks, LinksInductive, PTL DEF Spec
-----------------------------------------------------------------------------
(* "All parents having had data (at some point) is equivalent to all parents  *)
(* being VALID_TRANSACTIONS, which is equivalent to nChainTx being set": in   *)
(* whatever order blocks arrive, every complete chain is linked.  True of a   *)
(* node that neither prunes nor is told to invalidate a block.               *)
THEOREM LinkedExactlyAlways ==
  ASSUME Features \cap {"prune", "invalidate"} = {}
  PROVE  Spec => []LinkedExactly
<1>1. LInv => LinkedExactly
  <2> SUFFICES ASSUME LInv, LockFree, NEW b \in Known
               PROVE  /\ b \in chainTx <=> ~NeverProcessed(b)
                      /\ seq[b] # 0 => b \in chainTx
    BY DEF LinkedExactly
  <2>1. /\ IInv /\ node # "down" /\ Sound(index) /\ LinksInv /\ Apart /\ WaitInv
        /\ IndexOK(index)
        /\ b \in Blocks /\ index[b] # Absent
    BY DEF LInv, MInv, MarksInv, LockFree, IInv, UpInv, IndexInv, Known
  <2>2. Complete(index, b) <=> ~NeverProcessed(b)
    BY <2>1, AncestorsKnown DEF Complete, NeverProcessed
  <2>3. Complete(index, b) => b \in chainTx
    BY <2>1, CompleteLinked
  <2> QED BY <2>1, <2>2, <2>3 DEF LinksInv
<1> QED BY <1>1, LinksInvariant, PTL
-----------------------------------------------------------------------------
(* CBlockIndexWorkComparator is a strict total order, whatever the sequence   *)
(* numbers: addresses differ.                                                *)
LEMMA WorseOrder ==
  ASSUME NEW s \in [Blocks -> Nat], NEW a \in Blocks, NEW b \in Blocks, NEW c \in Blocks
  PROVE  /\ ~WorseIn(s, a, a)
         /\ WorseIn(s, a, b) => ~WorseIn(s, b, a)
         /\ a # b => WorseIn(s, a, b) \/ WorseIn(s, b, a)
         /\ WorseIn(s, a, b) /\ WorseIn(s, b, c) => WorseIn(s, a, c)
         /\ WorseIn(s, a, b) => WorseIn(s, a, c) \/ WorseIn(s, c, b)
<1>1. /\ Work[a] \in Nat /\ Work[b] \in Nat /\ Work[c] \in Nat
      /\ Addr[a] \in Nat /\ Addr[b] \in Nat /\ Addr[c] \in Nat
      /\ s[a] \in Nat /\ s[b] \in Nat /\ s[c] \in Nat
      /\ Addr[a] = Addr[b] => a = b
  BY ChainStateAssumption
<1> QED BY <1>1 DEF WorseIn, WorseBySeq

(* New sequence numbers leave the order of the blocks that keep theirs.      *)
LEMMA Renumbered ==
  ASSUME seq \in [Blocks -> Nat], NEW L \in SUBSET Blocks, NEW pos \in Orders(L),
         NEW s, s = Resequenced(L, pos),
         NEW x \in Blocks \ L, NEW y \in Blocks \ L, Work[x] = Work[y], seq[x] > seq[y]
  PROVE  s[x] > s[y]
<1> DEFINE key(z) == IF z \in L THEN Cardinality(Blocks) + pos[z] ELSE seq[z]
           upTo(z) == {w \in Blocks : Work[w] = Work[z] /\ key(w) \in 1 .. key(z)}
<1>1. \A z \in Blocks \ L : key(z) = seq[z] /\ key(z) \in Nat
  OBVIOUS
<1>2. ASSUME NEW z \in Blocks \ L
      PROVE  s[z] = IF key(z) = 0 THEN 0 ELSE Cardinality(upTo(z))
  BY DEF Resequenced
<1>3. ASSUME NEW z \in Blocks PROVE IsFiniteSet(upTo(z)) /\ Cardinality(upTo(z)) \in Nat
  <2>1. upTo(z) \subseteq Blocks
    OBVIOUS
  <2> HIDE DEF upTo
  <2> QED BY <2>1, FS_Subset, FS_CardinalityType, ChainStateAssumption
<1>4. key(x) \in Nat /\ key(y) \in Nat /\ key(x) > key(y)
  BY <1>1
<1>5. x \in upTo(x) /\ x \notin upTo(y)
  BY <1>4
<1>6. upTo(y) \subseteq upTo(x)
  <2> SUFFICES ASSUME NEW w \in upTo(y) PROVE w \in upTo(x)
    OBVIOUS
  <2>1. w \in Blocks /\ Work[w] = Work[x] /\ key(w) \in Nat /\ 1 <= key(w) /\ key(w) <= key(y)
    BY <1>4
  <2>2. key(w) \in 1 .. key(x)
    BY <1>4, <2>1
  <2> QED BY <2>1, <2>2
<1>7. Cardinality(upTo(y)) < Cardinality(upTo(x))
  <2> HIDE DEF upTo
  <2>1. upTo(y) # upTo(x)
    BY <1>5
  <2> QED BY <1>3, <1>6, <2>1, FS_Subset
<1> HIDE DEF key, upTo
<1> QED BY <1>2, <1>3, <1>4, <1>7

LEMMA KeepsOrder ==
  ASSUME seq \in [Blocks -> Nat], NEW L \in SUBSET Blocks, NEW pos \in Orders(L),
         NEW s, s = Resequenced(L, pos),
         NEW x \in Blocks \ L, NEW y \in Blocks \ L
  PROVE  WorseIn(s, x, y) <=> Worse(x, y)
<1>1. s \in [Blocks -> Nat]
  BY ResequencedType
<1>2. Work[x] = Work[y] /\ seq[x] > seq[y] => s[x] > s[y]
  BY Renumbered
<1>3. Work[x] = Work[y] /\ seq[y] > seq[x] => s[y] > s[x]
  BY Renumbered
<1>4. Work[x] = Work[y] /\ seq[y] = seq[x] => s[y] = s[x]
  BY DEF Resequenced
<1>5. s[x] \in Nat /\ s[y] \in Nat /\ seq[x] \in Nat /\ seq[y] \in Nat
  BY <1>1
<1> QED BY <1>2, <1>3, <1>4, <1>5 DEF Worse, WorseIn, WorseBySeq
-----------------------------------------------------------------------------
(* PruneBlockIndexCandidates: no candidate sorts before the tip.              *)
SoundCandidates == "prune" \in Features \/ \A c \in candidates : ~Worse(c, tip)

(* The linked blocks and those that are linked now are different ones.        *)
LEMMA LinkedApart ==
  ASSUME MInv, LinksInv, Apart, "prune" \notin Features, NEW b \in Blocks, Received(b)
  PROVE  Linked(b) \in SUBSET Blocks /\ Linked(b) \cap chainTx = {}
<1>1. /\ Sound(index) /\ unlinked \subseteq Blocks \ {Genesis} /\ b \in Blocks \ {Genesis}
      /\ \A x \in unlinked : Parent[x] \notin chainTx
  BY DEF Received, MInv, MarksInv, IInv, TypeOK, LinksInv, Apart
<1>2. b \notin chainTx
  <2>1. SUFFICES ASSUME b \in chainTx PROVE FALSE
    OBVIOUS
  <2>2. Complete(index, b)
    BY <2>1 DEF LinksInv
  <2>3. index[b] # Absent /\ index[b].nTx
    BY <1>1, <2>2, OwnChain DEF Complete
  <2>4. index[b].data
    BY <1>1, <2>3 DEF Sound, SoundEntry
  <2> QED BY <2>3, <2>4 DEF Received, Before
<1>3. \A x \in unlinked : x \notin chainTx
  BY <1>1 DEF LinksInv
<1> QED BY <1>1, <1>2, <1>3 DEF Linked

LEMMA RunningCandidates ==
  ASSUME LInv, SoundCandidates, Next, node # "down", node' # "down"
  PROVE  SoundCandidates'
<1> SUFFICES ASSUME "prune" \notin Features PROVE \A c \in candidates' : ~Worse(c, tip)'
  BY DEF SoundCandidates
<1>1. /\ MInv /\ IInv /\ LinksInv /\ Apart /\ Sound(index) /\ IInv'
      /\ tip \in Blocks /\ tip' \in Blocks /\ coins \in Blocks /\ tip \in chainTx
      /\ seq \in [Blocks -> Nat] /\ chainTx \subseteq Blocks
      /\ candidates \subseteq Blocks /\ candidates \subseteq chainTx
      /\ JobInv /\ PlaceInv
      /\ \A c \in candidates : ~Worse(c, tip)
  BY MarksInductive DEF LInv, MInv, MarksInv, IInv, UpInv, JobInv, TypeOK, LinksInv, SoundCandidates
<1>2. CASE UNCHANGED <<seq, tip>> /\ candidates' \subseteq candidates
  BY <1>1, <1>2 DEF Worse
<1>3. CASE \E b \in Blocks : Received(b) /\ LinksIt(b)
  <2>1. PICK b \in Blocks : Received(b) /\ LinksIt(b)
    BY <1>3
  <2>2. PICK pos \in Orders(Linked(b)) : seq' = Resequenced(Linked(b), pos)
    BY <2>1 DEF LinksIt
  <2>3. Linked(b) \in SUBSET Blocks /\ Linked(b) \cap chainTx = {}
    BY <1>1, <2>1, LinkedApart
  <2>4. \A c \in candidates : ~WorseIn(seq', c, tip)
    BY <1>1, <2>2, <2>3, KeepsOrder
  <2> QED BY <2>1, <2>4 DEF LinksIt, Received, Worse
<1>4. CASE UpdateTip
  <2>1. UNCHANGED seq /\ tip' = coins
    BY <1>4 DEF UpdateTip
  <2>2. CASE job.move = "connect"
    BY <1>4, <2>1, <2>2 DEF UpdateTip, NotWorse, Worse
  <2>3. CASE job.move # "connect"
    <3>1. Moving /\ job.phase = "update" /\ candidates' = candidates
      BY <1>1, <1>4, <2>3 DEF UpdateTip, JobInv
    <3>2. Parent[tip] = coins
      BY <1>1, <2>3, <3>1 DEF PlaceInv, Moving, IInv, TypeOK, JobType
    <3>3. Work[coins] < Work[tip]
      BY <1>1, <3>2, ChainStateAssumption
    <3>4. ~Worse(tip, coins)
      BY <1>1, <3>3, ChainStateAssumption DEF Worse, WorseIn, WorseBySeq
    <3>5. ASSUME NEW c \in candidates, Worse(c, coins) PROVE FALSE
      <4>1. WorseIn(seq, c, tip) \/ WorseIn(seq, tip, coins)
        BY <1>1, <3>5, WorseOrder DEF Worse
      <4> QED BY <1>1, <3>4, <4>1 DEF Worse
    <3> QED BY <2>1, <3>1, <3>5 DEF Worse
  <2> QED BY <2>2, <2>3
<1>5. CASE InvalidateDone
  BY <1>1, <1>5 DEF InvalidateDone, NotWorse, Worse
<1>6. CASE ReconsiderBlock
  <2>1. UNCHANGED <<seq, tip, chainTx>>
    BY <1>6, Zenon DEF ReconsiderBlock
  <2>2. PICK S : candidates' = candidates \cup Better(S \cap {x \in chainTx : TRUE})
    <3>1. PICK b, below, cl : candidates' = candidates \cup Better(below \cap Linkable(cl))
      BY <1>6, Zenon DEF ReconsiderBlock
    <3>2. below \cap Linkable(cl) = (below \cap Linkable(cl)) \cap {x \in chainTx : TRUE}
      BY DEF Linkable
    <3> QED BY <3>1, <3>2
  <2>3. ASSUME NEW c \in candidates' \ candidates PROVE ~Worse(c, tip)
    <3>1. c \in Blocks /\ WorseIn(seq, tip, c)
      BY <1>1, <2>2, <2>3 DEF Better, Worse
    <3> QED BY <1>1, <3>1, WorseOrder DEF Worse
  <2> QED BY <1>1, <2>1, <2>3 DEF Worse
<1>7. CASE AcceptBlock
  <2>1. CASE \E b \in Blocks : Received(b) /\ WaitsIt(b)
    BY <1>2, <2>1 DEF Received, WaitsIt
  <2> QED BY <1>1, <1>2, <1>3, <1>7, <2>1, AcceptBlockCases
<1>8. ~(Crash \/ AssertionFails \/ Shutdown \/ LoadBlockIndexDB)
  BY DEF Crash, AssertionFails, Shutdown, LoadBlockIndexDB, Stop
<1>9. \/ UNCHANGED <<seq, tip>> /\ candidates' \subseteq candidates
      \/ AcceptBlock \/ UpdateTip \/ InvalidateDone \/ ReconsiderBlock
  BY <1>8 DEF Next, Activation, Rpc, AcceptBlockHeader, AcceptBlockAgain,
     EnterActivateBestChain, FindMostWorkChain, StepDisconnect, ConnectTip, InvalidBlockFound,
     FailedToRead, InvalidateBlock, InvalidateTip, FlushStateToDisk, FlushCoins,
     NoSpaceForIndex, CoinsNotFlushed, StartFails, memVars, vars
<1> QED BY <1>2, <1>4, <1>5, <1>6, <1>7, <1>9
-----------------------------------------------------------------------------
(* setBlockIndexCandidates is only complete for blocks that are not worse     *)
(* than the best tip there was: while the chain is taken back and when a     *)
(* branch turns out to be invalid halfway, the tip is worse than that one.   *)
(* So there is a block r, valid and not worse than the tip, from which on all *)
(* are candidates, and it is the tip itself whenever all threads are done.   *)
(* While invalidateblock takes the chain back there may be none; when it is  *)
(* done, the tip is one.                                                    *)
WholeFlushes == {"crash", "diskFull"} \cap Features = {}
Default == /\ Features \cap {"prune", "reconsider"} = {}
           /\ "invalidate" \notin Features \/ WholeFlushes
Fine(b) == Eligible(b) /\ ~BreaksRules(b)
Covered(r) ==
  /\ Fine(r) /\ ~Worse(r, tip)
  /\ \A b \in Blocks : Eligible(b) /\ ~Worse(b, r) => b \in candidates
Settled == node = "up" /\ ~pending /\ ~Invalidating

BestInv == Default =>
  /\ Invalidating \/ \E r \in Blocks : Covered(r) /\ (Settled => r = tip)
  /\ Stepping => \A c \in candidates : ~Worse(job.target, c)
  /\ Settled => ~Stepping /\ job.phase # "find" /\ \A c \in candidates : ~Worse(tip, c)

LEMMA EligibleBefore ==
  ASSUME Changed, NoneReceived, Default, NEW b \in Blocks, Eligible(b)'
  PROVE  Eligible(b)
<1>1. Complete(index', b) /\ \A x \in Chain[b] : ~index'[x].failedValid
  BY DEF Eligible
<1>2. Complete(index, b)
  BY <1>1, OwnChain DEF Complete, NoneReceived
<1>3. ASSUME NEW x \in Chain[b] PROVE ~index[x].failedValid
  <2>1. x \in Blocks /\ index[x] # Absent
    BY <1>2, OwnChain DEF Complete
  <2> QED BY <1>1, <2>1, CauseStays DEF Default
<1> QED BY <1>2, <1>3 DEF Eligible

LEMMA FineStays ==
  ASSUME Changed, ~InvalidateBlock, NEW b \in Blocks, Fine(b)
  PROVE  Fine(b)'
<1>1. Complete(index, b) /\ Complete(index', b)
  BY CompleteStays DEF Fine, Eligible
<1>2. ASSUME NEW x \in Chain[b] PROVE ~index'[x].failedValid
  <2>1. x \in Blocks /\ index[x] # Absent /\ index'[x] # Absent
    BY <1>1, OwnChain DEF Complete
  <2>2. ~index[x].failedValid /\ x \notin BadBlock \cup BadSpend
    BY DEF Fine, Eligible, BreaksRules
  <2> QED BY <2>1, <2>2 DEF Changed, ChangedTo, Before
<1>3. ~BreaksRules(b)
  BY DEF Fine
<1> QED BY <1>1, <1>2, <1>3 DEF Fine, Eligible, BreaksRules

(* While no chain is taken back, the one of the coins is a valid one: without *)
(* invalidateblock it was connected, and with it the marks were obeyed.      *)
LEMMA ConnectedFine ==
  ASSUME NEW idx, IndexOK(idx), Sound(idx), Default, NEW t \in Blocks, Scripted(idx, t),
         "invalidate" \notin Features \/
           \A c \in Chain[t] : Failed(idx[c]) => GapAbove(idx, t, c)
  PROVE  /\ Complete(idx, t) /\ ~BreaksRules(t)
         /\ \A x \in Chain[t] : ~idx[x].failedValid
<1>1. /\ Complete(idx, t) /\ ~BreaksRules(t)
      /\ "invalidate" \notin Features => \A x \in Chain[t] : ~Failed(idx[x])
  BY ScriptedComplete DEF BreaksRules
<1>2. ASSUME NEW c \in Chain[t], idx[c].failedValid PROVE FALSE
  <2>1. "invalidate" \in Features
    BY <1>1, <1>2 DEF Failed
  <2>2. PICK x \in Chain[t] : c \in Chain[x] /\ ~idx[x].undo
    BY <1>2, <2>1 DEF Failed, GapAbove
  <2>3. CASE x = Genesis
    <3>1. c = Genesis /\ Genesis \in Blocks /\ idx[Genesis] # Absent
      BY <2>2, <2>3, ChainStateAssumption DEF IndexOK
    <3> QED BY <1>2, <3>1 DEF Sound, SoundEntry
  <2>4. CASE x # Genesis
    <3>1. x \in Blocks /\ idx[x].level = SCRIPTS
      BY <2>4, OwnChain DEF Scripted
    <3>2. idx[x] # Absent
      BY <3>1, AbsentLevel DEF SCRIPTS
    <3> QED BY <2>2, <3>1, <3>2 DEF Sound, SoundEntry, Default
  <2> QED BY <2>3, <2>4
<1> QED BY <1>1, <1>2

(* Nothing but blocks that are not valid leaves the candidates.               *)
LEMMA BestKept ==
  ASSUME Default, BestInv, ~Invalidating, Changed, NoneReceived, ~InvalidateBlock,
         UNCHANGED <<seq, tip>>,
         candidates' \subseteq candidates,
         \A c \in (candidates \cap Blocks) \ candidates' : ~Eligible(c)',
         Stepping' => \/ Stepping /\ job'.target = job.target
                      \/ \A c \in candidates : ~Worse(job'.target, c),
         Settled' => Settled /\ ~Stepping' /\ job'.phase # "find"
  PROVE  BestInv'
<1>1. PICK r \in Blocks : Covered(r) /\ (Settled => r = tip)
  BY DEF BestInv
<1>2. ASSUME NEW b \in Blocks, Eligible(b)', ~Worse(b, r) PROVE b \in candidates'
  <2>1. b \in candidates
    BY <1>1, <1>2, EligibleBefore DEF Covered
  <2> QED BY <1>2, <2>1
<1>3. Covered(r)'
  BY <1>1, <1>2, FineStays DEF Covered, Worse
<1>4. Stepping' => \A c \in candidates' : ~WorseIn(seq', job'.target, c)
  BY DEF BestInv, Worse
<1>5. Settled' => /\ ~Stepping' /\ job'.phase # "find"
                  /\ \A c \in candidates' : ~WorseIn(seq', tip', c)
  BY DEF BestInv, Worse
<1>6. \E b \in Blocks : Covered(b)' /\ (Settled' => b = tip')
  BY <1>1, <1>3
<1> QED BY <1>4, <1>5, <1>6 DEF BestInv, Worse

(* A node that does not prune has the data and the undo data it needs.        *)
LEMMA HasData ==
  ASSUME Sound(index), Default
  PROVE  /\ \A b \in Blocks : Complete(index, b) => \A x \in Chain[b] : index[x].data
         /\ \A b \in Blocks \ {Genesis} : Scripted(index, b) => index[b].undo
<1>1. ASSUME NEW b \in Blocks, Complete(index, b), NEW x \in Chain[b] PROVE index[x].data
  <2>1. x \in Blocks /\ index[x] # Absent /\ index[x].nTx
    BY <1>1, OwnChain DEF Complete
  <2> QED BY <2>1 DEF Sound, SoundEntry, Default
<1>2. ASSUME NEW b \in Blocks \ {Genesis}, Scripted(index, b) PROVE index[b].undo
  <2>1. index[b].level = SCRIPTS
    BY <1>2, OwnChain DEF Scripted
  <2>2. index[b] # Absent
    BY <2>1, AbsentLevel DEF SCRIPTS
  <2> QED BY <2>1, <2>2 DEF Sound, SoundEntry, Default
<1> QED BY <1>1, <1>2

(* What a running node of this kind knows at every step.                      *)
LEMMA InDefault ==
  ASSUME LInv, Default, node # "down"
  PROVE  /\ IInv /\ MInv /\ LinksInv /\ Apart /\ WaitInv /\ Sound(index) /\ Marked(index)
         /\ TargetMarked /\ job \in JobType /\ JobInv /\ PlaceInv /\ IndexOK(index)
         /\ tip \in Blocks /\ coins \in Blocks /\ candidates \subseteq Blocks
         /\ chainTx \subseteq Blocks /\ unlinked \subseteq Blocks
         /\ Scripted(index, tip) /\ Scripted(index, coins)
         /\ seq \in [Blocks -> Nat]
<1>1. /\ IInv /\ MInv /\ LinksInv /\ Apart /\ WaitInv /\ Sound(index) /\ Marked(index)
      /\ TargetMarked /\ JobInv /\ PlaceInv /\ IndexInv /\ TypeOK
  BY DEF LInv, MInv, MarksInv, IInv, UpInv
<1>2. /\ tip \in Blocks /\ coins \in Blocks /\ Scripted(index, tip) /\ Scripted(index, coins)
      /\ IndexOK(index)
  BY <1>1 DEF JobInv, IndexInv
<1> QED BY <1>1, <1>2 DEF TypeOK

(* What it obeys of the marks: the theorem ActiveChainNotFailedAlways.        *)
Obeyed == WholeFlushes => ActiveInv

LEMMA CoinsFine ==
  ASSUME LInv, Default, Obeyed, node # "down", \A c \in Chain[coins] : ~TakenBack(c)
  PROVE  Fine(coins)
<1>1. IndexOK(index) /\ Sound(index) /\ coins \in Blocks /\ Scripted(index, coins)
  BY InDefault
<1>2. "invalidate" \notin Features \/
        \A c \in Chain[coins] : Failed(index[c]) => GapAbove(index, coins, c)
  BY DEF Default, Obeyed, ActiveInv, ActiveMarks
<1> QED BY <1>1, <1>2, ConnectedFine DEF Fine, Eligible

LEMMA TipFine ==
  ASSUME LInv, Default, Obeyed, node # "down", ~Moving, \A c \in Chain[tip] : ~TakenBack(c)
  PROVE  Fine(tip)
<1>1. IndexOK(index) /\ Sound(index) /\ tip \in Blocks /\ Scripted(index, tip)
  BY InDefault
<1>2. "invalidate" \notin Features \/
        \A c \in Chain[tip] : Failed(index[c]) => GapAbove(index, tip, c)
  BY DEF Default, Obeyed, ActiveInv, ActiveMarks, Together
<1> QED BY <1>1, <1>2, ConnectedFine DEF Fine, Eligible

(* invalidateblock begins, or goes on.                                      *)
LEMMA InvalidatingBest ==
  ASSUME IInv, node # "down", Invalidating
  PROVE  BestInv
<1>1. ~Stepping
  BY DEF IInv, UpInv, JobInv, Invalidating, Stepping, Moving
<1> QED BY <1>1 DEF BestInv, Settled

LEMMA NotInvalidateBlock == ~Invalidating' => ~InvalidateBlock
  BY FreeFields DEF InvalidateBlock, Invalidating, Free

(* The steps that leave the tip and the candidates alone.                    *)
LEMMA QuietBest ==
  ASSUME LInv, Default, BestInv, node # "down", node' # "down", Changed, NoneReceived,
         UNCHANGED <<seq, tip, candidates>>, ~Invalidating',
         \/ AcceptBlockHeader \/ AcceptBlockAgain \/ EnterActivateBestChain
         \/ StepDisconnect \/ ConnectTip \/ FailedToRead \/ FlushStateToDisk
         \/ FlushCoins \/ NoSpaceForIndex \/ CoinsNotFlushed
         \/ UNCHANGED <<job, pending, node>>
  PROVE  BestInv'
<1>1. job \in JobType /\ JobInv /\ tip \in Blocks /\ Sound(index) /\ Scripted(index, tip)
      /\ TargetMarked
  BY InDefault
<1>0. ~Invalidating /\ ~InvalidateBlock
  <2>1. SUFFICES ASSUME Invalidating PROVE FALSE
    BY NotInvalidateBlock
  <2>2. "diskFull" \notin Features /\ job # Free /\ job.phase # "step"
    BY <1>1, <2>1, FreeIsNotInvalidating
       DEF TargetMarked, Default, WholeFlushes, Invalidating, JobInv, Moving
  <2>3. FlushStateToDisk \/ FlushCoins
    BY <2>1, <2>2 DEF AcceptBlockHeader, AcceptBlockAgain, EnterActivateBestChain, Enter,
       StepDisconnect, ConnectTip, FailedToRead, NoSpaceForIndex, CoinsNotFlushed, Invalidating
  <2>4. job.move = "invalidate"
    BY <2>1, <2>2, <2>3 DEF FlushStateToDisk, FlushCoins, Invalidating
  <2>5. job'.move = job.move
    BY <1>1, <2>2, <2>3, <2>4 DEF FlushStateToDisk, FlushCoins, JobType
  <2> QED BY <2>4, <2>5 DEF Invalidating
<1>2. Settled => ~Stepping /\ job.phase # "find"
  BY DEF BestInv
<1>3. CASE AcceptBlockHeader \/ UNCHANGED <<job, pending, node>>
  <2>1. UNCHANGED <<job, pending, node>>
    BY <1>3 DEF AcceptBlockHeader
  <2> QED BY <1>2, <2>1, <1>0, BestKept DEF Stepping, Settled
<1>4. CASE AcceptBlockAgain \/ EnterActivateBestChain
  <2>1. pending' = TRUE /\ ~Stepping'
    BY <1>4, FreeFields DEF AcceptBlockAgain, EnterActivateBestChain, Enter, Stepping, Free
  <2> QED BY <2>1, <1>0, BestKept DEF Settled
<1>5. CASE FailedToRead \/ NoSpaceForIndex \/ CoinsNotFlushed
  <2>1. job' = Free /\ node' = "stopping"
    BY <1>5 DEF FailedToRead, NoSpaceForIndex, CoinsNotFlushed, AbortNode
  <2>2. ~Stepping' /\ ~Settled'
    BY <2>1, FreeFields DEF Stepping, Settled
  <2> QED BY <2>2, <1>0, BestKept
<1>6. CASE ConnectTip
  <2>1. /\ Stepping /\ UNCHANGED <<pending, node>>
        /\ job' = [job EXCEPT !.phase = "update", !.move = "connect"]
    BY <1>6 DEF ConnectTip, Stepping
  <2>2. job'.target = job.target /\ ~Settled'
    BY <1>0, <1>1, <1>2, <2>1 DEF JobType, Settled
  <2> QED BY <2>1, <2>2, <1>0, BestKept
<1>7. CASE StepDisconnect
  <2>1. /\ job.phase = "step" /\ Stepping /\ tip \notin Chain[job.target]
        /\ DisconnectTip("disconnect")
    BY <1>7 DEF StepDisconnect, Stepping
  <2>2. index[tip].undo
    <3>1. tip # Genesis
      BY <1>1, <2>1, GenesisInChain DEF JobInv
    <3> QED BY <1>1, <3>1, HasData
  <2>3. CASE UNCHANGED <<pending, node>> /\ job' = [job EXCEPT !.phase = "update", !.move = "disconnect"]
    <3>1. job'.target = job.target /\ ~Settled'
      BY <1>0, <1>1, <1>2, <2>1, <2>3 DEF JobType, Settled
    <3> QED BY <2>1, <3>1, <1>0, BestKept
  <2>4. CASE job' = Free /\ node' = "stopping"
    <3>1. ~Stepping' /\ ~Settled'
      BY <2>4, FreeFields DEF Stepping, Settled
    <3> QED BY <3>1, <1>0, BestKept
  <2> QED BY <2>1, <2>2, <2>3, <2>4 DEF DisconnectTip, AbortNode
<1>8. CASE FlushStateToDisk \/ FlushCoins
  <2>1. /\ UNCHANGED <<pending, node>>
        /\ \/ job' = [job EXCEPT !.phase = "flush"] \/ job' = job
           \/ job' = Free \/ job' = [job EXCEPT !.phase = "update"]
    BY <1>8 DEF FlushStateToDisk, FlushCoins
  <2>2. /\ Stepping' => Stepping /\ job'.target = job.target
        /\ job.phase # "find" => job'.phase # "find"
    BY <1>1, <2>1, FreeFields DEF Stepping, JobType
  <2> QED BY <1>2, <2>1, <2>2, <1>0, BestKept DEF Settled
<1> QED BY <1>3, <1>4, <1>5, <1>6, <1>7, <1>8

LEMMA FindMostWorkChainBest ==
  ASSUME LInv, Default, Obeyed, BestInv, node # "down", Changed, NoneReceived, FindMostWorkChain
  PROVE  BestInv'
<1>1. /\ job \in JobType /\ JobInv /\ tip \in Blocks /\ Sound(index) /\ Marked(index)
      /\ candidates \subseteq Blocks /\ LinksInv /\ seq \in [Blocks -> Nat]
  BY InDefault
<1>2. /\ job.phase = "find" /\ ~Stepping /\ ~Settled /\ job.move = "none"
      /\ UNCHANGED <<seq, tip, node>> /\ ~Invalidating /\ ~Moving
  BY <1>1 DEF FindMostWorkChain, JobInv, Moving, Stepping, BestInv, Invalidating
<1>0. Fine(tip)
  BY <1>2, TipFine DEF TakenBack
<1>10. ~InvalidateBlock
  BY <1>2, FreeFields DEF InvalidateBlock, Enter
<1>3. PICK r \in Blocks : Covered(r)
  BY <1>2 DEF BestInv
<1>4. r \in candidates
  <2>1. Eligible(r)
    BY <1>3 DEF Covered, Fine
  <2> QED BY <1>1, <1>3, <2>1, WorseOrder DEF Covered, Worse
<1>5. ASSUME IsBest(tip), job' = Free, candidates' = candidates PROVE BestInv'
  <2>1. r = tip
    BY <1>3, <1>4, <1>5 DEF Covered, IsBest
  <2>2. \A b \in Blocks : Eligible(b)' /\ ~Worse(b, tip) => b \in candidates
    BY <1>3, <2>1, EligibleBefore DEF Covered
  <2>3. Covered(tip)'
    BY <1>1, <1>2, <1>10, <1>3, <1>5, <2>1, <2>2, FineStays DEF Covered, Worse
  <2>4. \A c \in candidates : ~WorseIn(seq, tip, c)
    BY <1>1, <1>5, WorseOrder DEF IsBest, Worse
  <2>5. ~Stepping' /\ job'.phase # "find"
    BY <1>5, FreeFields DEF Stepping
  <2>6. \E b \in Blocks : Covered(b)' /\ (Settled' => b = tip')
    BY <1>1, <1>2, <2>3
  <2>7. \A c \in candidates' : ~WorseIn(seq', tip', c)
    BY <1>2, <1>5, <2>4
  <2> QED BY <2>5, <2>6, <2>7 DEF BestInv, Worse
<1>6. ASSUME NEW b \in candidates, IsBest(b), candidates' = candidates, UNCHANGED pending,
             job' = [job EXCEPT !.phase = "step", !.target = b]
      PROVE  BestInv'
  <2>1. job'.target = b
    BY <1>1, <1>6 DEF JobType
  <2>2. \A c \in candidates : ~Worse(b, c)
    BY <1>1, <1>6, WorseOrder DEF IsBest, Worse
  <2>3. ~Settled'
    BY <1>2, <1>6 DEF Settled
  <2> QED BY <1>2, <1>10, <1>6, <2>1, <2>2, <2>3, BestKept
<1>7. ASSUME NEW b \in candidates, NEW m \in Blocks, IsFirstUnusable(m, b),
             candidates' = candidates \ ((Chain[b] \ Chain[m]) \cup {m}),
             UNCHANGED <<job, pending>>
      PROVE  BestInv'
  <2>1. b \in Blocks /\ Complete(index, b) /\ m \in Chain[b] /\ Unusable(m)
    BY <1>1, <1>7 DEF LinksInv, IsFirstUnusable, OffChain
  <2>2. Failed(index[m]) /\ index[m] # Absent
    BY <1>1, <2>1, HasData DEF Unusable, Complete
  <2>3. PICK x \in Chain[m] : index[x].failedValid
    BY <1>1, <2>2 DEF Marked, Default
  <2>4. ASSUME NEW c \in candidates \cap Blocks, c \notin candidates' PROVE ~Eligible(c)'
    <3>1. c = m \/ c \in Chain[b] \ Chain[m]
      BY <1>7, <2>4
    <3>2. m \in Chain[c]
      BY <2>1, <3>1, ChainsAreLines, OwnChain
    <3>3. x \in Chain[c]
      BY <3>2, ChainOfAncestor
    <3>4. ~Eligible(c)
      BY <2>3, <3>3 DEF Eligible
    <3> QED BY <3>4, EligibleBefore
  <2>5. ~Stepping' /\ ~Settled'
    BY <1>2, <1>7 DEF Stepping, Settled
  <2> QED BY <1>2, <1>10, <1>7, <2>4, <2>5, BestKept
<1>8. \/ candidates = {}
      \/ IsBest(tip) /\ job' = Free /\ candidates' = candidates
      \/ \E b \in candidates : /\ IsBest(b) /\ UNCHANGED pending /\ candidates' = candidates
                               /\ job' = [job EXCEPT !.phase = "step", !.target = b]
      \/ \E b \in candidates, m \in Blocks :
            /\ IsFirstUnusable(m, b)
            /\ candidates' = candidates \ ((Chain[b] \ Chain[m]) \cup {m})
            /\ UNCHANGED <<job, pending>>
  BY Zenon DEF FindMostWorkChain
<1> QED BY <1>4, <1>5, <1>6, <1>7, <1>8

LEMMA InvalidBlockFoundBest ==
  ASSUME LInv, Default, BestInv, node # "down", Changed, NoneReceived, InvalidBlockFound
  PROVE  BestInv'
<1>1. PICK b \in Blocks :
        /\ job.phase = "step" /\ NextBlock(b) /\ index' = [index EXCEPT ![b].failedValid = TRUE]
        /\ candidates' = candidates \ {b} /\ Leave(tip)
        /\ UNCHANGED <<seq, tip, node>>
  BY DEF InvalidBlockFound
<1>2. IndexOK(index) /\ tip \in Blocks /\ JobInv
  BY InDefault
<1>0. ~Invalidating /\ ~InvalidateBlock
  BY <1>1, <1>2, FreeFields DEF InvalidateBlock, Enter, JobInv, Moving, Invalidating
<1>3. ~Eligible(b)'
  <2>1. SUFFICES ASSUME Eligible(b)' PROVE FALSE
    OBVIOUS
  <2>2. Complete(index, b)
    BY <2>1, EligibleBefore DEF Eligible
  <2>3. index[b] \in Entry /\ EntryOK(index[b])
    BY <1>2, <2>2, OwnChain, IndexValue DEF Complete, IndexOK
  <2>4. PICK e : e = [index[b] EXCEPT !.failedValid = TRUE]
    OBVIOUS
  <2>5. index' = [index EXCEPT ![b] = e]
    BY <1>1, <2>4, Zenon
  <2>6. index'[b] = e /\ e.failedValid = TRUE
    BY <1>2, <2>3, <2>4, <2>5, InvalidEntry DEF IndexOK, Index
  <2> QED BY <2>1, <2>6, OwnChain DEF Eligible
<1>4. ~Stepping' /\ ~Settled'
  <2>1. tip # job.target
    BY <1>1 DEF NextBlock, OffChain
  <2> QED BY <1>1, <2>1, FreeFields DEF Leave, Stepping, Settled
<1> QED BY <1>1, <1>0, <1>3, <1>4, BestKept

LEMMA UpdateTipBest ==
  ASSUME LInv, Default, Obeyed, BestInv, node # "down", Changed, NoneReceived, UpdateTip,
         ~Invalidating'
  PROVE  BestInv'
<1>1. /\ job \in JobType /\ JobInv /\ PlaceInv /\ tip \in Blocks /\ coins \in Blocks
      /\ Sound(index) /\ candidates \subseteq Blocks /\ seq \in [Blocks -> Nat]
  BY InDefault
<1>0. ~Invalidating /\ ~InvalidateBlock
  <2>1. job.phase = "update" /\ Moving /\ job # Free
    BY <1>1, FreeFields DEF UpdateTip, JobInv
  <2>2. job.move = "invalidate" => job'.phase = "invalidate"
    BY <1>1 DEF UpdateTip, JobType
  <2> QED BY <2>1, <2>2 DEF Invalidating, InvalidateBlock, Enter
<1>10. Fine(coins)
  BY <1>0, CoinsFine DEF TakenBack
<1>2. /\ job.phase = "update" /\ Stepping /\ tip' = coins /\ UNCHANGED <<seq, node>>
      /\ job.move \in {"connect", "disconnect"}
  BY <1>1, <1>0 DEF UpdateTip, JobInv, Moving, Invalidating, Stepping, JobType
<1>3. ~Settled /\ \A c \in candidates : ~Worse(job.target, c)
  BY <1>2 DEF BestInv
<1>4. PICK r \in Blocks : Covered(r)
  BY <1>0 DEF BestInv
<1>5. \A b \in Blocks : Eligible(b)' /\ ~Worse(b, r) => b \in candidates
  BY <1>4, EligibleBefore DEF Covered
<1>6. Fine(r)'
  BY <1>0, <1>4, FineStays DEF Covered
<1>7. CASE job.move = "disconnect"
  <2>1. /\ candidates' = candidates /\ UNCHANGED pending
        /\ job' = [job EXCEPT !.phase = "step", !.move = "none"]
    BY <1>7 DEF UpdateTip
  <2>2. job'.target = job.target /\ ~Settled'
    BY <1>0, <1>1, <1>2, <1>3, <2>1 DEF JobType, Settled
  <2>3. ~Worse(r, coins)
    <3>1. Parent[tip] = coins
      BY <1>7 , <1>1 DEF PlaceInv
    <3>2. Worse(coins, tip)
      BY <1>1, <3>1, ChainStateAssumption DEF Worse, WorseIn, WorseBySeq
    <3> QED BY <1>1, <1>4, <3>2, WorseOrder DEF Covered, Worse
  <2>4. Covered(r)'
    BY <1>2, <1>4, <1>5, <1>6, <2>1, <2>3 DEF Covered, Worse
  <2>5. \A c \in candidates' : ~WorseIn(seq', job'.target, c)
    BY <1>2, <1>3, <2>1, <2>2 DEF Worse
  <2> QED BY <2>2, <2>4, <2>5 DEF BestInv, Worse
<1>8. CASE job.move = "connect"
  <2>1. /\ candidates' = {c \in candidates : ~Worse(c, coins)}
        /\ \/ job' = Free /\ pending' = (coins # job.target)
           \/ UNCHANGED pending /\ job' = [job EXCEPT !.phase = "step", !.move = "none"]
    BY <1>8 DEF UpdateTip, NotWorse, Leave
  <2>2. PICK q \in Blocks : q = IF Worse(r, coins) THEN coins ELSE r
    BY <1>1
  <2>3. ~Worse(q, coins) /\ Fine(q)'
    <3>1. ~Worse(q, coins)
      BY <1>1, <2>2, WorseOrder DEF Worse
    <3>2. Fine(q)
      BY <1>10, <1>4, <2>2 DEF Covered
    <3> QED BY <1>0, <3>1, <3>2, FineStays
  <2>4. ASSUME NEW b \in Blocks, Eligible(b)', ~Worse(b, q) PROVE b \in candidates'
    <3>1. ~Worse(b, r) /\ ~Worse(b, coins)
      BY <1>1, <2>2, <2>4, WorseOrder DEF Worse
    <3> QED BY <1>5, <2>1, <2>4, <3>1
  <2>5. Covered(q)'
    BY <1>2, <2>3, <2>4 DEF Covered, Worse
  <2>6. ASSUME Settled' PROVE /\ q = coins /\ coins = job.target /\ job' = Free
    <3>1. coins = job.target /\ job' = Free
      BY <1>0, <1>2, <1>3, <2>1, <2>6 DEF Settled
    <3>2. r \in candidates
      <4>1. Eligible(r)
        BY <1>4 DEF Covered, Fine
      <4> QED BY <1>1, <1>4, <4>1, WorseOrder DEF Covered, Worse
    <3>3. ~Worse(coins, r)
      BY <1>3, <3>1, <3>2
    <3> QED BY <1>1, <2>2, <3>1, <3>3, WorseOrder DEF Worse
  <2>7. Settled' => /\ ~Stepping' /\ job'.phase # "find"
                    /\ \A c \in candidates' : ~WorseIn(seq', tip', c)
    BY <1>2, <1>3, <2>1, <2>6, FreeFields DEF Stepping, Worse
  <2>8. Stepping' => \A c \in candidates' : ~WorseIn(seq', job'.target, c)
    <3>1. SUFFICES ASSUME Stepping' PROVE \A c \in candidates' : ~WorseIn(seq', job'.target, c)
      OBVIOUS
    <3>2. job' = [job EXCEPT !.phase = "step", !.move = "none"]
      BY <2>1, <3>1, FreeFields DEF Stepping
    <3>3. job'.target = job.target
      BY <1>1, <3>2 DEF JobType
    <3> QED BY <1>2, <1>3, <2>1, <3>3 DEF Worse
  <2>9. \E b \in Blocks : Covered(b)' /\ (Settled' => b = tip')
    BY <1>2, <2>5, <2>6
  <2> QED BY <2>7, <2>8, <2>9 DEF BestInv, Worse
<1> QED BY <1>2, <1>7, <1>8

AllLinked == Default /\ node # "down" =>
  \A b \in Blocks : Eligible(b) => b \in chainTx

LEMMA AllAreLinked == (LInv => AllLinked) /\ (LInv' => AllLinked')
<1>1. LInv => AllLinked
  BY EligibleLinked, InDefault DEF AllLinked, Default
<1> QED BY <1>1, PTL

(* The blocks linked when one is received become candidates if they are not   *)
(* worse than the tip; the order of the others is what it was.               *)
LEMMA ReceivedBest ==
  ASSUME LInv, LInv', Default, BestInv, Changed, NEW b \in Blocks, Received(b), pending',
         LinksIt(b) \/ WaitsIt(b)
  PROVE  BestInv'
<1>1. /\ node # "down" /\ node' # "down" /\ ~Stepping' /\ ~Settled' /\ tip' = tip
      /\ ~Invalidating /\ ~InvalidateBlock
  BY FreeFields DEF Received, Stepping, Settled, Invalidating, InvalidateBlock, Free
<1>2. /\ MInv /\ LinksInv /\ Apart /\ WaitInv /\ Sound(index) /\ IInv
      /\ tip \in Blocks /\ chainTx \subseteq Blocks /\ seq \in [Blocks -> Nat]
      /\ unlinked \subseteq Blocks /\ tip \in chainTx
  BY <1>1, InDefault DEF LinksInv
<1>3. seq' \in [Blocks -> Nat]
  BY <1>1 DEF LInv, MInv, MarksInv, IInv, TypeOK
<1>4. PICK r \in Blocks : Covered(r)
  BY <1>1 DEF BestInv
<1>5. r \in chainTx /\ Fine(r)'
  <2>1. Eligible(r) /\ Fine(r)
    BY <1>4 DEF Covered, Fine
  <2> QED BY <1>1, <2>1, AllAreLinked, FineStays DEF AllLinked
<1>6. \A x \in Blocks : Eligible(x)' => x \in chainTx'
  BY <1>1, AllAreLinked DEF AllLinked
<1>7. ASSUME NEW x \in chainTx, Eligible(x)' PROVE Eligible(x)
  <2>1. x \in Blocks /\ Complete(index, x) /\ \A y \in Chain[x] : ~index'[y].failedValid
    BY <1>2, <1>7 DEF LinksInv, Eligible
  <2>2. ASSUME NEW y \in Chain[x] PROVE ~index[y].failedValid
    <3>1. y \in Blocks /\ index[y] # Absent
      BY <2>1, OwnChain DEF Complete
    <3> QED BY <2>1, <3>1, CauseStays DEF Default
  <2> QED BY <2>1, <2>2 DEF Eligible
<1>8. CASE LinksIt(b)
  <2>1. PICK pos \in Orders(Linked(b)) : seq' = Resequenced(Linked(b), pos)
    BY <1>8 DEF LinksIt
  <2>2. Linked(b) \in SUBSET Blocks /\ Linked(b) \cap chainTx = {}
    BY <1>2, LinkedApart DEF Default
  <2>3. ~WorseIn(seq', r, tip)
    BY <1>2, <1>4, <1>5, <2>1, <2>2, KeepsOrder DEF Covered
  <2>4. ASSUME NEW x \in Blocks, Eligible(x)', ~WorseIn(seq', x, r) PROVE x \in candidates'
    <3>1. CASE x \in Linked(b)
      <4>1. ~WorseIn(seq', x, tip)
        BY <1>2, <1>3, <2>3, <2>4, WorseOrder
      <4> QED BY <1>8, <3>1, <4>1 DEF LinksIt
    <3>2. CASE x \notin Linked(b)
      <4>1. x \in chainTx
        BY <1>6, <1>8, <2>4, <3>2 DEF LinksIt
      <4>2. Eligible(x) /\ ~Worse(x, r)
        BY <1>2, <1>5, <1>7, <2>1, <2>2, <2>4, <4>1, KeepsOrder
      <4> QED BY <1>4, <1>8, <4>2 DEF Covered, LinksIt
    <3> QED BY <3>1, <3>2
  <2>5. Covered(r)'
    BY <1>1, <1>5, <2>3, <2>4 DEF Covered, Worse
  <2> QED BY <1>1, <2>5 DEF BestInv
<1>9. CASE WaitsIt(b)
  <2>1. seq' = seq /\ candidates' = candidates /\ chainTx' \subseteq chainTx
    BY <1>9 DEF WaitsIt
  <2>2. ASSUME NEW x \in Blocks, Eligible(x)', ~Worse(x, r) PROVE x \in candidates
    <3>1. x \in chainTx
      BY <1>6, <2>1, <2>2
    <3> QED BY <1>4, <1>7, <2>2, <3>1 DEF Covered
  <2>3. Covered(r)'
    BY <1>1, <1>4, <1>5, <2>1, <2>2 DEF Covered, Worse
  <2> QED BY <1>1, <2>3 DEF BestInv
<1> QED BY <1>8, <1>9

(* StartCandidates are all of them: nothing is better than the block of the   *)
(* coins for a reason that was lost.                                        *)
LEMMA LoadBest ==
  ASSUME LInv, LInv', Default, Obeyed, LoadBlockIndexDB
  PROVE  BestInv'
<1>1. /\ node = "down" /\ index' = diskIndex /\ tip' = diskCoins /\ candidates' = StartCandidates
      /\ seq' = [b \in Blocks |-> 0] /\ ~Stepping' /\ ~Settled' /\ node' # "down"
  BY FreeFields DEF LoadBlockIndexDB, Stepping, Settled
<1>2. IndexOK(diskIndex) /\ Marked(diskIndex) /\ diskCoins \in Blocks
  BY DEF LInv, MInv, DiskMarksInv, IInv, DiskInv, TypeOK
<1>3. PICK r \in Blocks : r = diskCoins
  BY <1>2
<1>4. Fine(r)'
  <2>1. Scripted(diskIndex, r) /\ Sound(diskIndex)
    BY <1>3 DEF LInv, MInv, DiskMarksInv, IInv, DiskInv
  <2>2. "invalidate" \notin Features \/
          \A c \in Chain[r] : Failed(diskIndex[c]) => GapAbove(diskIndex, r, c)
    BY <1>1, <1>3 DEF Default, Obeyed, ActiveInv, StoredMarks
  <2>3. /\ Complete(diskIndex, r) /\ ~BreaksRules(r)
        /\ \A x \in Chain[r] : ~diskIndex[x].failedValid
    BY <1>2, <2>1, <2>2, ConnectedFine
  <2> QED BY <1>1, <2>3 DEF Fine, Eligible, BreaksRules
<1>5. ~WorseIn(seq', r, r)
  BY <1>1, ChainStateAssumption DEF WorseIn, WorseBySeq
<1>6. ASSUME NEW b \in Blocks, Eligible(b)', ~WorseIn(seq', b, r) PROVE b \in StartCandidates
  <2>1. Complete(diskIndex, b) /\ \A x \in Chain[b] : ~diskIndex[x].failedValid
    BY <1>1, <1>6 DEF Eligible
  <2>2. b \in StoredChainTx
    BY <2>1, OwnChain DEF StoredChainTx, Stored, Complete
  <2>3. diskIndex[b] # Absent /\ diskIndex[b].nTx
    BY <2>1, OwnChain DEF Complete
  <2>4. ~Failed(diskIndex[b])
    BY <1>2, <2>1, <2>3 DEF Marked, Default
  <2>5. IsValid(diskIndex[b], TRANSACTIONS)
    BY <1>2, <2>3, <2>4 DEF IsValid, IndexOK, EntryOK
  <2> QED BY <1>1, <1>3, <1>6, <2>2, <2>5 DEF StartCandidates
<1>7. Covered(r)'
  BY <1>1, <1>3, <1>4, <1>5, <1>6 DEF Covered, Worse
<1> QED BY <1>1, <1>7 DEF BestInv

LEMMA InitBest == Init => SoundCandidates /\ BestInv
<1> SUFFICES ASSUME Init PROVE SoundCandidates /\ BestInv
  OBVIOUS
<1>1. /\ LInv /\ Sound(index) /\ IndexOK(index) /\ node = "up" /\ job = Free
      /\ candidates = {Genesis} /\ tip = Genesis /\ Genesis \in Blocks
      /\ Chain[Genesis] = {Genesis} /\ Genesis \notin BadBlock \cup BadSpend
      /\ seq \in [Blocks -> Nat]
      /\ \A b \in Blocks \ {Genesis} : index[b] = Absent
  BY InitLinks, ChainStateAssumption DEF Init, LInv, MInv, MarksInv, IInv, UpInv, IndexInv, TypeOK
<1>2. ~WorseIn(seq, Genesis, Genesis)
  BY <1>1, WorseOrder
<1>3. Fine(Genesis)
  BY <1>1 DEF Fine, Eligible, BreaksRules, Complete, Sound, SoundEntry, IndexOK
<1>4. \A b \in Blocks : Eligible(b) => b = Genesis
  BY <1>1, OwnChain DEF Eligible, Complete
<1>5. ~Stepping /\ job.phase # "find"
  BY <1>1, FreeFields DEF Stepping
<1>6. Covered(Genesis)
  BY <1>1, <1>2, <1>3, <1>4 DEF Covered, Worse
<1> QED BY <1>1, <1>2, <1>5, <1>6 DEF SoundCandidates, BestInv, Worse

(* InvalidateTip finds the block and the undo data that DisconnectTip needs.  *)
LEMMA InvalidateTipBest ==
  ASSUME LInv, LInv', Default, node # "down", node' # "down", InvalidateTip
  PROVE  BestInv'
<1>1. /\ job.phase = "invalidate" /\ job.target \in Chain[tip] /\ DisconnectTip("invalidate")
  BY DEF InvalidateTip
<1>2. /\ Sound(index) /\ JobInv /\ tip \in Blocks /\ Scripted(index, tip) /\ IndexOK(index)
      /\ job \in JobType
  BY InDefault
<1>3. tip # Genesis
  BY <1>1, <1>2, ChainStateAssumption DEF JobInv, Invalidating
<1>4. index[tip].undo /\ index[tip].data
  <2>1. Complete(index, tip)
    BY <1>2, ScriptedComplete
  <2> QED BY <1>2, <1>3, <2>1, HasData, OwnChain
<1>5. job' = [job EXCEPT !.phase = "update", !.move = "invalidate"]
  BY <1>1, <1>4 DEF DisconnectTip
<1>6. Invalidating' /\ IInv'
  BY <1>2, <1>5 DEF Invalidating, JobType, LInv, MInv
<1>7. (IInv /\ node # "down" /\ Invalidating => BestInv)'
  BY InvalidatingBest, PTL
<1> QED BY <1>6, <1>7

(* When it is done, every linked block without a mark that is not worse than  *)
(* the tip is a candidate, and the tip is one of them.                       *)
LEMMA InvalidateDoneBest ==
  ASSUME LInv, Default, Obeyed, node # "down", InvalidateDone
  PROVE  BestInv'
<1>1. /\ job.phase = "invalidate" /\ job.target \notin Chain[tip]
      /\ candidates' = candidates \cup NotWorse(Linkable(index), tip)
      /\ job' = Free /\ pending' = TRUE /\ UNCHANGED <<index, seq, tip>>
  BY DEF InvalidateDone
<1>2. /\ LinksInv /\ Apart /\ WaitInv /\ Sound(index) /\ Marked(index) /\ IndexOK(index)
      /\ JobInv /\ tip \in Blocks /\ seq \in [Blocks -> Nat]
  BY InDefault
<1>3. Fine(tip)
  <2>1. ~Moving
    BY <1>1, <1>2 DEF JobInv
  <2>2. ASSUME NEW c \in Chain[tip] PROVE ~TakenBack(c)
    BY <1>1, <1>2, ChainOfAncestor, OwnChain DEF TakenBack
  <2> QED BY <2>1, <2>2, TipFine
<1>4. ASSUME NEW b \in Blocks, Eligible(b), ~Worse(b, tip) PROVE b \in candidates'
  <2>1. b \in chainTx
    BY <1>2, <1>4, EligibleLinked DEF Default
  <2>2. index[b] # Absent /\ index[b].nTx
    BY <1>4, OwnChain DEF Eligible, Complete
  <2>3. ~Failed(index[b])
    BY <1>2, <1>4, <2>2 DEF Marked, Default, Eligible
  <2>4. IsValid(index[b], TRANSACTIONS)
    BY <1>2, <2>2, <2>3 DEF IsValid, IndexOK, EntryOK
  <2> QED BY <1>1, <1>4, <2>1, <2>4 DEF NotWorse, Linkable
<1>5. Covered(tip)'
  <2>1. ~WorseIn(seq, tip, tip)
    BY <1>2, WorseOrder
  <2>2. Fine(tip)' /\ \A b \in Blocks : Eligible(b)' => Eligible(b)
    BY <1>1, <1>3 DEF Fine, Eligible, BreaksRules, Complete
  <2> QED BY <1>1, <1>4, <2>1, <2>2 DEF Covered, Worse
<1>6. ~Stepping' /\ ~Settled' /\ tip' \in Blocks
  BY <1>1, <1>2, FreeFields DEF Stepping, Settled
<1> QED BY <1>5, <1>6 DEF BestInv
-----------------------------------------------------------------------------
QInv == LInv /\ Obeyed /\ (node # "down" => SoundCandidates /\ BestInv)

LEMMA ObeyedStep == MInv /\ Obeyed /\ [Next]_vars => Obeyed'
  BY ActiveStep DEF Obeyed, WholeFlushes

LEMMA RunningBest ==
  ASSUME QInv, Next, node # "down", node' # "down"
  PROVE  QInv'
<1>1. LInv /\ LInv' /\ Obeyed /\ Obeyed' /\ SoundCandidates /\ BestInv
  BY LinksInductive, ObeyedStep DEF QInv, LInv
<1>2. SoundCandidates'
  BY <1>1, RunningCandidates
<1>3. BestInv'
  <2> SUFFICES ASSUME Default PROVE BestInv'
    BY DEF BestInv
  <2>1. IInv /\ IInv' /\ TargetMarked /\ job \in JobType
    BY <1>1, InDefault DEF LInv, MInv, MarksInv
  <2>10. CASE Invalidating'
    <3>1. (IInv /\ node # "down" /\ Invalidating => BestInv)'
      BY InvalidatingBest, PTL
    <3> QED BY <2>1, <2>10, <3>1
  <2>11. CASE InvalidateTip \/ InvalidateDone
    BY <1>1, <2>11, InvalidateTipBest, InvalidateDoneBest
  <2>2. Changed
    BY <2>1, EntriesChange
  <2>3. ~AcceptBlock => NoneReceived
    <3> SUFFICES ASSUME ~AcceptBlock, NEW b \in Blocks, index'[b] # Absent, index'[b].nTx
                 PROVE  index[b] # Absent /\ index[b].nTx
      BY DEF NoneReceived
    <3>1. Before(b).nTx
      BY <2>2 DEF Changed, ChangedTo
    <3>2. ~NewEntry.nTx
      BY DEF NewEntry
    <3> QED BY <3>1, <3>2 DEF Before
  <2>4. CASE AcceptBlock
    <3>1. CASE /\ OtherSets /\ NoneReceived
               /\ UNCHANGED <<seq, candidates, tip, job, pending, node>>
      BY <1>1, <2>2, <2>10, <3>1, QuietBest
    <3>2. CASE \E b \in Blocks : Received(b) /\ (LinksIt(b) \/ WaitsIt(b)) /\ pending'
      BY <1>1, <2>2, <3>2, ReceivedBest
    <3> QED BY <2>1, <2>4, <3>1, <3>2, AcceptBlockCases
  <2>5. CASE ~AcceptBlock /\ (FindMostWorkChain \/ InvalidBlockFound \/ UpdateTip)
    BY <1>1, <2>2, <2>3, <2>5, <2>10, FindMostWorkChainBest, InvalidBlockFoundBest, UpdateTipBest
  <2>6. Rpc => Invalidating' \/ InvalidateTip \/ InvalidateDone
    BY NotInvalidateBlock DEF Rpc, ReconsiderBlock, Default
  <2>7. ~(Crash \/ AssertionFails \/ Shutdown \/ LoadBlockIndexDB)
    BY DEF Crash, AssertionFails, Shutdown, LoadBlockIndexDB, Stop
  <2>8. CASE /\ ~AcceptBlock
             /\ \/ AcceptBlockHeader \/ AcceptBlockAgain \/ EnterActivateBestChain
                \/ StepDisconnect \/ ConnectTip \/ FailedToRead \/ FlushStateToDisk
                \/ FlushCoins \/ NoSpaceForIndex \/ CoinsNotFlushed \/ StartFails
    <3>1. UNCHANGED <<seq, tip, candidates>>
      BY <2>8 DEF AcceptBlockHeader, AcceptBlockAgain, EnterActivateBestChain, StepDisconnect,
         ConnectTip, FailedToRead, FlushStateToDisk, FlushCoins, NoSpaceForIndex,
         CoinsNotFlushed, StartFails, memVars, vars
    <3>2. StartFails => UNCHANGED <<job, pending, node>>
      BY DEF StartFails, vars
    <3> QED BY <1>1, <2>2, <2>3, <2>8, <2>10, <3>1, <3>2, QuietBest
  <2> QED BY <2>4, <2>5, <2>6, <2>7, <2>8, <2>10, <2>11 DEF Next, Activation
<1> QED BY <1>1, <1>2, <1>3 DEF QInv

LEMMA BestInductive == QInv /\ [Next]_vars => QInv'
<1> SUFFICES ASSUME QInv, [Next]_vars PROVE QInv'
  OBVIOUS
<1>1. IInv /\ LInv /\ LInv' /\ Obeyed /\ Obeyed'
  BY LinksInductive, ObeyedStep DEF QInv, LInv, MInv
<1>2. CASE UNCHANGED vars
  BY <1>1, <1>2 DEF vars, QInv, SoundCandidates, BestInv, Worse, Covered, Fine, Eligible,
     Complete, Settled, Stepping, Invalidating
<1>3. CASE Crash \/ AssertionFails \/ Shutdown
  <2>1. node' = "down"
    BY <1>3 DEF Crash, AssertionFails, Shutdown, Stop
  <2> QED BY <1>1, <2>1 DEF QInv
<1>4. CASE LoadBlockIndexDB
  <2>1. Default => BestInv'
    BY <1>1, <1>4, LoadBest
  <2>2. SoundCandidates'
    BY <1>4 DEF LoadBlockIndexDB, SoundCandidates, StartCandidates, Worse
  <2>3. ~Default => BestInv'
    BY DEF BestInv
  <2> QED BY <1>1, <2>1, <2>2, <2>3 DEF QInv
<1>5. CASE Next /\ node # "down" /\ node' # "down"
  BY <1>5, RunningBest
<1>6. ASSUME Next, node = "down" \/ node' = "down"
      PROVE  Crash \/ AssertionFails \/ Shutdown \/ LoadBlockIndexDB \/ UNCHANGED vars
  BY <1>1, <1>6, DownSteps
<1> QED BY <1>2, <1>3, <1>4, <1>5, <1>6

THEOREM BestInvariant == Spec => []QInv
<1>1. Init => QInv
  BY InitLinks, InitBest, InitActive DEF QInv, Obeyed
<1> QED BY <1>1, BestInductive, PTL DEF Spec
-----------------------------------------------------------------------------
(* "If this block sorts worse than the current tip or some ancestor's block   *)
(* has never been seen, it cannot be in setBlockIndexCandidates": with both   *)
(* RPCs, every order of arrival, deaths and full disks, unless blocks are     *)
(* pruned, which can then be received a second time.                         *)
THEOREM CandidatesSoundAlways ==
  ASSUME "prune" \notin Features
  PROVE  Spec => []CandidatesSound
<1>1. QInv => CandidatesSound
  <2> SUFFICES ASSUME QInv, LockFree, NEW b \in candidates
               PROVE  ~Worse(b, tip) /\ ~NeverProcessed(b)
    BY DEF CandidatesSound
  <2>1. LinksInv /\ SoundCandidates
    BY DEF QInv, LInv, LockFree
  <2> QED BY <2>1 DEF LinksInv, SoundCandidates, NeverProcessed, Complete
<1> QED BY <1>1, BestInvariant, PTL

(* A block that was received before an ancestor is in mapBlocksUnlinked until *)
(* it is linked: nothing else would ever link it.  True with invalidateblock, *)
(* deaths and starts, too: only what stands on an invalid block is forgotten. *)
THEOREM WaitingAreUnlinkedAlways ==
  ASSUME Features \cap {"prune", "reconsider"} = {}
  PROVE  Spec => []WaitingAreUnlinked
<1>1. LInv => WaitingAreUnlinked
  <2> SUFFICES ASSUME LInv, NEW b \in Known \ {Genesis}, index[b].data, ~Invalid(b),
                      NeverLinked(b) \/ LostAFile(b)
               PROVE  b \in unlinked
    BY DEF WaitingAreUnlinked
  <2>1. node # "down"
    BY DEF NeverLinked, LostAFile, LockFree, Quiescent
  <2>2. /\ LinksInv /\ WaitInv /\ IndexOK(index) /\ Sound(index)
        /\ b \in Blocks /\ index[b] # Absent
    BY <2>1 DEF Known, LInv, MInv, MarksInv, IInv, UpInv, IndexInv
  <2>3. \A x \in Chain[b] : index[x] # Absent
    BY <2>2, AncestorsKnown
  <2>4. NeverProcessed(b)
    <3>1. SUFFICES ASSUME ~NeverProcessed(b) PROVE ~Missing(b)
      BY DEF NeverLinked, LostAFile
    <3>2. Complete(index, b)
      BY <2>3, <3>1 DEF Complete, NeverProcessed
    <3>3. ASSUME NEW x \in Chain[b] PROVE index[x].data
      <4>1. x \in Blocks /\ index[x] # Absent /\ index[x].nTx
        BY <2>2, <3>2, OwnChain DEF Complete
      <4> QED BY <2>2, <4>1 DEF Sound, SoundEntry
    <3> QED BY <3>3 DEF Missing
  <2>5. b \notin chainTx
    BY <2>4 , <2>2 DEF LinksInv, Complete, NeverProcessed
  <2>6. index[b].nTx
    BY <2>2 DEF IndexOK, EntryOK
  <2>7. ~OnRejected(b)
    BY DEF OnRejected, Invalid
  <2> QED BY <2>2, <2>5, <2>6, <2>7 DEF WaitInv
<1> QED BY <1>1, LinksInvariant, PTL

(* "If this block sorts at least as good as the current tip and is valid and  *)
(* we have all data for its parents, it must be in setBlockIndexCandidates",  *)
(* whenever no thread is in ActivateBestChain: InvalidateBlock adds all that  *)
(* compete with the chain it leaves.                                         *)
THEOREM QuiescentBetterAreCandidatesAlways ==
  ASSUME Features \cap {"prune", "reconsider"} = {},
         "invalidate" \notin Features \/ {"crash", "diskFull"} \cap Features = {}
  PROVE  Spec => []QuiescentBetterAreCandidates
<1>1. QInv => QuiescentBetterAreCandidates
  <2> SUFFICES ASSUME QInv, Quiescent, NEW b \in Known, ~Worse(b, tip), ~NeverProcessed(b),
                      ~Invalid(b)
               PROVE  b \in candidates
    BY DEF QuiescentBetterAreCandidates, BetterMustBeCandidate
  <2>1. /\ LInv /\ BestInv /\ Settled /\ Default /\ node # "down"
        /\ b \in Blocks /\ index[b] # Absent
    BY FreeIsNotInvalidating DEF QInv, Quiescent, Settled, Default, WholeFlushes, Known
  <2>2. Eligible(b)
    BY <2>1, InDefault, AncestorsKnown DEF Eligible, Complete, NeverProcessed, Invalid
  <2> QED BY <2>1, <2>2 DEF BestInv, Covered, Settled
<1> QED BY <1>1, BestInvariant, PTL

(* What ActivateBestChain is for: whenever every thread has left it, and in   *)
(* whatever order blocks came, were rejected, chains were switched and the    *)
(* node died meanwhile, no complete valid chain sorts before the active one.  *)
(* A node that was told to invalidate a block and dies between the two writes *)
(* of a flush may start with a marked tip, which is no candidate: left out.   *)
THEOREM QuiescentTipIsBestAlways ==
  ASSUME Features \cap {"prune", "reconsider"} = {},
         "invalidate" \notin Features \/ {"crash", "diskFull"} \cap Features = {}
  PROVE  Spec => []QuiescentTipIsBest
<1>1. QInv => QuiescentTipIsBest
  <2> SUFFICES ASSUME QInv, Quiescent, NEW b \in Known, UsableChain(b), Worse(tip, b)
               PROVE  FALSE
    BY DEF QuiescentTipIsBest
  <2>1. /\ LInv /\ BestInv /\ Settled /\ Default /\ node # "down"
        /\ b \in Blocks /\ index[b] # Absent
    BY FreeIsNotInvalidating DEF QInv, Quiescent, Settled, Default, WholeFlushes, Known
  <2>2. /\ \A x \in Chain[b] : index[x] # Absent
        /\ tip \in Blocks /\ seq \in [Blocks -> Nat]
    BY <2>1, InDefault, AncestorsKnown
  <2>3. Eligible(b)
    BY <2>2 DEF Eligible, Complete, UsableChain, Failed
  <2>4. ~Worse(b, tip)
    BY <2>1, <2>2, WorseOrder DEF Worse
  <2>5. b \in candidates
    BY <2>1, <2>3, <2>4 DEF BestInv, Covered, Settled
  <2> QED BY <2>1, <2>5 DEF BestInv
<1> QED BY <1>1, BestInvariant, PTL
=============================================================================
