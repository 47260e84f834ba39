---------------------------- MODULE MempoolProofs ----------------------------
(***************************************************************************)
(* For any transactions, tree of acceptable blocks, peers and limits: the two *)
(* indexes of the transaction relay are exact in every reachable state; the   *)
(* pool fits the chain when it has been repaired, by an invariant that says   *)
(* what is left to be done in the middle of a repair (PoolInv); nothing       *)
(* leaves it without a cause; and no orphan is left behind (WorkInv).         *)
(***************************************************************************)
EXTENDS TxRelay, FiniteSetTheorems, WellFoundedInduction, TLAPS

(* remove with fRecursive only reaches transactions of the pool.             *)
LEMMA ReachedInPool ==
  ASSUME NEW pool, NEW roots
  PROVE  ReachedWithin(pool, roots) \subseteq pool
BY DEF ReachedWithin

(* addUnchecked keeps mapNextTx exact when no input is spent by the pool,    *)
(* which is what AcceptToMemoryPool looks for before.                        *)
LEMMA AddKeepsIndex ==
  ASSUME NextTxExact, NEW t, addUnchecked(t), Inputs[t] \cap DOMAIN mapNextTx = {}
  PROVE  NextTxExact'
<1>1. ASSUME NEW u \in mapTx', NEW o \in Inputs[u]
      PROVE  o \in DOMAIN mapNextTx' /\ mapNextTx'[o] = u
  <2>1. CASE u = t
    BY <1>1, <2>1 DEF addUnchecked
  <2>2. CASE u \in mapTx
    BY <1>1, <2>2 DEF NextTxExact, addUnchecked
  <2> QED BY <1>1, <2>1, <2>2 DEF addUnchecked
<1>2. ASSUME NEW o \in DOMAIN mapNextTx'
      PROVE  mapNextTx'[o] \in mapTx' /\ o \in Inputs[mapNextTx'[o]]
  <2>1. CASE o \in Inputs[t]
    BY <1>2, <2>1 DEF addUnchecked
  <2>2. CASE o \notin Inputs[t]
    BY <1>2, <2>2 DEF NextTxExact, addUnchecked
  <2> QED BY <2>1, <2>2
<1> QED BY <1>1, <1>2 DEF NextTxExact

(* Erasing transactions of the pool keeps mapNextTx exact: an outpoint that  *)
(* one of them spent is spent by no other.                                   *)
LEMMA EraseKeepsIndex ==
  ASSUME NextTxExact, NEW S \in SUBSET mapTx, Erase(S)
  PROVE  NextTxExact'
<1>1. ASSUME NEW u \in mapTx', NEW o \in Inputs[u]
      PROVE  o \in DOMAIN mapNextTx' /\ mapNextTx'[o] = u
  <2>1. u \in mapTx /\ u \notin S
    BY <1>1 DEF Erase
  <2>2. o \in DOMAIN mapNextTx /\ mapNextTx[o] = u
    BY <1>1, <2>1 DEF NextTxExact
  <2>3. ASSUME NEW s \in S PROVE o \notin Inputs[s]
    BY <2>1, <2>2, <2>3 DEF NextTxExact
  <2> QED BY <2>2, <2>3 DEF Erase
<1>2. ASSUME NEW o \in DOMAIN mapNextTx'
      PROVE  mapNextTx'[o] \in mapTx' /\ o \in Inputs[mapNextTx'[o]]
  <2>1. /\ o \in DOMAIN mapNextTx /\ mapNextTx'[o] = mapNextTx[o]
        /\ \A s \in S : o \notin Inputs[s]
    BY <1>2 DEF Erase
  <2>2. mapNextTx[o] \in mapTx /\ o \in Inputs[mapNextTx[o]]
    BY <2>1 DEF NextTxExact
  <2> QED BY <2>1, <2>2 DEF Erase
<1> QED BY <1>1, <1>2 DEF NextTxExact

LEMMA SameIndex ==
  ASSUME NextTxExact, UNCHANGED poolVars
  PROVE  NextTxExact'
BY DEF NextTxExact, poolVars

(* Every step of the pool and of the relay keeps mapNextTx exact.            *)
LEMMA IndexStep ==
  ASSUME NextTxExact, [RelayNext]_allVars
  PROVE  NextTxExact'
<1>1. CASE AcceptToMemoryPool
  <2>1. PICK t \in Txs : Fits(t) /\ addUnchecked(t)
    BY <1>1 DEF AcceptToMemoryPool
  <2> QED BY <2>1, AddKeepsIndex DEF Fits, Candidate
<1>2. CASE RemoveForBlock
  <2> DEFINE S == Included(Head(job.todo)) \cup Conflicts(Head(job.todo))
  <2>1. S \in SUBSET mapTx
    BY ReachedInPool DEF Included, Conflicts
  <2>2. Erase(S)
    BY <1>2 DEF RemoveForBlock
  <2> HIDE DEF S
  <2> QED BY <2>1, <2>2, EraseKeepsIndex
<1>3. CASE Resurrect
  <2> DEFINE t == Head(job.todo)
  <2>1. CASE Fits(t) /\ addUnchecked(t)
    BY <2>1, AddKeepsIndex DEF Fits, Candidate
  <2>2. CASE Erase(Recursive(t))
    BY <2>2, EraseKeepsIndex, ReachedInPool DEF Recursive
  <2> QED BY <1>3, <2>1, <2>2 DEF Resurrect
<1>4. CASE Disconnected
  <2>1. Erase(ReachedWithin(mapTx, Immature))
    BY <1>4 DEF Disconnected
  <2> QED BY <2>1, EraseKeepsIndex, ReachedInPool
<1>5. CASE ConnectTip \/ Connected \/ DisconnectTip
  BY <1>5, SameIndex DEF ConnectTip, Connected, DisconnectTip
<1>6. CASE ReceiveTx
  <2>1. CASE UNCHANGED poolVars
    BY <2>1, SameIndex
  <2>2. CASE \E t \in Txs : Fits(t) /\ addUnchecked(t)
    <3>1. PICK t \in Txs : Fits(t) /\ addUnchecked(t)
      BY <2>2
    <3> QED BY <3>1, AddKeepsIndex DEF Fits, Candidate
  <2> QED BY <1>6, <2>1, <2>2 DEF ReceiveTx
<1>7. CASE TryOrphan
  <2>1. PICK t \in handler.left :
          SkipMisbehaving(t) \/ AcceptOrphan(t) \/ RejectOrphan(t) \/ KeepOrphan(t)
    BY <1>7 DEF TryOrphan
  <2>2. CASE AcceptOrphan(t)
    BY <2>2, AddKeepsIndex DEF AcceptOrphan, Fits, Candidate
  <2>3. CASE SkipMisbehaving(t) \/ RejectOrphan(t) \/ KeepOrphan(t)
    BY <2>3, SameIndex DEF SkipMisbehaving, RejectOrphan, Rejected, KeepOrphan
  <2> QED BY <2>1, <2>2, <2>3
<1>8. CASE \/ AskAlreadyHave \/ NextInWorkQueue \/ EraseQueue \/ FinalizeNode
           \/ UNCHANGED allVars
  BY <1>8, SameIndex
     DEF AskAlreadyHave, NextInWorkQueue, EraseQueue, FinalizeNode, allVars, vars, poolVars
<1> QED BY <1>1, <1>2, <1>3, <1>4, <1>5, <1>6, <1>7, <1>8 DEF RelayNext, Next

(* mapNextTx is the exact inverse of the inputs of the pool's transactions,  *)
(* so that no two of them ever spend the same outpoint: the assertions of    *)
(* CTxMemPool::check, in every state and between any two steps of a repair.  *)
THEOREM NextTxExactAlways == RelaySpec => []NextTxExact
<1>1. RelayInit => NextTxExact
  BY DEF RelayInit, Init, NextTxExact
<1>2. NextTxExact /\ [RelayNext]_allVars => NextTxExact'
  BY IndexStep
<1> QED BY <1>1, <1>2, PTL DEF RelaySpec
-----------------------------------------------------------------------------
(* Type correctness of the pool's variables, step by step.                   *)
LEMMA AddKeepsTypes ==
  ASSUME TypeOK, NEW t \in Txs \ Coinbases, addUnchecked(t)
  PROVE  /\ mapTx' \subseteq Txs \ Coinbases
         /\ DOMAIN mapNextTx' \subseteq Txs \X Nat
         /\ \A o \in DOMAIN mapNextTx' : mapNextTx'[o] \in Txs
<1>1. Inputs[t] \subseteq Txs \X Nat
  BY MempoolAssumption
<1> QED BY <1>1 DEF TypeOK, addUnchecked

LEMMA EraseKeepsTypes ==
  ASSUME TypeOK, NEW S, Erase(S)
  PROVE  /\ mapTx' \subseteq Txs \ Coinbases
         /\ DOMAIN mapNextTx' \subseteq Txs \X Nat
         /\ \A o \in DOMAIN mapNextTx' : mapNextTx'[o] \in Txs
BY DEF TypeOK, Erase

LEMMA TodoTail ==
  ASSUME TypeOK, job.todo # <<>>
  PROVE  /\ Head(job.todo) \in Txs
         /\ [job EXCEPT !.todo = Tail(@)] \in
              [phase : {"free", "connect", "disconnect", "relay"}, todo : Seq(Txs)]
<1>1. job.todo \in Seq(Txs)
  BY DEF TypeOK
<1>2. Head(job.todo) \in Txs /\ Tail(job.todo) \in Seq(Txs)
  BY <1>1
<1> QED BY <1>2 DEF TypeOK

LEMMA JobTypes ==
  /\ Free \in [phase : {"free", "connect", "disconnect", "relay"}, todo : Seq(Txs)]
  /\ \A b \in Blocks : \A phase \in {"connect", "disconnect"} :
       Job(phase, b) \in [phase : {"free", "connect", "disconnect", "relay"}, todo : Seq(Txs)]
<1>1. \A b \in Blocks : BlockTxs[b] \in Seq(Txs)
  BY MempoolAssumption
<1> QED BY <1>1 DEF Free, Job

LEMMA PoolTypeStep ==
  ASSUME TypeOK, Next
  PROVE  TypeOK'
<1>1. CASE AcceptToMemoryPool
  <2>1. PICK t \in Txs : Fits(t) /\ addUnchecked(t) /\ UNCHANGED <<coins, tip, job>>
    BY <1>1 DEF AcceptToMemoryPool
  <2>2. t \in Txs \ Coinbases
    BY <2>1 DEF Fits, Candidate
  <2> QED BY <2>1, <2>2, AddKeepsTypes DEF TypeOK
<1>2. CASE ConnectTip
  <2>1. PICK b \in Blocks : coins' = b /\ job' = Job("connect", b) /\ UNCHANGED <<poolVars, tip>>
    BY <1>2 DEF ConnectTip
  <2> QED BY <2>1, JobTypes DEF TypeOK, poolVars
<1>3. CASE RemoveForBlock
  <2>1. /\ Erase(Included(Head(job.todo)) \cup Conflicts(Head(job.todo)))
        /\ UNCHANGED <<coins, tip>> /\ job.todo # <<>> /\ job' = [job EXCEPT !.todo = Tail(@)]
    BY <1>3 DEF RemoveForBlock
  <2>2. job' \in [phase : {"free", "connect", "disconnect", "relay"}, todo : Seq(Txs)]
    BY <2>1, TodoTail
  <2> QED BY <2>1, <2>2, EraseKeepsTypes DEF TypeOK
<1>4. CASE Connected
  BY <1>4, JobTypes DEF Connected, TypeOK, poolVars
<1>5. CASE DisconnectTip
  <2>1. Parent[tip] \in Blocks
    BY <1>5, MempoolAssumption DEF DisconnectTip, TypeOK
  <2> QED BY <1>5, <2>1, JobTypes DEF DisconnectTip, TypeOK, poolVars
<1>6. CASE Resurrect
  <2> DEFINE t == Head(job.todo)
  <2>1. UNCHANGED <<coins, tip>> /\ job.todo # <<>> /\ job' = [job EXCEPT !.todo = Tail(@)]
    BY <1>6 DEF Resurrect
  <2>2. t \in Txs /\ job' \in [phase : {"free", "connect", "disconnect", "relay"}, todo : Seq(Txs)]
    BY <2>1, TodoTail
  <2>3. (t \in Txs \ Coinbases /\ addUnchecked(t)) \/ Erase(Recursive(t))
    BY <1>6, <2>2 DEF Resurrect, Fits, Candidate
  <2> HIDE DEF t
  <2> QED BY <2>1, <2>2, <2>3, AddKeepsTypes, EraseKeepsTypes DEF TypeOK
<1>7. CASE Disconnected
  BY <1>7, JobTypes, EraseKeepsTypes DEF Disconnected, TypeOK
<1> QED BY <1>1, <1>2, <1>3, <1>4, <1>5, <1>6, <1>7 DEF Next
-----------------------------------------------------------------------------
(* Type correctness of the relay.                                            *)
LEMMA OrphansOfTyped ==
  ASSUME RelayTypeOK, NEW t
  PROVE  OrphansOf(t) \subseteq Txs
BY DEF RelayTypeOK, OrphansOf

LEMMA LinksTyped ==
  ASSUME NEW t \in Txs
  PROVE  Links(t) \subseteq Txs \X Txs
<1>1. Inputs[t] \subseteq Txs \X Nat
  BY MempoolAssumption
<1> QED BY <1>1 DEF Links, Parents

(* EraseOrphanTx may run over any map and links of the right types.          *)
LEMMA EraseOrphanTyped ==
  ASSUME NEW S, NEW map, NEW links, EraseOrphanTx(S, map, links),
         DOMAIN map \subseteq Txs, \A t \in DOMAIN map : map[t] \in Peers,
         links \subseteq Txs \X Txs
  PROVE  /\ DOMAIN orphans' \subseteq Txs /\ \A t \in DOMAIN orphans' : orphans'[t] \in Peers
         /\ byPrev' \subseteq Txs \X Txs
BY DEF EraseOrphanTx

LEMMA AddOrphanTyped ==
  ASSUME RelayTypeOK, NEW t \in Txs, NEW peer \in Peers, AddOrphanTx(t, peer)
  PROVE  /\ DOMAIN orphans' \subseteq Txs /\ \A u \in DOMAIN orphans' : orphans'[u] \in Peers
         /\ byPrev' \subseteq Txs \X Txs
<1> DEFINE map == [u \in DOMAIN orphans \cup {t} |-> IF u = t THEN peer ELSE orphans[u]]
           links == byPrev \cup Links(t)
<1>1. PICK S : EraseOrphanTx(S, map, links)
  BY DEF AddOrphanTx
<1>2. DOMAIN map \subseteq Txs /\ \A u \in DOMAIN map : map[u] \in Peers
  BY DEF RelayTypeOK
<1>3. links \subseteq Txs \X Txs
  BY LinksTyped DEF RelayTypeOK
<1> HIDE DEF map, links
<1> QED BY <1>1, <1>2, <1>3, EraseOrphanTyped

Handlers == [work : Seq(Txs), at : Nat \ {0}, left : SUBSET Txs, bad : SUBSET Peers,
             erase : SUBSET Txs]

LEMMA IdleTyped == Idle \in Handlers /\ Idle.at <= Len(Idle.work) + 1
BY DEF Idle, Handlers

LEMMA RelayTypeStep ==
  ASSUME RelayTypeOK, handler.left \subseteq DOMAIN orphans, [RelayNext]_allVars
  PROVE  RelayTypeOK'
<1>0. /\ TypeOK /\ handler \in Handlers /\ handler.at <= Len(handler.work) + 1
      /\ DOMAIN orphans \subseteq Txs /\ \A t \in DOMAIN orphans : orphans[t] \in Peers
      /\ byPrev \subseteq Txs \X Txs /\ rejects \subseteq Txs /\ rejectsTip \in Blocks
  BY DEF RelayTypeOK, Handlers
<1> SUFFICES /\ TypeOK' /\ handler' \in Handlers /\ handler'.at <= Len(handler'.work) + 1
             /\ DOMAIN orphans' \subseteq Txs /\ \A t \in DOMAIN orphans' : orphans'[t] \in Peers
             /\ byPrev' \subseteq Txs \X Txs /\ rejects' \subseteq Txs /\ rejectsTip' \in Blocks
  BY DEF RelayTypeOK, Handlers
<1>1. CASE Next /\ UNCHANGED relayVars
  BY <1>0, <1>1, PoolTypeStep DEF relayVars
<1>2. CASE AskAlreadyHave
  BY <1>0, <1>2 DEF AskAlreadyHave, Rejects, TypeOK, vars
<1>3. CASE ReceiveTx
  <2>1. PICK t \in Txs, peer \in Peers :
          /\ \/ /\ Fits(t) /\ addUnchecked(t)
                /\ job' = [Free EXCEPT !.phase = "relay"]
                /\ handler' = [Idle EXCEPT !.work = <<t>>, !.left = OrphansOf(t)]
                /\ rejects' = Rejects
                /\ UNCHANGED <<orphans, byPrev>>
             \/ /\ AddOrphanTx(t, peer)
                /\ rejects' = Rejects
                /\ UNCHANGED <<poolVars, job, handler>>
             \/ /\ rejects' = Rejects \cup {t}
                /\ UNCHANGED <<poolVars, job, orphans, byPrev, handler>>
          /\ rejectsTip' = tip /\ UNCHANGED <<coins, tip>>
    BY <1>3 DEF ReceiveTx
  <2>2. Rejects \subseteq Txs /\ tip \in Blocks
    BY <1>0 DEF Rejects, TypeOK
  <2>3. CASE /\ Fits(t) /\ addUnchecked(t)
             /\ job' = [Free EXCEPT !.phase = "relay"]
             /\ handler' = [Idle EXCEPT !.work = <<t>>, !.left = OrphansOf(t)]
             /\ rejects' = Rejects
             /\ UNCHANGED <<orphans, byPrev>>
    <3>1. job' = [phase |-> "relay", todo |-> <<>>]
      BY <2>3 DEF Free
    <3>2. handler' = [work |-> <<t>>, at |-> 1, left |-> OrphansOf(t), bad |-> {}, erase |-> {}]
      BY <2>3 DEF Idle
    <3>3. t \in Txs \ Coinbases
      BY <2>3 DEF Fits, Candidate
    <3>4. TypeOK'
      <4>1. job' \in [phase : {"free", "connect", "disconnect", "relay"}, todo : Seq(Txs)]
        BY <3>1
      <4>2. /\ mapTx' \subseteq Txs \ Coinbases /\ DOMAIN mapNextTx' \subseteq Txs \X Nat
            /\ \A o \in DOMAIN mapNextTx' : mapNextTx'[o] \in Txs
        BY <1>0, <2>3, <3>3, AddKeepsTypes
      <4>3. coins' \in Blocks /\ tip' \in Blocks
        BY <1>0, <2>1 DEF TypeOK
      <4> QED BY <4>1, <4>2, <4>3 DEF TypeOK
    <3>5. handler' \in Handlers /\ handler'.at <= Len(handler'.work) + 1
      BY <3>2, OrphansOfTyped DEF Handlers
    <3> QED BY <1>0, <2>1, <2>2, <2>3, <3>4, <3>5
  <2>4. CASE AddOrphanTx(t, peer) /\ rejects' = Rejects /\ UNCHANGED <<poolVars, job, handler>>
    BY <1>0, <2>1, <2>2, <2>4, AddOrphanTyped DEF TypeOK, poolVars
  <2>5. CASE rejects' = Rejects \cup {t} /\ UNCHANGED <<poolVars, job, orphans, byPrev, handler>>
    BY <1>0, <2>1, <2>2, <2>5 DEF TypeOK, poolVars
  <2> QED BY <2>1, <2>3, <2>4, <2>5
<1>4. CASE TryOrphan
  <2>1. PICK t \in handler.left :
          /\ SkipMisbehaving(t) \/ AcceptOrphan(t) \/ RejectOrphan(t) \/ KeepOrphan(t)
          /\ UNCHANGED <<coins, tip, job, orphans, byPrev, rejectsTip>>
    BY <1>4 DEF TryOrphan
  <2>2. t \in Txs
    BY <1>0 DEF Handlers
  <2>3. CASE SkipMisbehaving(t) \/ KeepOrphan(t)
    <3>1. handler' = [handler EXCEPT !.left = @ \ {t}] /\ UNCHANGED <<poolVars, rejects>>
      BY <2>3 DEF SkipMisbehaving, KeepOrphan
    <3>2. handler' \in Handlers /\ handler'.at <= Len(handler'.work) + 1
      BY <1>0, <3>1 DEF Handlers
    <3> QED BY <1>0, <2>1, <3>1, <3>2 DEF TypeOK, poolVars
  <2>4. CASE AcceptOrphan(t)
    <3>1. /\ handler' = [handler EXCEPT !.left = @ \ {t}, !.work = Append(@, t), !.erase = @ \cup {t}]
          /\ addUnchecked(t) /\ t \in Txs \ Coinbases /\ UNCHANGED rejects
      BY <2>2, <2>4 DEF AcceptOrphan, Fits, Candidate
    <3>2. Append(handler.work, t) \in Seq(Txs) /\ Len(Append(handler.work, t)) = Len(handler.work) + 1
      BY <1>0, <2>2 DEF Handlers
    <3>3. handler' \in Handlers
      BY <1>0, <2>2, <3>1, <3>2 DEF Handlers
    <3>4. handler'.at = handler.at /\ handler'.work = Append(handler.work, t)
      BY <1>0, <3>1 DEF Handlers
    <3>5. handler'.at <= Len(handler'.work) + 1
      BY <1>0, <3>2, <3>4 DEF Handlers
    <3> QED BY <1>0, <2>1, <3>1, <3>3, <3>5, AddKeepsTypes DEF TypeOK
  <2>5. CASE RejectOrphan(t)
    <3>1. PICK punished \in SUBSET {orphans[t]} :
             /\ handler' = [handler EXCEPT !.left = @ \ {t}, !.erase = @ \cup {t},
                                           !.bad = @ \cup punished]
             /\ rejects' = rejects \cup {t} /\ UNCHANGED poolVars
      <4>1. Rejected(t, {}) \/ Rejected(t, {orphans[t]})
        BY <2>5 DEF RejectOrphan
      <4>2. ASSUME NEW punished \in SUBSET {orphans[t]}, Rejected(t, punished)
            PROVE  /\ handler' = [handler EXCEPT !.left = @ \ {t}, !.erase = @ \cup {t},
                                                !.bad = @ \cup punished]
                   /\ rejects' = rejects \cup {t} /\ UNCHANGED poolVars
        BY <4>2 DEF Rejected
      <4>3. {} \in SUBSET {orphans[t]} /\ {orphans[t]} \in SUBSET {orphans[t]}
        OBVIOUS
      <4> QED BY <4>1, <4>2, <4>3
    <3>2. orphans[t] \in Peers
      BY <1>0, <2>1
    <3>3. handler' \in Handlers /\ handler'.at <= Len(handler'.work) + 1
      BY <1>0, <2>2, <3>1, <3>2 DEF Handlers
    <3>4. rejects' \subseteq Txs
      BY <1>0, <2>2, <3>1
    <3>5. TypeOK'
      BY <1>0, <2>1, <3>1 DEF TypeOK, poolVars
    <3> QED BY <1>0, <2>1, <3>3, <3>4, <3>5
  <2> QED BY <2>1, <2>3, <2>4, <2>5
<1>5. CASE NextInWorkQueue
  <2>1. /\ handler.at < Len(handler.work)
        /\ handler' = [handler EXCEPT !.at = @ + 1, !.left = OrphansOf(handler.work[handler.at + 1])]
        /\ UNCHANGED <<vars, orphans, byPrev, rejects, rejectsTip>>
    BY <1>5 DEF NextInWorkQueue
  <2>2. OrphansOf(handler.work[handler.at + 1]) \subseteq Txs
    BY OrphansOfTyped
  <2>3. Len(handler.work) \in Nat
    BY <1>0 DEF Handlers
  <2>4. handler.at + 1 \in Nat \ {0} /\ handler.at + 1 <= Len(handler.work) + 1
    BY <1>0, <2>1, <2>3 DEF Handlers
  <2>5. /\ handler' \in Handlers /\ handler'.at = handler.at + 1
        /\ handler'.work = handler.work
    BY <1>0, <2>1, <2>2, <2>4 DEF Handlers
  <2> QED BY <1>0, <2>1, <2>4, <2>5 DEF TypeOK, vars
<1>6. CASE EraseQueue
  <2>1. TypeOK'
    BY <1>0, <1>6, JobTypes DEF EraseQueue, TypeOK, poolVars
  <2> QED BY <1>0, <1>6, <2>1, IdleTyped, EraseOrphanTyped DEF EraseQueue
<1>7. CASE FinalizeNode
  <2>1. PICK S : EraseOrphanTx(S, orphans, byPrev) /\ UNCHANGED <<vars, rejects, rejectsTip, handler>>
    BY <1>7 DEF FinalizeNode
  <2> QED BY <1>0, <2>1, EraseOrphanTyped DEF TypeOK, vars
<1>8. CASE UNCHANGED allVars
  BY <1>0, <1>8 DEF allVars, vars, TypeOK
<1> QED BY <1>1, <1>2, <1>3, <1>4, <1>5, <1>6, <1>7, <1>8 DEF RelayNext

-----------------------------------------------------------------------------
(* The index of the orphans.  What the handler is about to visit and to      *)
(* erase are orphans, since nothing is erased while it runs; between two     *)
(* messages it has nothing left.                                             *)
OrphanInv ==
  /\ byPrev = UNION {Links(t) : t \in DOMAIN orphans}
  /\ handler.left \cup handler.erase \subseteq DOMAIN orphans
  /\ IsFiniteSet(DOMAIN orphans) /\ Cardinality(DOMAIN orphans) <= MaxOrphans
  /\ job.phase # "relay" => handler = Idle

(* What *itByPrev lists are orphans.                                         *)
LEMMA OrphansOfAreOrphans ==
  ASSUME byPrev = UNION {Links(t) : t \in DOMAIN orphans}, NEW t
  PROVE  OrphansOf(t) \subseteq DOMAIN orphans
BY DEF OrphansOf, Links

(* An orphan's pairs go with it and nobody else's do.                        *)
LEMMA EraseKeepsLinks ==
  ASSUME NEW S, NEW map, NEW links, EraseOrphanTx(S, map, links),
         links = UNION {Links(t) : t \in DOMAIN map}
  PROVE  /\ byPrev' = UNION {Links(t) : t \in DOMAIN orphans'}
         /\ DOMAIN orphans' = DOMAIN map \ S
<1>1. \A t, u : \A l \in Links(t) : l \in Links(u) => t = u
  BY DEF Links
<1> QED BY <1>1 DEF EraseOrphanTx

(* The least and the most that LimitOrphanTxSize leaves.                     *)
LEMMA EraseKeepsLimit ==
  ASSUME NEW D, IsFiniteSet(D), NEW S,
         Cardinality(D) <= MaxOrphans
  PROVE  IsFiniteSet(D \ S) /\ Cardinality(D \ S) <= MaxOrphans
<1>1. IsFiniteSet(D \ S) /\ Cardinality(D \ S) <= Cardinality(D)
  BY FS_Subset
<1>2. Cardinality(D \ S) \in Nat /\ Cardinality(D) \in Nat /\ MaxOrphans \in Nat
  BY <1>1, FS_CardinalityType, TxRelayAssumption
<1> QED BY <1>1, <1>2

LEMMA EvictionKeepsLimit ==
  ASSUME NEW D, IsFiniteSet(D), NEW S \in SUBSET D,
         Cardinality(D) - Cardinality(S)
           = (IF Cardinality(D) > MaxOrphans THEN MaxOrphans ELSE Cardinality(D))
  PROVE  IsFiniteSet(D \ S) /\ Cardinality(D \ S) <= MaxOrphans
<1>1. IsFiniteSet(S) /\ IsFiniteSet(D \ S) /\ D \cap S = S
  BY FS_Subset
<1>2. Cardinality(D \ S) = Cardinality(D) - Cardinality(S)
  BY <1>1, FS_Difference
<1>3. Cardinality(D) \in Nat /\ MaxOrphans \in Nat
  BY FS_CardinalityType, TxRelayAssumption
<1> QED BY <1>1, <1>2, <1>3

LEMMA AddOrphanKeepsIndex ==
  ASSUME OrphanInv, NEW t, NEW peer, AddOrphanTx(t, peer)
  PROVE  /\ byPrev' = UNION {Links(u) : u \in DOMAIN orphans'}
         /\ IsFiniteSet(DOMAIN orphans') /\ Cardinality(DOMAIN orphans') <= MaxOrphans
<1> DEFINE map == [u \in DOMAIN orphans \cup {t} |-> IF u = t THEN peer ELSE orphans[u]]
           links == byPrev \cup Links(t)
<1>1. PICK S \in SUBSET DOMAIN map :
        /\ EraseOrphanTx(S, map, links)
        /\ Cardinality(DOMAIN map) - Cardinality(S)
             = (IF Cardinality(DOMAIN map) > MaxOrphans THEN MaxOrphans ELSE Cardinality(DOMAIN map))
  BY DEF AddOrphanTx
<1>2. DOMAIN map = DOMAIN orphans \cup {t}
  OBVIOUS
<1>3. links = UNION {Links(u) : u \in DOMAIN map}
  BY <1>2 DEF OrphanInv
<1>4. IsFiniteSet(DOMAIN map)
  BY <1>2, FS_AddElement DEF OrphanInv
<1> HIDE DEF map, links
<1>5. /\ byPrev' = UNION {Links(u) : u \in DOMAIN orphans'}
      /\ DOMAIN orphans' = DOMAIN map \ S
  BY <1>1, <1>3, EraseKeepsLinks
<1> QED BY <1>1, <1>4, <1>5, EvictionKeepsLimit

LEMMA PoolStepsAreNotTheRelay ==
  ASSUME RelayTypeOK, Next
  PROVE  job.phase # "relay" /\ job'.phase # "relay"
<1>1. job \in [phase : {"free", "connect", "disconnect", "relay"}, todo : Seq(Txs)]
  BY DEF RelayTypeOK, TypeOK
<1>2. /\ Free.phase = "free"
      /\ \A b : Job("connect", b).phase = "connect" /\ Job("disconnect", b).phase = "disconnect"
  BY DEF Free, Job
<1>3. CASE AcceptToMemoryPool \/ ConnectTip \/ Connected \/ DisconnectTip \/ Disconnected
  BY <1>2, <1>3 DEF AcceptToMemoryPool, ConnectTip, Connected, DisconnectTip, Disconnected
<1>4. CASE RemoveForBlock \/ Resurrect
  BY <1>1, <1>4 DEF RemoveForBlock, Resurrect
<1> QED BY <1>3, <1>4 DEF Next

LEMMA OrphanStep ==
  ASSUME RelayTypeOK, OrphanInv, [RelayNext]_allVars
  PROVE  OrphanInv'
<1>0. /\ byPrev = UNION {Links(t) : t \in DOMAIN orphans}
      /\ handler.left \subseteq DOMAIN orphans /\ handler.erase \subseteq DOMAIN orphans
      /\ IsFiniteSet(DOMAIN orphans) /\ Cardinality(DOMAIN orphans) <= MaxOrphans
      /\ job.phase # "relay" => handler = Idle
      /\ handler \in Handlers /\ Free.phase = "free"
      /\ Idle.left = {} /\ Idle.erase = {}
  BY DEF OrphanInv, RelayTypeOK, Handlers, Free, Idle
<1>1. CASE Next /\ UNCHANGED relayVars
  BY <1>1, PoolStepsAreNotTheRelay DEF OrphanInv, relayVars
<1>2. CASE AskAlreadyHave \/ UNCHANGED allVars
  BY <1>2 DEF AskAlreadyHave, OrphanInv, allVars, vars
<1>3. CASE ReceiveTx
  <2>1. PICK t \in Txs, peer \in Peers :
          /\ job = Free
          /\ \/ /\ job' = [Free EXCEPT !.phase = "relay"]
                /\ handler' = [Idle EXCEPT !.work = <<t>>, !.left = OrphansOf(t)]
                /\ UNCHANGED <<orphans, byPrev>>
             \/ AddOrphanTx(t, peer) /\ UNCHANGED <<job, handler>>
             \/ UNCHANGED <<job, orphans, byPrev, handler>>
    BY <1>3 DEF ReceiveTx
  <2>2. CASE /\ job' = [Free EXCEPT !.phase = "relay"]
             /\ handler' = [Idle EXCEPT !.work = <<t>>, !.left = OrphansOf(t)]
             /\ UNCHANGED <<orphans, byPrev>>
    <3>1. job'.phase = "relay" /\ handler'.left = OrphansOf(t) /\ handler'.erase = {}
      BY <2>2 DEF Free, Idle
    <3> QED BY <1>0, <2>2, <3>1, OrphansOfAreOrphans DEF OrphanInv
  <2>3. CASE AddOrphanTx(t, peer) /\ UNCHANGED <<job, handler>>
    BY <1>0, <2>1, <2>3, AddOrphanKeepsIndex DEF OrphanInv
  <2>4. CASE UNCHANGED <<job, orphans, byPrev, handler>>
    BY <2>4 DEF OrphanInv
  <2> QED BY <2>1, <2>2, <2>3, <2>4
<1>4. CASE TryOrphan
  <2>1. PICK t \in handler.left :
          /\ SkipMisbehaving(t) \/ AcceptOrphan(t) \/ RejectOrphan(t) \/ KeepOrphan(t)
          /\ job.phase = "relay" /\ UNCHANGED <<job, orphans, byPrev>>
    BY <1>4 DEF TryOrphan
  <2>2. handler'.left \subseteq handler.left /\ handler'.erase \subseteq handler.erase \cup {t}
    BY <1>0, <2>1 DEF SkipMisbehaving, AcceptOrphan, RejectOrphan, Rejected, KeepOrphan, Handlers
  <2> QED BY <1>0, <2>1, <2>2 DEF OrphanInv
<1>5. CASE NextInWorkQueue
  <2>1. /\ job.phase = "relay" /\ UNCHANGED <<job, orphans, byPrev>>
        /\ handler' = [handler EXCEPT !.at = @ + 1, !.left = OrphansOf(handler.work[handler.at + 1])]
    BY <1>5 DEF NextInWorkQueue, vars
  <2>2. /\ handler'.left = OrphansOf(handler.work[handler.at + 1])
        /\ handler'.erase = handler.erase
    BY <1>0, <2>1 DEF Handlers
  <2> QED BY <1>0, <2>1, <2>2, OrphansOfAreOrphans DEF OrphanInv
<1>6. CASE EraseQueue
  <2>1. EraseOrphanTx(handler.erase, orphans, byPrev) /\ handler' = Idle
    BY <1>6 DEF EraseQueue
  <2>2. /\ byPrev' = UNION {Links(t) : t \in DOMAIN orphans'}
        /\ DOMAIN orphans' = DOMAIN orphans \ handler.erase
    BY <1>0, <2>1, EraseKeepsLinks
  <2>3. IsFiniteSet(DOMAIN orphans') /\ Cardinality(DOMAIN orphans') <= MaxOrphans
    BY <1>0, <2>2, EraseKeepsLimit
  <2> QED BY <1>0, <2>1, <2>2, <2>3 DEF OrphanInv
<1>7. CASE FinalizeNode
  <2>1. PICK S : EraseOrphanTx(S, orphans, byPrev) /\ UNCHANGED <<job, handler>> /\ job = Free
    BY <1>7 DEF FinalizeNode, vars
  <2>2. /\ byPrev' = UNION {Links(t) : t \in DOMAIN orphans'}
        /\ DOMAIN orphans' = DOMAIN orphans \ S
    BY <1>0, <2>1, EraseKeepsLinks
  <2>3. IsFiniteSet(DOMAIN orphans') /\ Cardinality(DOMAIN orphans') <= MaxOrphans
    BY <1>0, <2>2, EraseKeepsLimit
  <2>4. handler' = Idle
    BY <1>0, <2>1
  <2> QED BY <1>0, <2>2, <2>3, <2>4 DEF OrphanInv
<1> QED BY <1>1, <1>2, <1>3, <1>4, <1>5, <1>6, <1>7 DEF RelayNext

LEMMA RelayInvariant == RelaySpec => [](RelayTypeOK /\ OrphanInv)
<1>1. RelayInit => RelayTypeOK
  <2>1. Root \in Blocks
    BY MempoolAssumption
  <2> QED BY <2>1, JobTypes, IdleTyped DEF RelayInit, Init, RelayTypeOK, TypeOK, Handlers
<1>2. RelayInit => OrphanInv
  <2> SUFFICES ASSUME RelayInit PROVE OrphanInv
    OBVIOUS
  <2>1. DOMAIN orphans = {} /\ byPrev = {} /\ handler = Idle
    BY DEF RelayInit
  <2>2. IsFiniteSet({}) /\ Cardinality({}) = 0 /\ 0 <= MaxOrphans
    BY FS_EmptySet, TxRelayAssumption
  <2> QED BY <2>1, <2>2 DEF OrphanInv, Idle
<1>3. RelayTypeOK /\ OrphanInv /\ [RelayNext]_allVars => RelayTypeOK' /\ OrphanInv'
  BY RelayTypeStep, OrphanStep DEF OrphanInv
<1> QED BY <1>1, <1>2, <1>3, PTL DEF RelaySpec

(* The variables of pool and relay keep their types.                         *)
THEOREM RelayTypeCorrect == RelaySpec => []RelayTypeOK
BY RelayInvariant, PTL

(* mapOrphanTransactionsByPrev is the exact index of at most -maxorphantx     *)
(* orphans, whichever way they go, and the handler only visits and erases    *)
(* orphans that are there.                                                   *)
THEOREM OrphanIndexExactAlways == RelaySpec => []OrphanIndexExact
<1>1. OrphanInv => OrphanIndexExact
  BY DEF OrphanInv, OrphanIndexExact
<1> QED BY <1>1, RelayInvariant, PTL
-----------------------------------------------------------------------------
(* The chains of blocks.  Every nonempty set of numbers has a least one, so  *)
(* what holds of Root and is handed on by parents holds of every block.      *)
LEMMA LeastNumber ==
  ASSUME NEW T \in SUBSET Nat, T # {}
  PROVE  \E i \in T : \A j \in T : i <= j
<1> DEFINE R == OpToRel(<, Nat)
<1>1. \A i, j \in Nat : j < i => <<j, i>> \in R
  BY DEF OpToRel
<1>2. IsWellFoundedOn(R, Nat)
  BY NatLessThanWellFounded, Zenon
<1> HIDE DEF R
<1>3. PICK i \in T : \A j \in T : ~(<<j, i>> \in R)
  BY <1>2, WFMin, Zenon
<1>4. \A j \in T : ~(j < i)
  BY <1>1, <1>3
<1> QED BY <1>4

LEMMA ParentFacts ==
  ASSUME NEW b \in Blocks, b # Root
  PROVE  /\ Parent[b] \in Blocks /\ Height[b] = Height[Parent[b]] + 1
         /\ Chain[b] = {b} \cup Chain[Parent[b]]
BY MempoolAssumption

LEMMA FromRoot ==
  ASSUME NEW S \in SUBSET Blocks, Root \in S,
         \A b \in Blocks : b # Root /\ Parent[b] \in S => b \in S
  PROVE  S = Blocks
<1> DEFINE T == {Height[b] : b \in Blocks \ S}
<1> SUFFICES ASSUME Blocks \ S # {} PROVE FALSE
  OBVIOUS
<1>1. \A b \in Blocks : Height[b] \in Nat
  BY MempoolAssumption
<1>2. T \in SUBSET Nat /\ T # {}
  BY <1>1
<1>3. PICK i \in T : \A j \in T : i <= j
  BY <1>2, LeastNumber
<1>4. PICK b \in Blocks \ S : i = Height[b]
  BY <1>3
<1>5. b # Root /\ Parent[b] \in Blocks /\ Height[b] = Height[Parent[b]] + 1
  BY <1>4, ParentFacts
<1>6. Parent[b] \in S
  <2> SUFFICES ASSUME Parent[b] \notin S PROVE FALSE
    OBVIOUS
  <2>1. Height[Parent[b]] \in T
    BY <1>5
  <2>2. Height[b] <= Height[Parent[b]]
    BY <1>3, <1>4, <2>1
  <2> QED BY <1>1, <1>5, <2>2
<1> QED BY <1>4, <1>5, <1>6

LEMMA ConfirmedRoot == Root \in Blocks /\ Confirmed[Root] = Content(Root)
<1>1. Root \in Blocks /\ Chain[Root] = {Root}
  BY MempoolAssumption
<1> QED BY <1>1 DEF Confirmed

LEMMA ConfirmedStep ==
  ASSUME NEW b \in Blocks, b # Root
  PROVE  Confirmed[b] = Confirmed[Parent[b]] \cup Content(b)
BY ParentFacts DEF Confirmed

LEMMA OutputsOf ==
  ASSUME NEW t, NEW o \in Outputs(t) PROVE o[1] = t
BY DEF Outputs

(* An outpoint is unspent if its transaction is confirmed and no confirmed   *)
(* one spends it.                                                            *)
LEMMA UnspentIs ==
  ASSUME NEW c \in Blocks, NEW o
  PROVE  o \in Unspent[c] <=> /\ o[1] \in Confirmed[c] /\ o \in Outputs(o[1])
                              /\ \A t \in Confirmed[c] : o \notin Inputs[t]
<1>1. PICK A, B : /\ A = UNION {Outputs(t) : t \in Confirmed[c]}
                  /\ B = UNION {Inputs[t] : t \in Confirmed[c]}
  OBVIOUS
<1>2. Unspent[c] = A \ B
  BY <1>1 DEF Unspent
<1>3. o \in A <=> \E t \in Confirmed[c] : o \in Outputs(t)
  BY <1>1
<1>4. o \in B <=> \E t \in Confirmed[c] : o \in Inputs[t]
  BY <1>1
<1>5. o \in A <=> o[1] \in Confirmed[c] /\ o \in Outputs(o[1])
  BY <1>3, OutputsOf
<1> QED BY <1>2, <1>4, <1>5

(* An outpoint of a transaction in pool.                                     *)
FromPool(o, pool) == o[1] \in pool /\ o \in Outputs(o[1])

(* What the blocks on top of Root may hold.                                  *)
Earlier(b, i) == {BlockTxs[b][j] : j \in 2 .. i - 1}

LEMMA BlockTx ==
  ASSUME NEW b \in Blocks, b # Root, NEW i \in 2 .. Len(BlockTxs[b]), NEW t, t = BlockTxs[b][i]
  PROVE  /\ t \notin Coinbases /\ t \notin BadScript /\ Lock[t] < Height[b]
         /\ CheckInputs(t, Earlier(b, i), Parent[b])
         /\ \A j \in 2 .. i - 1 : BlockTxs[b][j] # t /\ Inputs[BlockTxs[b][j]] \cap Inputs[t] = {}
BY BlocksAssumption DEF Acceptable, Earlier

LEMMA BlockFacts ==
  ASSUME NEW b \in Blocks, b # Root
  PROVE  /\ BlockTxs[b] \in Seq(Txs) /\ Len(BlockTxs[b]) \in Nat /\ Content(b) \subseteq Txs
         /\ Content(b) \cap Confirmed[Parent[b]] = {} /\ BlockTxs[b][1] \in Coinbases
         /\ Content(b) = {BlockTxs[b][i] : i \in 1 .. Len(BlockTxs[b])}
<1>1. BlockTxs[b] \in Seq(Txs)
  BY MempoolAssumption
<1>2. Content(b) \cap Confirmed[Parent[b]] = {} /\ BlockTxs[b][1] \in Coinbases
  BY BlocksAssumption DEF Acceptable
<1> QED BY <1>1, <1>2 DEF Content

(* What a transaction of a block spends was confirmed before the block, or   *)
(* stands before it in the block; a coinbase spends nothing.                 *)
LEMMA BlockSpends ==
  ASSUME NEW b \in Blocks, b # Root, NEW i \in 1 .. Len(BlockTxs[b]),
         NEW o \in Inputs[BlockTxs[b][i]]
  PROVE  /\ i \in 2 .. Len(BlockTxs[b])
         /\ o \in Unspent[Parent[b]] \/ FromPool(o, Earlier(b, i))
<1>1. Len(BlockTxs[b]) \in Nat /\ BlockTxs[b][1] \in Coinbases /\ BlockTxs[b] \in Seq(Txs)
  BY BlockFacts
<1>2. \A t \in Coinbases : Inputs[t] = {}
  BY MempoolAssumption
<1>3. i # 1
  BY <1>1, <1>2
<1>4. i \in 2 .. Len(BlockTxs[b])
  BY <1>1, <1>3
<1>5. CheckInputs(BlockTxs[b][i], Earlier(b, i), Parent[b])
  BY <1>4, BlockTx
<1> QED BY <1>4, <1>5 DEF CheckInputs, HaveInputs, FromPool

LEMMA EarlierInBlock ==
  ASSUME NEW b \in Blocks, b # Root, NEW i \in 1 .. Len(BlockTxs[b])
  PROVE  Earlier(b, i) \subseteq Content(b)
<1>1. Len(BlockTxs[b]) \in Nat /\ Content(b) = {BlockTxs[b][j] : j \in 1 .. Len(BlockTxs[b])}
  BY BlockFacts
<1> QED BY <1>1 DEF Earlier

(* Nothing confirmed spends what was not made by something confirmed.        *)
SpendsMade(c) == \A t \in Confirmed[c] : \A o \in Inputs[t] : FromPool(o, Confirmed[c])

LEMMA SpentIsMade == ASSUME NEW c \in Blocks PROVE SpendsMade(c)
<1> DEFINE S == {b \in Blocks : SpendsMade(b)}
<1>1. Root \in S
  <2>1. \A o \in UNION {Inputs[t] : t \in Content(Root)} : o \in UNION {Outputs(t) : t \in Content(Root)}
    BY BlocksAssumption
  <2>2. ASSUME NEW t \in Content(Root), NEW o \in Inputs[t] PROVE FromPool(o, Content(Root))
    <3>1. PICK s \in Content(Root) : o \in Outputs(s)
      BY <2>1, <2>2
    <3> QED BY <3>1, OutputsOf DEF FromPool
  <2> QED BY <2>2, ConfirmedRoot DEF SpendsMade
<1>2. ASSUME NEW b \in Blocks, b # Root, Parent[b] \in S PROVE b \in S
  <2>1. Parent[b] \in Blocks /\ Confirmed[b] = Confirmed[Parent[b]] \cup Content(b)
    BY <1>2, ParentFacts, ConfirmedStep
  <2>2. ASSUME NEW t \in Confirmed[Parent[b]], NEW o \in Inputs[t] PROVE FromPool(o, Confirmed[b])
    BY <1>2, <2>1, <2>2 DEF SpendsMade, FromPool
  <2>3. ASSUME NEW t \in Content(b), NEW o \in Inputs[t] PROVE FromPool(o, Confirmed[b])
    <3>1. PICK i \in 1 .. Len(BlockTxs[b]) : t = BlockTxs[b][i]
      BY <1>2, BlockFacts
    <3>2. o \in Unspent[Parent[b]] \/ FromPool(o, Earlier(b, i))
      BY <1>2, <2>3, <3>1, BlockSpends
    <3>3. CASE o \in Unspent[Parent[b]]
      BY <2>1, <3>3, UnspentIs DEF FromPool
    <3>4. CASE FromPool(o, Earlier(b, i))
      BY <1>2, <2>1, <3>4, EarlierInBlock DEF FromPool
    <3> QED BY <3>2, <3>3, <3>4
  <2> QED BY <2>1, <2>2, <2>3 DEF SpendsMade
<1> HIDE DEF S
<1>3. S \in SUBSET Blocks
  BY DEF S
<1>4. S = Blocks
  BY <1>1, <1>2, <1>3, FromRoot
<1> QED BY <1>4 DEF S

(* A transaction is confirmed by one block of a chain, so the height of its  *)
(* coins does not change when the chain grows.                               *)
Once(c) == \A x, y \in Chain[c] : Content(x) \cap Content(y) # {} => x = y

LEMMA ConfirmedOnce ==
  ASSUME NEW c \in Blocks PROVE Once(c) /\ Chain[c] \subseteq Blocks /\ c \in Chain[c]
<1> DEFINE S == {b \in Blocks : Once(b) /\ Chain[b] \subseteq Blocks /\ b \in Chain[b]}
<1>1. Root \in S
  <2>1. Chain[Root] = {Root} /\ Root \in Blocks
    BY MempoolAssumption
  <2> QED BY <2>1 DEF Once
<1>2. ASSUME NEW b \in Blocks, b # Root, Parent[b] \in S PROVE b \in S
  <2>1. PICK P \in Blocks : P = Parent[b] /\ Chain[b] = {b} \cup Chain[P]
    BY <1>2, ParentFacts
  <2>2. Content(b) \cap Confirmed[P] = {}
    BY <1>2, <2>1, BlockFacts
  <2>3. \A y \in Chain[P] : Content(b) \cap Content(y) = {}
    BY <2>2 DEF Confirmed
  <2>4. Once(P) /\ Chain[P] \subseteq Blocks
    BY <1>2, <2>1
  <2>5. Once(b)
    BY <2>1, <2>3, <2>4 DEF Once
  <2> QED BY <2>1, <2>4, <2>5
<1> HIDE DEF S
<1>3. S \in SUBSET Blocks
  BY DEF S
<1>4. S = Blocks
  BY <1>1, <1>2, <1>3, FromRoot
<1> QED BY <1>4 DEF S

LEMMA CoinHeightIs ==
  ASSUME NEW c \in Blocks, NEW b \in Chain[c], NEW t \in Content(b)
  PROVE  CoinHeight(t, c) = Height[b]
<1>1. PICK x : x = CHOOSE y \in Chain[c] : t \in Content(y)
  OBVIOUS
<1>2. x \in Chain[c] /\ t \in Content(x)
  BY <1>1
<1>3. x = b
  BY <1>2, ConfirmedOnce DEF Once
<1> QED BY <1>1, <1>3 DEF CoinHeight

LEMMA CoinHeightKept ==
  ASSUME NEW b \in Blocks, b # Root, NEW t \in Confirmed[Parent[b]]
  PROVE  CoinHeight(t, b) = CoinHeight(t, Parent[b]) /\ CoinHeight(t, b) \in Nat
<1>1. PICK P \in Blocks : P = Parent[b] /\ Chain[b] = {b} \cup Chain[P]
  BY ParentFacts
<1>2. PICK x \in Chain[P] : t \in Content(x)
  BY <1>1 DEF Confirmed
<1>3. CoinHeight(t, P) = Height[x]
  BY <1>2, CoinHeightIs
<1>4. x \in Chain[b]
  BY <1>1
<1>5. CoinHeight(t, b) = Height[x]
  BY <1>2, <1>4, CoinHeightIs
<1>6. Height[x] \in Nat
  <2>1. x \in Blocks
    BY <1>1, ConfirmedOnce
  <2> QED BY <2>1, MempoolAssumption
<1> QED BY <1>1, <1>3, <1>5, <1>6

LEMMA CoinHeightType ==
  ASSUME NEW c \in Blocks, NEW t \in Confirmed[c] PROVE CoinHeight(t, c) \in Nat
<1>1. PICK x \in Chain[c] : t \in Content(x)
  BY DEF Confirmed
<1>2. x \in Blocks
  BY ConfirmedOnce
<1>3. Height[x] \in Nat
  BY <1>2, MempoolAssumption
<1> QED BY <1>1, <1>3, CoinHeightIs
-----------------------------------------------------------------------------
(* Inside a block, in its order.                                             *)
LEMMA BlockDiffers ==
  ASSUME NEW b \in Blocks, b # Root, NEW j \in 1 .. Len(BlockTxs[b]), NEW i \in 1 .. j - 1
  PROVE  /\ BlockTxs[b][i] # BlockTxs[b][j]
         /\ Inputs[BlockTxs[b][i]] \cap Inputs[BlockTxs[b][j]] = {}
<1>1. Len(BlockTxs[b]) \in Nat /\ BlockTxs[b][1] \in Coinbases
  BY BlockFacts
<1>2. j \in 2 .. Len(BlockTxs[b])
  BY <1>1
<1>3. PICK t : t = BlockTxs[b][j]
  OBVIOUS
<1>4. /\ t \notin Coinbases
      /\ \A h \in 2 .. j - 1 : BlockTxs[b][h] # t /\ Inputs[BlockTxs[b][h]] \cap Inputs[t] = {}
  BY <1>2, <1>3, BlockTx
<1>5. CASE i = 1
  <2>1. Inputs[BlockTxs[b][1]] = {}
    BY <1>1, MempoolAssumption
  <2> QED BY <1>1, <1>3, <1>4, <1>5, <2>1
<1>6. CASE i # 1
  <2>1. i \in 2 .. j - 1
    BY <1>6
  <2> QED BY <1>3, <1>4, <2>1
<1> QED BY <1>5, <1>6

LEMMA ContentDiffers ==
  ASSUME NEW b \in Blocks, b # Root, NEW s \in Content(b), NEW t \in Content(b), s # t
  PROVE  Inputs[s] \cap Inputs[t] = {}
<1>1. Content(b) = {BlockTxs[b][i] : i \in 1 .. Len(BlockTxs[b])} /\ Len(BlockTxs[b]) \in Nat
  BY BlockFacts
<1>2. PICK i \in 1 .. Len(BlockTxs[b]), j \in 1 .. Len(BlockTxs[b]) :
        s = BlockTxs[b][i] /\ t = BlockTxs[b][j]
  BY <1>1
<1>3. i \in 1 .. j - 1 \/ j \in 1 .. i - 1
  BY <1>1, <1>2
<1> QED BY <1>2, <1>3, BlockDiffers

(* What is left to do of a block is the end of it.                           *)
Elements(s) == {s[i] : i \in DOMAIN s}
EndOf(s, b) == \E k \in Nat : /\ Len(BlockTxs[b]) = k + Len(s)
                              /\ \A i \in 1 .. Len(s) : s[i] = BlockTxs[b][k + i]

LEMMA ElementsAre ==
  ASSUME NEW s \in Seq(Txs)
  PROVE  /\ Len(s) \in Nat /\ \A x : x \in Elements(s) <=> \E i \in 1 .. Len(s) : x = s[i]
         /\ \A i \in 1 .. Len(s) : s[i] \in Elements(s)
<1>1. DOMAIN s = 1 .. Len(s) /\ Len(s) \in Nat
  OBVIOUS
<1> QED BY <1>1 DEF Elements

LEMMA TailIs ==
  ASSUME NEW s \in Seq(Txs), s # <<>>, NEW t, t = Tail(s)
  PROVE  /\ t \in Seq(Txs) /\ Len(s) \in Nat /\ Len(s) >= 1 /\ Len(t) = Len(s) - 1
         /\ Head(s) = s[1] /\ Head(s) \in Txs
         /\ \A i \in 1 .. Len(t) : t[i] = s[i + 1]
OBVIOUS

LEMMA WholeBlock ==
  ASSUME NEW b \in Blocks, b # Root
  PROVE  /\ BlockTxs[b] \in Seq(Txs) /\ Elements(BlockTxs[b]) = Content(b)
         /\ EndOf(BlockTxs[b], b)
<1>1. BlockTxs[b] \in Seq(Txs)
  BY BlockFacts
<1>2. Elements(BlockTxs[b]) = Content(b)
  BY DEF Elements, Content
<1>3. EndOf(BlockTxs[b], b)
  <2>1. Len(BlockTxs[b]) = 0 + Len(BlockTxs[b]) /\ 0 \in Nat
    BY <1>1
  <2>2. \A i \in 1 .. Len(BlockTxs[b]) : BlockTxs[b][i] = BlockTxs[b][0 + i]
    BY <1>1
  <2> QED BY <2>1, <2>2 DEF EndOf
<1> QED BY <1>1, <1>2, <1>3

LEMMA EndFacts ==
  ASSUME NEW b \in Blocks, b # Root, NEW s \in Seq(Txs), s # <<>>, EndOf(s, b)
  PROVE  /\ EndOf(Tail(s), b)
         /\ \E i \in 1 .. Len(BlockTxs[b]) :
              /\ Head(s) = BlockTxs[b][i]
              /\ Elements(Tail(s)) = {BlockTxs[b][j] : j \in i + 1 .. Len(BlockTxs[b])}
<1>1. PICK k \in Nat : /\ Len(BlockTxs[b]) = k + Len(s)
                       /\ \A i \in 1 .. Len(s) : s[i] = BlockTxs[b][k + i]
  BY DEF EndOf
<1>2. PICK t : t = Tail(s)
  OBVIOUS
<1>3. /\ t \in Seq(Txs) /\ Len(s) \in Nat /\ Len(s) >= 1 /\ Head(s) = s[1]
      /\ Len(t) = Len(s) - 1 /\ \A i \in 1 .. Len(t) : t[i] = s[i + 1]
  BY <1>2, TailIs
<1>4. \A i \in 1 .. Len(t) : t[i] = BlockTxs[b][(k + 1) + i]
  <2> TAKE i \in 1 .. Len(t)
  <2>1. i + 1 \in 1 .. Len(s) /\ k + (i + 1) = (k + 1) + i
    BY <1>3
  <2>2. s[i + 1] = BlockTxs[b][k + (i + 1)]
    BY <1>1, <2>1
  <2> QED BY <1>3, <2>1, <2>2
<1>5. Len(BlockTxs[b]) = (k + 1) + Len(t)
  BY <1>1, <1>3
<1>6. EndOf(t, b)
  <2>1. PICK m \in Nat : m = k + 1
    OBVIOUS
  <2>2. Len(BlockTxs[b]) = m + Len(t) /\ \A i \in 1 .. Len(t) : t[i] = BlockTxs[b][m + i]
    BY <1>4, <1>5, <2>1
  <2> QED BY <2>2 DEF EndOf
<1>7. k + 1 \in 1 .. Len(BlockTxs[b]) /\ Head(s) = BlockTxs[b][k + 1]
  BY <1>1, <1>3
<1>8. Elements(t) = {BlockTxs[b][j] : j \in (k + 1) + 1 .. Len(BlockTxs[b])}
  <2>1. ASSUME NEW x \in Elements(t) PROVE \E j \in (k + 1) + 1 .. Len(BlockTxs[b]) : x = BlockTxs[b][j]
    <3>1. PICK i \in 1 .. Len(t) : x = t[i]
      BY <1>3, <2>1, ElementsAre
    <3>2. (k + 1) + i \in (k + 1) + 1 .. Len(BlockTxs[b])
      BY <1>3, <1>5, <3>1
    <3> QED BY <1>4, <3>1, <3>2
  <2>2. ASSUME NEW j \in (k + 1) + 1 .. Len(BlockTxs[b]) PROVE BlockTxs[b][j] \in Elements(t)
    <3>1. PICK n \in Nat : n = Len(t)
      BY <1>3
    <3>2. j - (k + 1) \in 1 .. n /\ (k + 1) + (j - (k + 1)) = j
      BY <1>5, <3>1
    <3>3. PICK i \in 1 .. Len(t) : (k + 1) + i = j
      BY <3>1, <3>2
    <3>4. t[i] = BlockTxs[b][j] /\ t[i] \in Elements(t)
      BY <1>3, <1>4, <3>3, ElementsAre
    <3> QED BY <3>4
  <2> QED BY <2>1, <2>2
<1> QED BY <1>2, <1>6, <1>7, <1>8

LEMMA HeadAndTail ==
  ASSUME NEW s \in Seq(Txs), s # <<>>
  PROVE  Elements(s) = {Head(s)} \cup Elements(Tail(s)) /\ Head(s) \in Txs /\ Tail(s) \in Seq(Txs)
<1>1. PICK t : t = Tail(s)
  OBVIOUS
<1>2. /\ t \in Seq(Txs) /\ Len(s) \in Nat /\ Len(s) >= 1 /\ Head(s) = s[1] /\ Head(s) \in Txs
      /\ Len(t) = Len(s) - 1 /\ \A i \in 1 .. Len(t) : t[i] = s[i + 1]
  BY <1>1, TailIs
<1>3. ASSUME NEW x \in Elements(s) PROVE x = Head(s) \/ x \in Elements(t)
  <2>1. PICK i \in 1 .. Len(s) : x = s[i]
    BY <1>3, ElementsAre
  <2>2. CASE i # 1
    <3>1. i - 1 \in 1 .. Len(t) /\ (i - 1) + 1 = i
      BY <1>2, <2>1, <2>2
    <3>2. t[i - 1] = x
      BY <1>2, <2>1, <3>1
    <3> QED BY <1>2, <3>1, <3>2, ElementsAre
  <2> QED BY <1>2, <2>1, <2>2
<1>4. Head(s) \in Elements(s)
  BY <1>2, ElementsAre
<1>5. ASSUME NEW x \in Elements(t) PROVE x \in Elements(s)
  <2>1. PICK i \in 1 .. Len(t) : x = t[i]
    BY <1>2, <1>5, ElementsAre
  <2>2. i + 1 \in 1 .. Len(s) /\ x = s[i + 1]
    BY <1>2, <2>1
  <2> QED BY <2>2, ElementsAre
<1> QED BY <1>1, <1>2, <1>3, <1>4, <1>5

LEMMA EndInBlock ==
  ASSUME NEW b \in Blocks, b # Root, NEW s \in Seq(Txs), EndOf(s, b)
  PROVE  Elements(s) \subseteq Content(b)
<1>1. PICK k \in Nat : /\ Len(BlockTxs[b]) = k + Len(s)
                       /\ \A i \in 1 .. Len(s) : s[i] = BlockTxs[b][k + i]
  BY DEF EndOf
<1>2. \A i \in 1 .. Len(s) : k + i \in 1 .. Len(BlockTxs[b])
  BY <1>1
<1>3. Content(b) = {BlockTxs[b][i] : i \in 1 .. Len(BlockTxs[b])}
  BY BlockFacts
<1>4. ASSUME NEW x \in Elements(s) PROVE x \in Content(b)
  <2>1. PICK i \in 1 .. Len(s) : x = s[i]
    BY <1>4, ElementsAre
  <2> QED BY <1>1, <1>2, <1>3, <2>1
<1> QED BY <1>4
-----------------------------------------------------------------------------
(* remove with fRecursive: the roots, and the spenders of what is reached.   *)
LEMMA ReachedRoots ==
  ASSUME NEW pool, NEW roots, NEW t \in roots \cap pool PROVE t \in ReachedWithin(pool, roots)
BY DEF ReachedWithin

LEMMA ReachedClosed ==
  ASSUME NEW pool, NEW roots, NEW u \in ReachedWithin(pool, roots), NEW t \in Children(u) \cap pool
  PROVE  t \in ReachedWithin(pool, roots)
<1> SUFFICES ASSUME NEW S \in SUBSET pool, roots \cap pool \subseteq S,
                    \A x \in S : Children(x) \cap pool \subseteq S
             PROVE  t \in S
  BY DEF ReachedWithin
<1>1. u \in S
  BY DEF ReachedWithin
<1> QED BY <1>1

(* Nothing else: what holds of the roots and is handed to children holds of  *)
(* everything that is reached.                                               *)
LEMMA ReachedLeast ==
  ASSUME NEW pool, NEW roots, NEW S \in SUBSET pool, roots \cap pool \subseteq S,
         \A x \in S : \A t \in Children(x) \cap pool : t \in S
  PROVE  ReachedWithin(pool, roots) \subseteq S
BY DEF ReachedWithin

LEMMA ChildrenAre ==
  ASSUME NextTxExact, NEW u, NEW t
  PROVE  t \in Children(u) <=> t \in mapTx /\ \E o \in Inputs[t] : o \in Outputs(u)
<1>1. ASSUME t \in Children(u) PROVE t \in mapTx /\ \E o \in Inputs[t] : o \in Outputs(u)
  <2>1. PICK o \in Outputs(u) \cap DOMAIN mapNextTx : t = mapNextTx[o]
    BY <1>1 DEF Children
  <2> QED BY <2>1 DEF NextTxExact
<1>2. ASSUME t \in mapTx, NEW o \in Inputs[t], o \in Outputs(u) PROVE t \in Children(u)
  <2>1. o \in DOMAIN mapNextTx /\ mapNextTx[o] = t
    BY <1>2 DEF NextTxExact
  <2> QED BY <1>2, <2>1 DEF Children
<1> QED BY <1>1, <1>2

(* So who loses its input to such a removal is removed too.                  *)
LEMMA SpenderFollows ==
  ASSUME NextTxExact, NEW pool, NEW roots, NEW t \in mapTx, t \in pool,
         NEW o \in Inputs[t], o \in Outputs(o[1]), o[1] \in ReachedWithin(pool, roots)
  PROVE  t \in ReachedWithin(pool, roots)
<1>1. t \in Children(o[1])
  BY ChildrenAre
<1> QED BY <1>1, ReachedClosed

(* The conflicts that removeForBlock looks up by mapNextTx are all there are. *)
LEMMA ConflictFound ==
  ASSUME NextTxExact, NEW h, NEW t \in mapTx, t # h, NEW o \in Inputs[t], o \in Inputs[h]
  PROVE  t \in Conflicts(h)
<1>1. o \in DOMAIN mapNextTx /\ mapNextTx[o] = t
  BY DEF NextTxExact
<1> QED BY <1>1, ReachedRoots DEF Conflicts
-----------------------------------------------------------------------------
(* The inductive invariant of the pool and the chain.  A repair works off    *)
(* the end of a block: of the one that comes, whose transactions may still   *)
(* be in the pool or conflict with it; or of the one that goes, whose        *)
(* transactions still feed the pool and fit it.                              *)
Todo == Elements(job.todo)
MaturedAt(o, c) == o[1] \in Coinbases => Height[c] + 1 - CoinHeight(o[1], c) >= Maturity
Settled == job.phase \in {"free", "relay"}

Place ==
  /\ Settled => job.todo = <<>> /\ coins = tip
  /\ job.phase = "connect" => coins # Root /\ tip = Parent[coins] /\ EndOf(job.todo, coins)
  /\ job.phase = "disconnect" => tip # Root /\ coins = Parent[tip] /\ EndOf(job.todo, tip)
Unconfirmed == \A t \in mapTx : t \in Confirmed[coins] => job.phase = "connect" /\ t \in Todo
Supplied == \A t \in mapTx : \A o \in Inputs[t] :
  \/ o \in Unspent[coins]
  \/ FromPool(o, mapTx)
  \/ job.phase = "connect" /\ \E s \in Todo : o \in Inputs[s]
  \/ job.phase = "disconnect" /\ FromPool(o, Todo)
AllMature == job.phase # "disconnect" => \A t \in mapTx : \A o \in Inputs[t] : MaturedAt(o, coins)
NoConflict == job.phase = "connect" =>
  \A s \in Confirmed[coins] \ Todo : \A t \in mapTx : Inputs[s] \cap Inputs[t] = {}
ToComeBack == job.phase = "disconnect" =>
  \A s \in Todo : s \notin mapTx /\ \A t \in mapTx : Inputs[s] \cap Inputs[t] = {}

PoolInv == Place /\ Unconfirmed /\ Supplied /\ AllMature /\ NoConflict /\ ToComeBack

LEMMA NothingToDo == job.todo = <<>> => Todo = {}
BY DEF Todo, Elements

LEMMA SettledFacts ==
  ASSUME TypeOK, PoolInv, Settled
  PROVE  /\ coins = tip /\ coins \in Blocks /\ Todo = {}
         /\ \A t \in mapTx : /\ t \notin Confirmed[coins] /\ t \notin Coinbases /\ t \in Txs
                             /\ \A o \in Inputs[t] : /\ o \in Unspent[coins] \/ FromPool(o, mapTx)
                                                     /\ MaturedAt(o, coins)
<1>1. job.phase # "connect" /\ job.phase # "disconnect"
  BY DEF Settled
<1>2. coins = tip /\ Todo = {} /\ coins \in Blocks
  BY NothingToDo DEF PoolInv, Place, TypeOK
<1>3. ASSUME NEW t \in mapTx PROVE t \notin Confirmed[coins] /\ t \notin Coinbases /\ t \in Txs
  BY <1>1, <1>3 DEF PoolInv, Unconfirmed, TypeOK
<1>4. ASSUME NEW t \in mapTx, NEW o \in Inputs[t]
      PROVE (o \in Unspent[coins] \/ FromPool(o, mapTx)) /\ MaturedAt(o, coins)
  BY <1>1, <1>4 DEF PoolInv, Supplied, AllMature
<1> QED BY <1>2, <1>3, <1>4

(* Nothing in the chain spends what the pool spends.                         *)
LEMMA SettledNoConflict ==
  ASSUME TypeOK, PoolInv, Settled, NEW s \in Confirmed[coins], NEW t \in mapTx
  PROVE  Inputs[s] \cap Inputs[t] = {}
<1> SUFFICES ASSUME NEW o \in Inputs[s], o \in Inputs[t] PROVE FALSE
  OBVIOUS
<1>1. coins \in Blocks /\ (o \in Unspent[coins] \/ FromPool(o, mapTx))
  BY SettledFacts
<1>2. CASE o \in Unspent[coins]
  BY <1>1, <1>2, UnspentIs
<1>3. CASE FromPool(o, mapTx)
  <2>1. FromPool(o, Confirmed[coins])
    BY <1>1, SpentIsMade DEF SpendsMade
  <2>2. o[1] \in mapTx /\ o[1] \in Confirmed[coins]
    BY <1>3, <2>1 DEF FromPool
  <2> QED BY <2>2, SettledFacts
<1> QED BY <1>1, <1>2, <1>3

LEMMA SettledIs ==
  ASSUME Settled', job'.todo = <<>>, coins' = tip', Unconfirmed', Supplied', AllMature'
  PROVE  PoolInv'
<1>1. job'.phase # "connect" /\ job'.phase # "disconnect"
  BY DEF Settled
<1> QED BY <1>1 DEF PoolInv, Place, NoConflict, ToComeBack

LEMMA SettledSame ==
  ASSUME TypeOK, PoolInv, Settled, Settled', job'.todo = <<>>, UNCHANGED <<mapTx, coins, tip>>
  PROVE  PoolInv'
<1>1. Unconfirmed' /\ Supplied' /\ AllMature'
  BY SettledFacts DEF Unconfirmed, Supplied, AllMature
<1> QED BY <1>1, SettledFacts, SettledIs

(* AcceptToMemoryPool: a confirmed transaction never fits, since it has an    *)
(* input.                                                                    *)
LEMMA FitsIsNew ==
  ASSUME TypeOK, PoolInv, Settled, NEW t \in Txs, Fits(t)
  PROVE  t \notin Confirmed[coins]
<1> SUFFICES ASSUME t \in Confirmed[coins] PROVE FALSE
  OBVIOUS
<1>1. t \notin Coinbases /\ HaveInputs(t, mapTx, coins) /\ coins \in Blocks
  BY SettledFacts DEF Fits, Candidate, CheckInputs
<1>2. PICK o : o \in Inputs[t]
  BY <1>1, MempoolAssumption
<1>3. o \in Unspent[coins] \/ FromPool(o, mapTx)
  BY <1>1, <1>2 DEF HaveInputs, FromPool
<1>4. CASE o \in Unspent[coins]
  BY <1>1, <1>2, <1>4, UnspentIs
<1>5. CASE FromPool(o, mapTx)
  <2>1. FromPool(o, Confirmed[coins])
    BY <1>1, <1>2, SpentIsMade DEF SpendsMade
  <2>2. o[1] \in mapTx /\ o[1] \in Confirmed[coins]
    BY <1>5, <2>1 DEF FromPool
  <2> QED BY <2>2, SettledFacts
<1> QED BY <1>3, <1>4, <1>5

LEMMA NotFromPool ==
  ASSUME NEW o, NEW pool, NEW c, o[1] \notin pool
  PROVE  Age(o, pool, c) = Height[c] + 1 - CoinHeight(o[1], c)
BY DEF Age

LEMMA FitsIsMature ==
  ASSUME TypeOK, NEW t, Fits(t), NEW o \in Inputs[t]
  PROVE  MaturedAt(o, coins)
<1> SUFFICES ASSUME o[1] \in Coinbases PROVE Height[coins] + 1 - CoinHeight(o[1], coins) >= Maturity
  BY DEF MaturedAt
<1>1. o[1] \notin mapTx
  BY DEF TypeOK
<1>2. Age(o, mapTx, coins) >= Maturity
  BY DEF Fits, CheckInputs, Matured
<1> QED BY <1>1, <1>2, NotFromPool

LEMMA AddSettled ==
  ASSUME TypeOK, PoolInv, Settled, Settled', job'.todo = <<>>, UNCHANGED <<coins, tip>>,
         NEW t \in Txs, Fits(t), addUnchecked(t)
  PROVE  PoolInv'
<1>1. mapTx' = mapTx \cup {t}
  BY DEF addUnchecked
<1>2. Unconfirmed'
  BY <1>1, SettledFacts, FitsIsNew DEF Unconfirmed
<1>3. \A o \in Inputs[t] : o \in Unspent[coins] \/ FromPool(o, mapTx)
  BY DEF Fits, CheckInputs, HaveInputs, FromPool
<1>4. \A o : FromPool(o, mapTx) => FromPool(o, mapTx')
  BY <1>1 DEF FromPool
<1>5. Supplied'
  BY <1>1, <1>3, <1>4, SettledFacts DEF Supplied
<1>6. AllMature'
  <2>1. ASSUME NEW u \in mapTx', NEW o \in Inputs[u] PROVE MaturedAt(o, coins)
    BY <1>1, <2>1, SettledFacts, FitsIsMature
  <2> QED BY <2>1 DEF AllMature
<1> QED BY <1>2, <1>5, <1>6, SettledFacts, SettledIs
-----------------------------------------------------------------------------
(* A block comes.                                                            *)
LEMMA JobIs ==
  /\ Free.phase = "free" /\ Free.todo = <<>>
  /\ \A phase, b : Job(phase, b).phase = phase /\ Job(phase, b).todo = BlockTxs[b]
BY DEF Free, Job

LEMMA FreeIsSettled == job = Free => Settled /\ job.phase # "relay"
BY JobIs DEF Settled

LEMMA MaturedNext ==
  ASSUME NEW b \in Blocks, b # Root, NEW o, o[1] \in Confirmed[Parent[b]], MaturedAt(o, Parent[b])
  PROVE  MaturedAt(o, b)
<1>1. PICK n \in Nat : n = CoinHeight(o[1], b) /\ n = CoinHeight(o[1], Parent[b])
  BY CoinHeightKept
<1>2. PICK h \in Nat : h = Height[Parent[b]] /\ Height[b] = h + 1
  BY ParentFacts, MempoolAssumption
<1> QED BY <1>1, <1>2, MempoolAssumption DEF MaturedAt

LEMMA ConnectKeeps ==
  ASSUME TypeOK, PoolInv, ConnectTip
  PROVE  PoolInv'
<1>1. PICK b \in Blocks :
        /\ b # Root /\ job = Free /\ Parent[b] = tip /\ coins' = b /\ tip' = tip /\ mapTx' = mapTx
        /\ job' = Job("connect", b)
  BY DEF ConnectTip, poolVars
<1>2. /\ Settled /\ job'.phase = "connect" /\ job'.todo = BlockTxs[b]
      /\ job'.phase # "disconnect" /\ job'.phase # "free" /\ job'.phase # "relay"
  BY <1>1, FreeIsSettled, JobIs
<1>3. PICK P \in Blocks : P = Parent[b] /\ coins = P /\ tip = P /\ Confirmed[b] = Confirmed[P] \cup Content(b)
  BY <1>1, <1>2, SettledFacts, ParentFacts, ConfirmedStep
<1>4. Todo' = Content(b) /\ EndOf(BlockTxs[b], b)
  BY <1>1, <1>2, WholeBlock DEF Todo
<1>5. Place'
  BY <1>1, <1>2, <1>3, <1>4 DEF Place, Settled
<1>6. Unconfirmed'
  BY <1>1, <1>2, <1>3, <1>4, SettledFacts DEF Unconfirmed
<1>7. ASSUME NEW o, o \in Unspent[P]
      PROVE o \in Unspent[b] \/ \E s \in Content(b) : o \in Inputs[s]
  BY <1>1, <1>3, <1>7, UnspentIs
<1>8. Supplied'
  <2>1. ASSUME NEW t \in mapTx, NEW o \in Inputs[t]
        PROVE  o \in Unspent[b] \/ FromPool(o, mapTx) \/ \E s \in Content(b) : o \in Inputs[s]
    BY <1>2, <1>3, <1>7, <2>1, SettledFacts
  <2>2. ASSUME NEW t \in mapTx', NEW o \in Inputs[t]
        PROVE  o \in Unspent[b] \/ FromPool(o, mapTx') \/ \E s \in Todo' : o \in Inputs[s]
    BY <1>1, <1>4, <2>1, <2>2
  <2> QED BY <1>1, <1>2, <2>2 DEF Supplied
<1>9. AllMature'
  <2>1. ASSUME NEW t \in mapTx, NEW o \in Inputs[t], o[1] \in Coinbases PROVE MaturedAt(o, b)
    <3>1. o[1] \notin mapTx
      BY <2>1 DEF TypeOK
    <3>2. o \in Unspent[P] /\ MaturedAt(o, P)
      BY <1>2, <1>3, <2>1, <3>1, SettledFacts DEF FromPool
    <3>3. o[1] \in Confirmed[P]
      BY <3>2, UnspentIs
    <3> QED BY <1>1, <1>3, <3>2, <3>3, MaturedNext
  <2>2. \A t \in mapTx : \A o \in Inputs[t] : MaturedAt(o, b)
    BY <2>1 DEF MaturedAt
  <2> QED BY <1>1, <2>2 DEF AllMature, MaturedAt
<1>10. NoConflict'
  <2>1. ASSUME NEW s \in Confirmed[b] \ Content(b), NEW t \in mapTx
        PROVE  Inputs[s] \cap Inputs[t] = {}
    BY <1>2, <1>3, <2>1, SettledNoConflict
  <2> QED BY <1>1, <1>4, <2>1 DEF NoConflict
<1>11. ToComeBack'
  BY <1>2 DEF ToComeBack
<1> QED BY <1>5, <1>6, <1>8, <1>9, <1>10, <1>11 DEF PoolInv

(* One transaction of the rest of a block: its place, and who comes after.   *)
After(b, i) == {BlockTxs[b][j] : j \in i + 1 .. Len(BlockTxs[b])}

LEMMA OneOfTheRest ==
  ASSUME TypeOK, job.todo # <<>>, NEW b \in Blocks, b # Root, EndOf(job.todo, b),
         job' = [job EXCEPT !.todo = Tail(@)]
  PROVE  /\ EndOf(job'.todo, b) /\ job'.phase = job.phase
         /\ Head(job.todo) \in Txs /\ Todo = {Head(job.todo)} \cup Todo'
         /\ \E i \in 1 .. Len(BlockTxs[b]) : Head(job.todo) = BlockTxs[b][i] /\ Todo' = After(b, i)
<1>1. PICK s \in Seq(Txs) : s = job.todo /\ s # <<>>
  BY DEF TypeOK
<1>2. job'.todo = Tail(s) /\ job'.phase = job.phase
  BY <1>1 DEF TypeOK
<1>3. Elements(s) = {Head(s)} \cup Elements(Tail(s)) /\ Head(s) \in Txs
  BY <1>1, HeadAndTail
<1>4. EndOf(Tail(s), b)
      /\ \E i \in 1 .. Len(BlockTxs[b]) : Head(s) = BlockTxs[b][i] /\ Elements(Tail(s)) = After(b, i)
  BY <1>1, EndFacts DEF After
<1>5. Todo = Elements(s) /\ Todo' = Elements(Tail(s))
  BY <1>1, <1>2 DEF Todo
<1> QED BY <1>1, <1>2, <1>3, <1>4, <1>5

LEMMA RestFacts ==
  ASSUME TypeOK, PoolInv, job.phase = "connect"
  PROVE  /\ coins \in Blocks /\ coins # Root /\ tip = Parent[coins] /\ EndOf(job.todo, coins)
         /\ Todo \subseteq Content(coins) /\ Content(coins) \subseteq Confirmed[coins]
<1>1. coins \in Blocks /\ coins # Root /\ tip = Parent[coins] /\ EndOf(job.todo, coins)
  BY DEF PoolInv, Place, TypeOK
<1>2. job.todo \in Seq(Txs)
  BY DEF TypeOK
<1> QED BY <1>1, <1>2, EndInBlock, ConfirmedStep DEF Todo

(* Without h, what it feeds is fed by the chain.                             *)
LEMMA FedWithoutHead ==
  ASSUME TypeOK, NextTxExact, PoolInv, job.phase = "connect", NEW h, NEW rest, Todo = {h} \cup rest,
         NEW t \in mapTx, t # h, t \notin Conflicts(h), NEW o \in Inputs[t]
  PROVE  \/ o \in Unspent[coins]
         \/ FromPool(o, mapTx \ ({h} \cup Conflicts(h)))
         \/ \E s \in rest : o \in Inputs[s]
<1>1. o \in Unspent[coins] \/ FromPool(o, mapTx) \/ \E s \in Todo : o \in Inputs[s]
  BY DEF PoolInv, Supplied
<1>2. o \notin Inputs[h]
  BY ConflictFound
<1>3. ASSUME FromPool(o, mapTx), o[1] \in Conflicts(h) PROVE FALSE
  <2>1. o \in Outputs(o[1])
    BY <1>3 DEF FromPool
  <2> QED BY <1>3, <2>1, SpenderFollows DEF Conflicts
<1>4. ASSUME FromPool(o, mapTx), o[1] = h
      PROVE  o \in Unspent[coins] \/ \E s \in rest : o \in Inputs[s]
  <2>1. h \in Confirmed[coins] /\ coins \in Blocks
    BY RestFacts
  <2>2. o[1] \in Confirmed[coins] /\ o \in Outputs(o[1])
    BY <1>4, <2>1 DEF FromPool
  <2>3. ASSUME NEW s \in Confirmed[coins], o \in Inputs[s] PROVE s \in rest
    <3>1. s \in Todo
      BY <2>3 DEF PoolInv, NoConflict
    <3> QED BY <1>2, <2>3, <3>1
  <2> QED BY <2>1, <2>2, <2>3, UnspentIs
<1> QED BY <1>1, <1>2, <1>3, <1>4 DEF FromPool

LEMMA RemoveKeeps ==
  ASSUME TypeOK, NextTxExact, PoolInv, RemoveForBlock
  PROVE  PoolInv'
<1>1. PICK h : h = Head(job.todo)
  OBVIOUS
<1>2. /\ job.phase = "connect" /\ job.todo # <<>> /\ coins' = coins /\ tip' = tip
      /\ Erase(Included(h) \cup Conflicts(h)) /\ job' = [job EXCEPT !.todo = Tail(@)]
  BY <1>1 DEF RemoveForBlock
<1>3. mapTx' = mapTx \ ({h} \cup Conflicts(h))
  BY <1>2 DEF Erase, Included
<1>4. EndOf(job'.todo, coins) /\ job'.phase = job.phase /\ Todo = {h} \cup Todo'
  BY <1>1, <1>2, RestFacts, OneOfTheRest
<1>5. Place'
  BY <1>2, <1>4, RestFacts DEF Place, Settled
<1>6. Unconfirmed'
  BY <1>2, <1>3, <1>4 DEF PoolInv, Unconfirmed
<1>7. Supplied'
  <2>1. PICK rest : rest = Todo'
    OBVIOUS
  <2>2. ASSUME NEW t \in mapTx', NEW o \in Inputs[t]
        PROVE  o \in Unspent[coins] \/ FromPool(o, mapTx') \/ \E s \in Todo' : o \in Inputs[s]
    BY <1>2, <1>3, <1>4, <2>1, <2>2, FedWithoutHead
  <2> QED BY <1>2, <1>4, <2>2 DEF Supplied
<1>8. AllMature'
  BY <1>2, <1>3, <1>4 DEF PoolInv, AllMature
<1>9. NoConflict'
  <2>1. ASSUME NEW s \in Confirmed[coins] \ Todo', NEW t \in mapTx', NEW o \in Inputs[s], o \in Inputs[t]
        PROVE  FALSE
    <3>1. t \in mapTx /\ t # h /\ t \notin Conflicts(h)
      BY <1>3, <2>1
    <3>2. s # h
      BY <2>1, <3>1, ConflictFound
    <3> QED BY <1>2, <1>4, <2>1, <3>1, <3>2 DEF PoolInv, NoConflict
  <2> QED BY <1>2, <2>1 DEF NoConflict
<1>10. ToComeBack'
  BY <1>2, <1>4 DEF ToComeBack
<1> QED BY <1>5, <1>6, <1>7, <1>8, <1>9, <1>10 DEF PoolInv

LEMMA ConnectedKeeps ==
  ASSUME TypeOK, PoolInv, Connected
  PROVE  PoolInv'
<1>1. /\ job.phase = "connect" /\ job.todo = <<>> /\ tip' = coins /\ coins' = coins /\ mapTx' = mapTx
      /\ job' = Free
  BY DEF Connected, poolVars
<1>2. Todo = {} /\ Settled' /\ job'.todo = <<>> /\ job.phase # "disconnect"
  BY <1>1, NothingToDo, JobIs DEF Settled
<1>3. Unconfirmed' /\ Supplied' /\ AllMature'
  BY <1>1, <1>2 DEF PoolInv, Unconfirmed, Supplied, AllMature
<1> QED BY <1>1, <1>2, <1>3, SettledIs
-----------------------------------------------------------------------------
(* A block goes.                                                             *)
LEMMA DisconnectKeeps ==
  ASSUME TypeOK, PoolInv, DisconnectTip
  PROVE  PoolInv'
<1>1. PICK b \in Blocks : b = tip
  BY DEF TypeOK
<1>2. /\ job = Free /\ b # Root /\ coins' = Parent[b] /\ tip' = tip /\ mapTx' = mapTx
      /\ job' = Job("disconnect", b)
  BY <1>1 DEF DisconnectTip, poolVars
<1>3. /\ Settled /\ job'.phase = "disconnect" /\ job'.todo = BlockTxs[b]
      /\ job'.phase # "connect" /\ job'.phase # "free" /\ job'.phase # "relay"
  BY <1>2, FreeIsSettled, JobIs
<1>4. PICK P \in Blocks : P = Parent[b] /\ coins = b /\ Confirmed[b] = Confirmed[P] \cup Content(b)
  BY <1>1, <1>2, <1>3, SettledFacts, ParentFacts, ConfirmedStep
<1>5. Todo' = Content(b) /\ EndOf(BlockTxs[b], b)
  BY <1>2, <1>3, WholeBlock DEF Todo
<1>6. Place'
  BY <1>1, <1>2, <1>3, <1>5 DEF Place, Settled
<1>7. Unconfirmed'
  BY <1>2, <1>3, <1>4, SettledFacts DEF Unconfirmed
<1>8. ASSUME NEW o, o \in Unspent[b] PROVE o \in Unspent[P] \/ FromPool(o, Content(b))
  BY <1>4, <1>8, UnspentIs DEF FromPool
<1>9. Supplied'
  <2>1. ASSUME NEW t \in mapTx', NEW o \in Inputs[t]
        PROVE  o \in Unspent[P] \/ FromPool(o, mapTx') \/ FromPool(o, Todo')
    BY <1>2, <1>3, <1>4, <1>5, <1>8, <2>1, SettledFacts
  <2> QED BY <1>2, <1>3, <1>4, <2>1 DEF Supplied
<1>10. AllMature' /\ NoConflict'
  BY <1>3 DEF AllMature, NoConflict
<1>11. ToComeBack'
  <2>1. ASSUME NEW s \in Content(b) PROVE s \notin mapTx /\ \A t \in mapTx : Inputs[s] \cap Inputs[t] = {}
    BY <1>3, <1>4, <2>1, SettledFacts, SettledNoConflict
  <2> QED BY <1>2, <1>5, <2>1 DEF ToComeBack
<1> QED BY <1>6, <1>7, <1>9, <1>10, <1>11 DEF PoolInv

LEMMA BackFacts ==
  ASSUME TypeOK, PoolInv, job.phase = "disconnect"
  PROVE  /\ tip \in Blocks /\ tip # Root /\ coins = Parent[tip] /\ coins \in Blocks
         /\ EndOf(job.todo, tip) /\ job.todo \in Seq(Txs) /\ Todo \subseteq Content(tip)
         /\ Content(tip) \cap Confirmed[coins] = {}
         /\ \A t \in mapTx : t \notin Confirmed[coins]
         /\ \A t \in mapTx : \A o \in Inputs[t] :
              o \in Unspent[coins] \/ FromPool(o, mapTx) \/ FromPool(o, Todo)
<1>1. tip \in Blocks /\ tip # Root /\ coins = Parent[tip] /\ EndOf(job.todo, tip)
  BY DEF PoolInv, Place, TypeOK
<1>2. job.todo \in Seq(Txs) /\ coins \in Blocks
  BY DEF TypeOK
<1>3. \A t \in mapTx : t \notin Confirmed[coins]
  BY DEF PoolInv, Unconfirmed
<1>4. \A t \in mapTx : \A o \in Inputs[t] :
         o \in Unspent[coins] \/ FromPool(o, mapTx) \/ FromPool(o, Todo)
  BY DEF PoolInv, Supplied
<1> QED BY <1>1, <1>2, <1>3, <1>4, EndInBlock, BlockFacts DEF Todo

LEMMA AfterDiffers ==
  ASSUME NEW b \in Blocks, b # Root, NEW i \in 1 .. Len(BlockTxs[b]), NEW s \in After(b, i)
  PROVE  s # BlockTxs[b][i] /\ Inputs[s] \cap Inputs[BlockTxs[b][i]] = {}
<1>1. PICK j \in i + 1 .. Len(BlockTxs[b]) : s = BlockTxs[b][j]
  BY DEF After
<1>2. j \in 1 .. Len(BlockTxs[b]) /\ i \in 1 .. j - 1
  BY <1>1, BlockFacts
<1> QED BY <1>1, <1>2, BlockDiffers

(* What is left of the pool when h does not come back.                       *)
LEMMA FedWithoutReturn ==
  ASSUME TypeOK, NextTxExact, PoolInv, job.phase = "disconnect",
         NEW h, h \notin mapTx, NEW rest, Todo = {h} \cup rest,
         NEW t \in mapTx, t \notin Recursive(h), NEW o \in Inputs[t]
  PROVE  o \in Unspent[coins] \/ FromPool(o, mapTx \ Recursive(h)) \/ FromPool(o, rest)
<1>1. Recursive(h) = ReachedWithin(mapTx, Children(h))
  BY DEF Recursive
<1>2. o \in Unspent[coins] \/ FromPool(o, mapTx) \/ FromPool(o, Todo)
  BY BackFacts
<1>3. ASSUME FromPool(o, mapTx), o[1] \in Recursive(h) PROVE FALSE
  <2>1. o \in Outputs(o[1])
    BY <1>3 DEF FromPool
  <2> QED BY <1>1, <1>3, <2>1, SpenderFollows
<1>4. ASSUME FromPool(o, Todo), o[1] = h PROVE FALSE
  <2>1. t \in Children(h)
    BY <1>4, ChildrenAre DEF FromPool
  <2> QED BY <1>1, <2>1, ReachedRoots
<1> QED BY <1>2, <1>3, <1>4 DEF FromPool

LEMMA ResurrectKeeps ==
  ASSUME TypeOK, NextTxExact, PoolInv, Resurrect
  PROVE  PoolInv'
<1>1. PICK h, b : h = Head(job.todo) /\ b = tip
  OBVIOUS
<1>2. /\ job.phase = "disconnect" /\ job.todo # <<>> /\ coins' = coins /\ tip' = tip
      /\ (Fits(h) /\ addUnchecked(h)) \/ Erase(Recursive(h))
      /\ job' = [job EXCEPT !.todo = Tail(@)]
  BY <1>1 DEF Resurrect
<1>3. b \in Blocks /\ b # Root /\ coins = Parent[b] /\ EndOf(job.todo, b)
  BY <1>1, <1>2, BackFacts
<1>4. PICK i \in 1 .. Len(BlockTxs[b]) : h = BlockTxs[b][i] /\ Todo' = After(b, i)
  BY <1>1, <1>2, <1>3, OneOfTheRest
<1>5. /\ EndOf(job'.todo, b) /\ job'.phase = job.phase /\ Todo = {h} \cup Todo' /\ h \in Todo
      /\ job'.phase # "connect" /\ job'.phase # "free" /\ job'.phase # "relay"
  BY <1>1, <1>2, <1>3, OneOfTheRest
<1>6. Place' /\ AllMature' /\ NoConflict'
  BY <1>1, <1>2, <1>3, <1>5 DEF Place, Settled, AllMature, NoConflict
<1>7. h \notin mapTx /\ h \notin Confirmed[coins]
      /\ \A s \in Todo : s \notin mapTx /\ \A t \in mapTx : Inputs[s] \cap Inputs[t] = {}
  <2>1. \A s \in Todo : s \notin mapTx /\ \A t \in mapTx : Inputs[s] \cap Inputs[t] = {}
    BY <1>2 DEF PoolInv, ToComeBack
  <2> QED BY <1>2, <1>5, <2>1, BackFacts
<1>8. CASE Fits(h) /\ addUnchecked(h)
  <2>1. mapTx' = mapTx \cup {h}
    BY <1>8 DEF addUnchecked
  <2>2. Unconfirmed'
    BY <1>2, <1>7, <2>1, BackFacts DEF Unconfirmed
  <2>3. \A o \in Inputs[h] : o \in Unspent[coins] \/ FromPool(o, mapTx)
    BY <1>8 DEF Fits, CheckInputs, HaveInputs, FromPool
  <2>4. Supplied'
    <3>1. ASSUME NEW t \in mapTx', NEW o \in Inputs[t]
          PROVE  o \in Unspent[coins] \/ FromPool(o, mapTx') \/ FromPool(o, Todo')
      <4>1. o \in Unspent[coins] \/ FromPool(o, mapTx) \/ FromPool(o, Todo)
        BY <1>2, <2>1, <2>3, <3>1, BackFacts
      <4> QED BY <1>5, <2>1, <4>1 DEF FromPool
    <3> QED BY <1>2, <1>5, <3>1 DEF Supplied
  <2>5. ToComeBack'
    <3>1. ASSUME NEW s \in Todo', NEW t \in mapTx'
          PROVE  s # h /\ s \notin mapTx /\ Inputs[s] \cap Inputs[t] = {}
      <4>1. s # h /\ Inputs[s] \cap Inputs[h] = {}
        BY <1>3, <1>4, <3>1, AfterDiffers
      <4> QED BY <1>5, <1>7, <2>1, <3>1, <4>1
    <3> QED BY <2>1, <3>1 DEF ToComeBack
  <2> QED BY <1>6, <2>2, <2>4, <2>5 DEF PoolInv
<1>9. CASE Erase(Recursive(h))
  <2>1. mapTx' = mapTx \ Recursive(h)
    BY <1>9 DEF Erase
  <2>2. Unconfirmed'
    BY <1>2, <2>1, BackFacts DEF Unconfirmed
  <2>3. Supplied'
    <3>1. PICK rest : rest = Todo'
      OBVIOUS
    <3>2. ASSUME NEW t \in mapTx', NEW o \in Inputs[t]
          PROVE  o \in Unspent[coins] \/ FromPool(o, mapTx') \/ FromPool(o, Todo')
      BY <1>2, <1>5, <1>7, <2>1, <3>1, <3>2, FedWithoutReturn
    <3> QED BY <1>2, <1>5, <3>2 DEF Supplied
  <2>4. ToComeBack'
    BY <1>5, <1>7, <2>1 DEF ToComeBack
  <2> QED BY <1>6, <2>2, <2>3, <2>4 DEF PoolInv
<1> QED BY <1>2, <1>8, <1>9

LEMMA StaysMature ==
  ASSUME TypeOK, PoolInv, job.phase = "disconnect", job.todo = <<>>,
         NEW t \in mapTx, t \notin Immature, NEW o \in Inputs[t]
  PROVE  MaturedAt(o, coins)
<1> SUFFICES ASSUME o[1] \in Coinbases PROVE Height[coins] + 1 - CoinHeight(o[1], coins) >= Maturity
  BY DEF MaturedAt
<1>1. o[1] \notin mapTx /\ coins \in Blocks
  BY DEF TypeOK
<1>2. o \in Unspent[coins]
  BY <1>1, BackFacts, NothingToDo DEF FromPool
<1>3. PICK n \in Nat : n = CoinHeight(o[1], coins)
  BY <1>1, <1>2, UnspentIs, CoinHeightType
<1>4. ~(Height[tip] - n < Maturity)
  BY <1>1, <1>3 DEF Immature
<1>5. PICK h \in Nat : h = Height[coins] /\ Height[tip] = h + 1
  BY <1>1, BackFacts, ParentFacts, MempoolAssumption
<1>6. Maturity \in Nat
  BY MempoolAssumption
<1> QED BY <1>3, <1>4, <1>5, <1>6

LEMMA DisconnectedKeeps ==
  ASSUME TypeOK, NextTxExact, PoolInv, Disconnected
  PROVE  PoolInv'
<1>1. PICK E : E = ReachedWithin(mapTx, Immature)
  OBVIOUS
<1>2. /\ job.phase = "disconnect" /\ job.todo = <<>> /\ tip' = coins /\ coins' = coins
      /\ mapTx' = mapTx \ E /\ job' = Free
  BY <1>1 DEF Disconnected, Erase
<1>3. Todo = {} /\ Settled' /\ job'.todo = <<>>
  BY <1>2, NothingToDo, JobIs DEF Settled
<1>4. Unconfirmed'
  BY <1>2, BackFacts DEF Unconfirmed
<1>5. Supplied'
  <2>1. ASSUME NEW t \in mapTx', NEW o \in Inputs[t] PROVE o \in Unspent[coins] \/ FromPool(o, mapTx')
    <3>1. t \in mapTx /\ t \notin E
      BY <1>2, <2>1
    <3>2. o \in Unspent[coins] \/ FromPool(o, mapTx)
      BY <1>2, <1>3, <2>1, <3>1, BackFacts DEF FromPool
    <3>3. ASSUME FromPool(o, mapTx) PROVE o[1] \notin E
      BY <1>1, <2>1, <3>1, <3>3, SpenderFollows DEF FromPool
    <3> QED BY <1>2, <3>2, <3>3 DEF FromPool
  <2> QED BY <1>2, <2>1 DEF Supplied
<1>6. AllMature'
  <2>1. ASSUME NEW t \in mapTx', NEW o \in Inputs[t] PROVE MaturedAt(o, coins)
    <3>1. t \in mapTx /\ t \notin Immature
      BY <1>1, <1>2, <2>1, ReachedRoots
    <3> QED BY <1>2, <2>1, <3>1, StaysMature
  <2> QED BY <1>2, <2>1 DEF AllMature, MaturedAt
<1> QED BY <1>2, <1>3, <1>4, <1>5, <1>6, SettledIs
-----------------------------------------------------------------------------
(* Every step of pool, chain and relay keeps it.                             *)
LEMMA RelayPhase == [Free EXCEPT !.phase = "relay"] = [phase |-> "relay", todo |-> <<>>]
BY DEF Free

LEMMA PoolInvStep ==
  ASSUME RelayTypeOK, NextTxExact, PoolInv, [RelayNext]_allVars
  PROVE  PoolInv'
<1>0. TypeOK
  BY DEF RelayTypeOK
<1>1. CASE AcceptToMemoryPool
  <2>1. PICK t \in Txs : job = Free /\ Fits(t) /\ addUnchecked(t) /\ UNCHANGED <<coins, tip, job>>
    BY <1>1 DEF AcceptToMemoryPool
  <2>2. Settled /\ Settled' /\ job'.todo = <<>>
    BY <2>1, FreeIsSettled, JobIs DEF Settled
  <2> QED BY <1>0, <2>1, <2>2, AddSettled
<1>2. CASE ConnectTip
  BY <1>0, <1>2, ConnectKeeps
<1>3. CASE RemoveForBlock
  BY <1>0, <1>3, RemoveKeeps
<1>4. CASE Connected
  BY <1>0, <1>4, ConnectedKeeps
<1>5. CASE DisconnectTip
  BY <1>0, <1>5, DisconnectKeeps
<1>6. CASE Resurrect
  BY <1>0, <1>6, ResurrectKeeps
<1>7. CASE Disconnected
  BY <1>0, <1>7, DisconnectedKeeps
<1>8. CASE ReceiveTx
  <2>1. job = Free /\ UNCHANGED <<coins, tip>>
    BY <1>8 DEF ReceiveTx
  <2>2. Settled /\ job.todo = <<>>
    BY <2>1, FreeIsSettled, JobIs
  <2>3. CASE \E t \in Txs : Fits(t) /\ addUnchecked(t) /\ job' = [Free EXCEPT !.phase = "relay"]
    <3>1. PICK t \in Txs : Fits(t) /\ addUnchecked(t) /\ job' = [phase |-> "relay", todo |-> <<>>]
      BY <2>3, RelayPhase
    <3>2. Settled' /\ job'.todo = <<>>
      BY <3>1 DEF Settled
    <3> QED BY <1>0, <2>1, <2>2, <3>1, <3>2, AddSettled
  <2>4. CASE UNCHANGED <<poolVars, job>>
    <3>1. Settled' /\ job'.todo = <<>> /\ mapTx' = mapTx
      BY <2>2, <2>4 DEF Settled, poolVars
    <3> QED BY <1>0, <2>1, <2>2, <3>1, SettledSame
  <2> QED BY <1>8, <2>3, <2>4 DEF ReceiveTx
<1>9. CASE TryOrphan
  <2>1. PICK t \in handler.left :
          /\ job.phase = "relay"
          /\ SkipMisbehaving(t) \/ AcceptOrphan(t) \/ RejectOrphan(t) \/ KeepOrphan(t)
          /\ UNCHANGED <<coins, tip, job>>
    BY <1>9 DEF TryOrphan
  <2>2. Settled /\ Settled' /\ job'.todo = <<>>
    BY <2>1 DEF Settled, PoolInv, Place
  <2>3. CASE AcceptOrphan(t)
    <3>1. t \in Txs
      BY <2>1 DEF RelayTypeOK
    <3> QED BY <1>0, <2>1, <2>2, <2>3, <3>1, AddSettled DEF AcceptOrphan
  <2>4. CASE mapTx' = mapTx
    BY <1>0, <2>1, <2>2, <2>4, SettledSame
  <2> QED BY <2>1, <2>3, <2>4 DEF SkipMisbehaving, RejectOrphan, Rejected, KeepOrphan, poolVars
<1>10. CASE EraseQueue
  <2>1. job.phase = "relay" /\ job' = Free /\ UNCHANGED <<mapTx, coins, tip>>
    BY <1>10 DEF EraseQueue, poolVars
  <2>2. Settled /\ Settled' /\ job'.todo = <<>>
    BY <2>1, JobIs DEF Settled
  <2> QED BY <1>0, <2>1, <2>2, SettledSame
<1>11. CASE AskAlreadyHave \/ NextInWorkQueue \/ FinalizeNode \/ UNCHANGED allVars
  <2>1. UNCHANGED <<mapTx, coins, tip, job>>
    BY <1>11 DEF AskAlreadyHave, NextInWorkQueue, FinalizeNode, allVars, vars
  <2>2. Settled' = Settled /\ Todo' = Todo
    BY <2>1 DEF Settled, Todo
  <2> QED BY <2>1, <2>2 DEF PoolInv, Place, Unconfirmed, Supplied, AllMature, NoConflict, ToComeBack
<1> QED BY <1>1, <1>2, <1>3, <1>4, <1>5, <1>6, <1>7, <1>8, <1>9, <1>10, <1>11 DEF RelayNext, Next

LEMMA PoolInvariant == RelaySpec => [](RelayTypeOK /\ OrphanInv /\ NextTxExact /\ PoolInv)
<1>1. RelayInit => PoolInv
  <2> SUFFICES ASSUME RelayInit PROVE PoolInv
    OBVIOUS
  <2>1. mapTx = {} /\ coins = tip /\ job = Free
    BY DEF RelayInit, Init
  <2>2. job.phase = "free" /\ job.todo = <<>>
    BY <2>1, JobIs
  <2> QED BY <2>1, <2>2
      DEF PoolInv, Place, Settled, Unconfirmed, Supplied, AllMature, NoConflict, ToComeBack
<1>2. RelayTypeOK /\ OrphanInv /\ NextTxExact /\ PoolInv /\ [RelayNext]_allVars => PoolInv'
  BY PoolInvStep
<1> QED BY <1>1, <1>2, RelayInvariant, NextTxExactAlways, PTL DEF RelaySpec

(* Whenever the pool is looked at, each of its transactions has its inputs,   *)
(* in the chain or from the pool, is not confirmed and spends no immature    *)
(* coinbase: whatever came, went and conflicted before.                      *)
THEOREM PoolFitsChainAlways == RelaySpec => []PoolFitsChain
<1>1. RelayTypeOK /\ PoolInv => PoolFitsChain
  <2> SUFFICES ASSUME RelayTypeOK, PoolInv, job.todo = <<>>, NEW t \in mapTx
               PROVE  /\ HaveInputs(t, mapTx, coins) /\ t \notin Confirmed[coins]
                      /\ job.phase = "disconnect" \/ Matured(t, mapTx, coins)
    BY DEF PoolFitsChain
  <2>1. Todo = {} /\ TypeOK
    BY NothingToDo DEF RelayTypeOK
  <2>2. t \notin Confirmed[coins]
    BY <2>1 DEF PoolInv, Unconfirmed
  <2>3. \A o \in Inputs[t] : o \in Unspent[coins] \/ FromPool(o, mapTx)
    BY <2>1 DEF PoolInv, Supplied, FromPool
  <2>4. HaveInputs(t, mapTx, coins)
    BY <2>3 DEF HaveInputs, FromPool
  <2>5. ASSUME job.phase # "disconnect", NEW o \in Inputs[t], o[1] \in Coinbases
        PROVE  Age(o, mapTx, coins) >= Maturity
    <3>1. MaturedAt(o, coins) /\ o[1] \notin mapTx
      BY <2>1, <2>5 DEF PoolInv, AllMature, TypeOK
    <3> QED BY <2>5, <3>1, NotFromPool DEF MaturedAt
  <2> QED BY <2>2, <2>4, <2>5 DEF Matured
<1> QED BY <1>1, PoolInvariant, PTL
-----------------------------------------------------------------------------
(* What comes back from a block finds the inputs it had there: those from    *)
(* the chain below, and those that came back before it.                      *)
LEMMA EarlierFacts ==
  ASSUME NEW b \in Blocks, b # Root, NEW i \in 2 .. Len(BlockTxs[b])
  PROVE  Earlier(b, i) \cap Coinbases = {} /\ Earlier(b, i) \cap Confirmed[Parent[b]] = {}
<1>1. Len(BlockTxs[b]) \in Nat /\ Content(b) \cap Confirmed[Parent[b]] = {}
  BY BlockFacts
<1>2. i \in 1 .. Len(BlockTxs[b])
  BY <1>1
<1>3. Earlier(b, i) \subseteq Content(b)
  BY <1>2, EarlierInBlock
<1>4. ASSUME NEW j \in 2 .. i - 1 PROVE BlockTxs[b][j] \notin Coinbases
  <2>1. j \in 2 .. Len(BlockTxs[b])
    BY <1>1
  <2> QED BY <2>1, BlockTx
<1>5. Earlier(b, i) \cap Coinbases = {}
  BY <1>4 DEF Earlier
<1> QED BY <1>1, <1>3, <1>5

LEMMA SameInputs ==
  ASSUME NEW t, NEW c, NEW pool, NEW other,
         CheckInputs(t, other, c),
         \A o \in Inputs[t] : o[1] \in pool <=> o[1] \in other
  PROVE  CheckInputs(t, pool, c)
<1>1. HaveInputs(t, pool, c)
  BY DEF CheckInputs, HaveInputs
<1>2. \A o \in Inputs[t] : Age(o, pool, c) = Age(o, other, c)
  BY DEF Age
<1>3. Matured(t, pool, c)
  BY <1>2 DEF CheckInputs, Matured
<1>4. {o \in Inputs[t] : o[1] \notin pool} = {o \in Inputs[t] : o[1] \notin other}
  OBVIOUS
<1>5. Afforded(t, pool, c)
  BY <1>4 DEF CheckInputs, Afforded
<1> QED BY <1>1, <1>3, <1>5 DEF CheckInputs

LEMMA ComesBack ==
  ASSUME TypeOK, NextTxExact, PoolInv, job.phase = "disconnect",
         NEW i \in 2 .. Len(BlockTxs[tip]), NEW t \in Todo, t = BlockTxs[tip][i],
         \A o \in Inputs[t] : o[1] \in mapTx \cup Confirmed[coins]
  PROVE  Fits(t)
<1>1. PICK b \in Blocks : b = tip /\ b # Root /\ coins = Parent[b] /\ coins \in Blocks
  BY BackFacts
<1>2. /\ t \notin Coinbases /\ t \notin BadScript /\ Lock[t] < Height[b]
      /\ CheckInputs(t, Earlier(b, i), coins)
  BY <1>1, BlockTx
<1>3. t \notin mapTx /\ \A u \in mapTx : Inputs[t] \cap Inputs[u] = {}
  BY DEF PoolInv, ToComeBack
<1>4. Lock[t] < Height[tip] + 1
  <2>1. t \in Txs
    BY <1>1, BackFacts, BlockFacts
  <2>2. Lock[t] \in Nat /\ Height[b] \in Nat
    BY <2>1, MempoolAssumption
  <2> QED BY <1>1, <1>2, <2>2
<1>5. Inputs[t] \cap DOMAIN mapNextTx = {}
  BY <1>3 DEF NextTxExact
<1>6. ~HaveCoins(t)
  <2>1. t \notin Confirmed[coins]
    BY BackFacts
  <2>2. Outputs(t) \cap Unspent[coins] = {}
    BY <1>1, <2>1, UnspentIs, OutputsOf
  <2> QED BY <1>3, <2>2 DEF HaveCoins
<1>7. ASSUME NEW o \in Inputs[t] PROVE o[1] \in mapTx <=> o[1] \in Earlier(b, i)
  <2>1. o \in Unspent[coins] \/ o[1] \in Earlier(b, i)
    BY <1>2, <1>7 DEF CheckInputs, HaveInputs
  <2>2. o[1] \in Confirmed[coins] \/ o[1] \in Earlier(b, i)
    BY <1>1, <2>1, UnspentIs
  <2>3. o[1] \in mapTx => o[1] \notin Confirmed[coins]
    BY BackFacts
  <2>4. o[1] \in Earlier(b, i) => o[1] \notin Confirmed[coins]
    BY <1>1, EarlierFacts
  <2> QED BY <1>7, <2>2, <2>3, <2>4
<1>8. CheckInputs(t, mapTx, coins)
  BY <1>2, <1>7, SameInputs
<1> QED BY <1>2, <1>4, <1>5, <1>6, <1>8 DEF Fits, Candidate

(* DisconnectTip loses no transaction of the block on its own account: only   *)
(* policy can refuse one whose parents are confirmed or came back.           *)
THEOREM NothingButPolicyRefusesAlways == RelaySpec => []NothingButPolicyRefuses
<1>1. RelayTypeOK /\ NextTxExact /\ PoolInv => NothingButPolicyRefuses
  <2> SUFFICES ASSUME RelayTypeOK, NextTxExact, PoolInv, job.phase = "disconnect", job.todo # <<>>,
                      NEW t, t = Head(job.todo), t \notin Coinbases,
                      \A o \in Inputs[t] : o[1] \in mapTx \cup Confirmed[coins]
               PROVE  Fits(t)
    BY DEF NothingButPolicyRefuses
  <2>0. TypeOK
    BY DEF RelayTypeOK
  <2>1. tip \in Blocks /\ tip # Root /\ EndOf(job.todo, tip) /\ job.todo \in Seq(Txs)
    BY <2>0, BackFacts
  <2>2. PICK i \in 1 .. Len(BlockTxs[tip]) : t = BlockTxs[tip][i]
    BY <2>1, EndFacts
  <2>3. t \in Todo
    BY <2>1, HeadAndTail DEF Todo
  <2>4. i \in 2 .. Len(BlockTxs[tip])
    BY <2>1, <2>2, BlockFacts
  <2> QED BY <2>0, <2>2, <2>3, <2>4, ComesBack
<1> QED BY <1>1, PoolInvariant, PTL
-----------------------------------------------------------------------------
(* Who leaves the pool: nothing of the chain feeds it, nor what stays.       *)
Lost(t, c, kept) ==
  t \notin Confirmed[c] /\ \E o \in Inputs[t] : o \notin Unspent[c] /\ o[1] \notin kept

(* A child of something unconfirmed is unconfirmed too, and loses its input  *)
(* when that is removed.                                                     *)
LEMMA ReachedAreLost ==
  ASSUME NextTxExact, NEW c \in Blocks, NEW pool, NEW roots, NEW kept,
         kept \cap ReachedWithin(pool, roots) = {},
         \A t \in roots \cap pool : t \notin Confirmed[c],
         NEW t \in ReachedWithin(pool, roots)
  PROVE  t \in roots \/ Lost(t, c, kept)
<1> DEFINE S == {u \in ReachedWithin(pool, roots) :
                   u \notin Confirmed[c] /\ (u \in roots \/ Lost(u, c, kept))}
<1>1. S \in SUBSET pool
  BY ReachedInPool
<1>2. roots \cap pool \subseteq S
  BY ReachedRoots
<1>3. ASSUME NEW x \in S, NEW u \in Children(x) \cap pool PROVE u \in S
  <2>1. u \in ReachedWithin(pool, roots) /\ x \notin kept /\ x \notin Confirmed[c]
    BY <1>3, ReachedClosed
  <2>2. PICK o \in Inputs[u] : o \in Outputs(x) /\ o[1] = x
    BY <1>3, ChildrenAre, OutputsOf
  <2>3. o \notin Unspent[c]
    BY <2>1, <2>2, UnspentIs
  <2>4. u \notin Confirmed[c]
    BY <2>1, <2>2, SpentIsMade DEF SpendsMade, FromPool
  <2>5. Lost(u, c, kept)
    BY <2>1, <2>2, <2>3, <2>4 DEF Lost
  <2> QED BY <2>1, <2>4, <2>5
<1> HIDE DEF S
<1>4. t \in S
  BY <1>1, <1>2, <1>3, ReachedLeast
<1> QED BY <1>4 DEF S

LEMMA LostHasNoInputs ==
  ASSUME NEW t, NEW c, NEW kept, Lost(t, c, kept) PROVE ~HaveInputs(t, kept, c)
BY DEF Lost, HaveInputs

(* The blocks of a repair: those before h in its block are not in the pool.  *)
LEMMA HeadsMakersGone ==
  ASSUME TypeOK, PoolInv, job.phase = "connect",
         NEW i \in 1 .. Len(BlockTxs[coins]), NEW h, h = BlockTxs[coins][i],
         Todo = {h} \cup After(coins, i), NEW o \in Inputs[h]
  PROVE  o[1] \notin mapTx /\ o \notin Unspent[coins]
<1>1. PICK b \in Blocks : b = coins /\ b # Root /\ Confirmed[b] = Confirmed[Parent[b]] \cup Content(b)
  BY RestFacts, ConfirmedStep
<1>2. PICK P \in Blocks : P = Parent[b] /\ Content(b) \cap Confirmed[P] = {}
  BY <1>1, ParentFacts, BlockFacts
<1>3. o \in Unspent[P] \/ FromPool(o, Earlier(b, i))
  BY <1>1, <1>2, BlockSpends
<1>4. \A t \in mapTx : t \in Confirmed[b] => t \in Todo /\ t \in Content(b)
  BY <1>1, RestFacts DEF PoolInv, Unconfirmed
<1>5. CASE o \in Unspent[P]
  <2>1. o[1] \in Confirmed[P]
    BY <1>5, UnspentIs
  <2> QED BY <1>1, <1>2, <1>4, <2>1, RestFacts, UnspentIs
<1>6. CASE FromPool(o, Earlier(b, i))
  <2>1. PICK j \in 2 .. i - 1 : o[1] = BlockTxs[b][j]
    BY <1>6 DEF FromPool, Earlier
  <2>2. Len(BlockTxs[b]) \in Nat
    BY <1>1, BlockFacts
  <2>3. j \in 1 .. i - 1 /\ j \in 1 .. Len(BlockTxs[b]) /\ i \in 1 .. Len(BlockTxs[b])
    BY <1>1, <2>2
  <2>4. o[1] # h
    BY <1>1, <2>1, <2>3, BlockDiffers
  <2>5. o[1] \notin After(b, i)
    <3>1. ASSUME NEW k \in i + 1 .. Len(BlockTxs[b]) PROVE o[1] # BlockTxs[b][k]
      <4>1. k \in 1 .. Len(BlockTxs[b]) /\ j \in 1 .. k - 1
        BY <2>2, <2>3
      <4> QED BY <1>1, <2>1, <4>1, BlockDiffers
    <3> QED BY <3>1 DEF After
  <2>6. o[1] \in Confirmed[b]
    BY <1>1, <1>6, EarlierInBlock DEF FromPool
  <2> QED BY <1>1, <1>4, <2>4, <2>5, <2>6, RestFacts, UnspentIs
<1> QED BY <1>3, <1>5, <1>6

Cause(t) == \/ t \in Confirmed[coins]
            \/ ~ HaveInputs(t, mapTx', coins)
            \/ ~ Matured(t, mapTx', coins)

LEMMA RemoveHasCause ==
  ASSUME TypeOK, NextTxExact, PoolInv, RemoveForBlock, NEW t \in mapTx \ mapTx'
  PROVE  Cause(t)
<1>1. PICK h, b, kept : h = Head(job.todo) /\ b = coins /\ kept = mapTx'
  OBVIOUS
<1>2. /\ job.phase = "connect" /\ job.todo # <<>>
      /\ Erase(Included(h) \cup Conflicts(h)) /\ job' = [job EXCEPT !.todo = Tail(@)]
  BY <1>1 DEF RemoveForBlock
<1>3. kept = mapTx \ ({h} \cup Conflicts(h))
  BY <1>1, <1>2 DEF Erase, Included
<1>4. b \in Blocks /\ b # Root /\ EndOf(job.todo, b) /\ Content(b) \subseteq Confirmed[b] /\ Todo \subseteq Content(b)
  BY <1>1, <1>2, RestFacts
<1>5. PICK i \in 1 .. Len(BlockTxs[b]) :
        /\ h = BlockTxs[b][i] /\ Todo' = After(b, i) /\ Todo = {h} \cup Todo' /\ h \in Todo
  BY <1>1, <1>2, <1>4, OneOfTheRest
<1>6. \A o \in Inputs[h] : o[1] \notin mapTx /\ o \notin Unspent[b]
  BY <1>1, <1>2, <1>5, HeadsMakersGone
<1>7. CASE t = h
  BY <1>1, <1>4, <1>5, <1>7 DEF Cause
<1>8. CASE t # h
  <2>1. PICK roots : roots = {mapNextTx[o] : o \in Inputs[h] \cap DOMAIN mapNextTx}
    OBVIOUS
  <2>2. Conflicts(h) = ReachedWithin(mapTx \ {h}, roots)
    BY <2>1 DEF Conflicts
  <2>3. t \in ReachedWithin(mapTx \ {h}, roots)
    BY <1>1, <1>3, <1>8, <2>2
  <2>4. ASSUME NEW u \in roots \cap (mapTx \ {h}) PROVE Lost(u, b, kept)
    <3>1. PICK o \in Inputs[h] : o \in DOMAIN mapNextTx /\ u = mapNextTx[o]
      BY <2>1, <2>4
    <3>2. o \in Inputs[u]
      BY <3>1 DEF NextTxExact
    <3>3. u \notin Confirmed[b]
      <4>1. u \in Confirmed[b] => u \in Content(b)
        BY <1>1, <1>4, <2>4 DEF PoolInv, Unconfirmed
      <4>2. h \in Content(b) /\ u # h
        BY <1>4, <1>5, <2>4
      <4> QED BY <1>4, <3>1, <3>2, <4>1, <4>2, ContentDiffers
    <3> QED BY <1>3, <1>6, <3>1, <3>2, <3>3 DEF Lost
  <2>5. t \in roots \/ Lost(t, b, kept)
    <3>1. kept \cap ReachedWithin(mapTx \ {h}, roots) = {}
      BY <1>3, <2>2
    <3>2. \A u \in roots \cap (mapTx \ {h}) : u \notin Confirmed[b]
      BY <2>4 DEF Lost
    <3> QED BY <1>4, <2>3, <3>1, <3>2, ReachedAreLost
  <2>6. Lost(t, b, kept)
    BY <1>8, <2>4, <2>5
  <2> QED BY <1>1, <2>6, LostHasNoInputs DEF Cause
<1> QED BY <1>7, <1>8

LEMMA ResurrectHasCause ==
  ASSUME TypeOK, NextTxExact, PoolInv, Resurrect, NEW t \in mapTx \ mapTx'
  PROVE  Cause(t)
<1>1. PICK h, kept : h = Head(job.todo) /\ kept = mapTx'
  OBVIOUS
<1>2. /\ job.phase = "disconnect" /\ job.todo # <<>> /\ kept = mapTx \ Recursive(h)
  BY <1>1 DEF Resurrect, Erase, addUnchecked
<1>3. /\ coins \in Blocks /\ job.todo \in Seq(Txs) /\ Todo \subseteq Content(tip)
      /\ Content(tip) \cap Confirmed[coins] = {} /\ \A u \in mapTx : u \notin Confirmed[coins]
  BY <1>2, BackFacts
<1>4. h \in Todo
  BY <1>1, <1>2, <1>3, HeadAndTail DEF Todo
<1>5. h \notin mapTx /\ h \notin Confirmed[coins]
  BY <1>2, <1>3, <1>4 DEF PoolInv, ToComeBack
<1>6. Recursive(h) = ReachedWithin(mapTx, Children(h))
  BY <1>5 DEF Recursive
<1>7. ASSUME NEW u \in Children(h) \cap mapTx PROVE Lost(u, coins, kept)
  <2>1. PICK o \in Inputs[u] : o \in Outputs(h) /\ o[1] = h
    BY <1>7, ChildrenAre, OutputsOf
  <2>2. o \notin Unspent[coins] /\ o[1] \notin kept
    BY <1>2, <1>3, <1>5, <2>1, UnspentIs
  <2> QED BY <1>3, <1>7, <2>2 DEF Lost
<1>8. t \in Children(h) \/ Lost(t, coins, kept)
  <2>1. kept \cap ReachedWithin(mapTx, Children(h)) = {} /\ t \in ReachedWithin(mapTx, Children(h))
    BY <1>1, <1>2, <1>6
  <2> QED BY <1>3, <2>1, ReachedAreLost
<1>9. Lost(t, coins, kept)
  BY <1>7, <1>8
<1> QED BY <1>1, <1>9, LostHasNoInputs DEF Cause

LEMMA DisconnectedHasCause ==
  ASSUME TypeOK, NextTxExact, PoolInv, Disconnected, NEW t \in mapTx \ mapTx'
  PROVE  Cause(t)
<1>1. PICK kept : kept = mapTx'
  OBVIOUS
<1>2. job.phase = "disconnect" /\ kept = mapTx \ ReachedWithin(mapTx, Immature)
  BY <1>1 DEF Disconnected, Erase
<1>3. /\ coins \in Blocks /\ tip \in Blocks /\ tip # Root /\ coins = Parent[tip]
      /\ \A u \in mapTx : u \notin Confirmed[coins]
  BY <1>2, BackFacts
<1>4. t \in Immature \/ Lost(t, coins, kept)
  <2>1. kept \cap ReachedWithin(mapTx, Immature) = {} /\ t \in ReachedWithin(mapTx, Immature)
    BY <1>1, <1>2
  <2> QED BY <1>3, <2>1, ReachedAreLost
<1>5. CASE t \in Immature
  <2>1. PICK o \in Inputs[t] :
          /\ o[1] \notin mapTx
          /\ \/ Outputs(o[1]) \cap Unspent[coins] = {}
             \/ o[1] \in Coinbases /\ Height[tip] - CoinHeight(o[1], coins) < Maturity
    BY <1>5 DEF Immature
  <2>2. o[1] \notin kept
    BY <1>2, <2>1
  <2>3. CASE o \notin Unspent[coins]
    BY <1>1, <2>2, <2>3, LostHasNoInputs DEF Cause, HaveInputs
  <2>4. CASE o \in Unspent[coins]
    <3>1. o \in Outputs(o[1]) /\ o[1] \in Confirmed[coins]
      BY <1>3, <2>4, UnspentIs
    <3>2. o[1] \in Coinbases /\ Height[tip] - CoinHeight(o[1], coins) < Maturity
      BY <2>1, <2>4, <3>1
    <3>3. PICK n \in Nat : n = CoinHeight(o[1], coins)
      BY <1>3, <3>1, CoinHeightType
    <3>4. PICK g \in Nat : g = Height[coins] /\ Height[tip] = g + 1
      BY <1>3, ParentFacts, MempoolAssumption
    <3>5. ~(Age(o, kept, coins) >= Maturity)
      <4>1. Age(o, kept, coins) = g + 1 - n
        BY <2>2, <3>3, <3>4, NotFromPool
      <4>2. Maturity \in Nat
        BY MempoolAssumption
      <4> QED BY <3>2, <3>3, <3>4, <4>1, <4>2
    <3> QED BY <1>1, <3>2, <3>5 DEF Cause, Matured
  <2> QED BY <2>3, <2>4
<1> QED BY <1>1, <1>4, <1>5, LostHasNoInputs DEF Cause

(* In a step of the pool, the chain or the relay, a transaction leaves the    *)
(* pool only if it is confirmed, or if it lost an input or its maturity.     *)
THEOREM LeavesForACauseAlways == RelaySpec => LeavesForACause
<1>1. RelayTypeOK /\ NextTxExact /\ PoolInv /\ [RelayNext]_allVars
        => [\A t \in mapTx \ mapTx' :
              \/ t \in Confirmed[coins]
              \/ ~ HaveInputs(t, mapTx', coins)
              \/ ~ Matured(t, mapTx', coins)]_vars
  <2> SUFFICES ASSUME RelayTypeOK, NextTxExact, PoolInv, [RelayNext]_allVars, NEW t \in mapTx \ mapTx'
               PROVE  Cause(t)
    BY DEF Cause
  <2>0. TypeOK
    BY DEF RelayTypeOK
  <2>1. CASE RemoveForBlock
    BY <2>0, <2>1, RemoveHasCause
  <2>2. CASE Resurrect
    BY <2>0, <2>2, ResurrectHasCause
  <2>3. CASE Disconnected
    BY <2>0, <2>3, DisconnectedHasCause
  <2>4. CASE mapTx \subseteq mapTx'
    BY <2>4
  <2>5. CASE AcceptToMemoryPool \/ ConnectTip \/ Connected \/ DisconnectTip
    BY <2>4, <2>5 DEF AcceptToMemoryPool, ConnectTip, Connected, DisconnectTip, poolVars, addUnchecked
  <2>6. CASE ReceiveTx
    BY <2>4, <2>6 DEF ReceiveTx, poolVars, addUnchecked
  <2>7. CASE TryOrphan
    BY <2>4, <2>7
       DEF TryOrphan, SkipMisbehaving, AcceptOrphan, RejectOrphan, Rejected, KeepOrphan, poolVars,
           addUnchecked
  <2>8. CASE AskAlreadyHave \/ NextInWorkQueue \/ EraseQueue \/ FinalizeNode \/ UNCHANGED allVars
    BY <2>4, <2>8
       DEF AskAlreadyHave, NextInWorkQueue, EraseQueue, FinalizeNode, allVars, vars, poolVars
  <2> QED BY <2>1, <2>2, <2>3, <2>5, <2>6, <2>7, <2>8 DEF RelayNext, Next
<1> QED BY <1>1, PoolInvariant, PTL DEF RelaySpec, LeavesForACause
-----------------------------------------------------------------------------
(* The work queue of the handler.  At each of its places all orphans of the  *)
(* transaction there were seen: they are erased, passed over for their       *)
(* sender, still to be tried, or without a parent that is missing or comes   *)
(* later in the queue.                                                       *)
WorkDone == Elements(handler.work)
Waits(t) == \E parent \in Parents(t) : ~HaveCoins(parent)
ComesLater(t) ==
  \E j \in handler.at + 1 .. Len(handler.work) : handler.work[j] \in Parents(t)
Seen(t) == \/ t \in handler.erase \/ orphans[t] \in handler.bad \/ t \in handler.left
           \/ Waits(t) \/ ComesLater(t)

AllSeen == \A i \in 1 .. handler.at : \A t \in DOMAIN orphans :
  handler.work[i] \in Parents(t) => Seen(t)
AcceptedAreDone ==
  /\ \A t \in mapTx \cap DOMAIN orphans : Parents(t) \cap WorkDone # {} => t \in WorkDone
  /\ \A t \in handler.left : Parents(t) \cap WorkDone # {}
  /\ handler.erase \cap mapTx \subseteq WorkDone

WorkInv == job.phase = "relay" => /\ handler.at <= Len(handler.work)
                                  /\ AcceptedAreDone /\ AllSeen

LEMMA OrphansOfAre ==
  ASSUME OrphanInv, NEW p, NEW u
  PROVE  u \in OrphansOf(p) <=> u \in DOMAIN orphans /\ p \in Parents(u)
<1>0. \A e \in byPrev : e = <<e[1], e[2]>>
  BY DEF OrphanInv, Links
<1>1. u \in OrphansOf(p) <=> <<p, u>> \in byPrev
  BY <1>0 DEF OrphansOf
<1>2. <<p, u>> \in byPrev <=> \E t \in DOMAIN orphans : <<p, u>> \in Links(t)
  BY DEF OrphanInv
<1>3. \A t : <<p, u>> \in Links(t) <=> p \in Parents(t) /\ u = t
  BY DEF Links
<1> QED BY <1>1, <1>2, <1>3

LEMMA HandlerFacts ==
  ASSUME RelayTypeOK
  PROVE  /\ handler.work \in Seq(Txs) /\ Len(handler.work) \in Nat
         /\ handler.at \in Nat /\ handler.at >= 1
         /\ \A x : x \in WorkDone <=> \E i \in 1 .. Len(handler.work) : x = handler.work[i]
<1>1. handler.work \in Seq(Txs) /\ handler.at \in Nat \ {0}
  BY DEF RelayTypeOK
<1>2. handler.at \in Nat /\ handler.at >= 1
  BY <1>1
<1> QED BY <1>1, <1>2, ElementsAre DEF WorkDone

(* What is accepted was nobody's parent in the pool.                         *)
LEMMA NewIsNoParent ==
  ASSUME TypeOK, PoolInv, Settled, NEW t \in Txs, Fits(t), NEW u \in mapTx
  PROVE  t \notin Parents(u)
<1> SUFFICES ASSUME NEW o \in Inputs[u], o[1] = t PROVE FALSE
  BY DEF Parents
<1>1. coins \in Blocks /\ (o \in Unspent[coins] \/ FromPool(o, mapTx))
  BY SettledFacts
<1>2. t \notin Confirmed[coins] /\ t \notin mapTx
  BY FitsIsNew DEF Fits, Candidate, HaveCoins
<1> QED BY <1>1, <1>2, UnspentIs DEF FromPool

LEMMA ReceiveWork ==
  ASSUME RelayTypeOK, OrphanInv, PoolInv, Settled, NEW t \in Txs, Fits(t), addUnchecked(t),
         handler' = [Idle EXCEPT !.work = <<t>>, !.left = OrphansOf(t)], orphans' = orphans
  PROVE  WorkInv'
<1>1. /\ handler'.work = <<t>> /\ handler'.at = 1 /\ handler'.left = OrphansOf(t)
      /\ handler'.erase = {}
  BY DEF Idle
<1>2. WorkDone' = {t} /\ Len(handler'.work) = 1 /\ handler'.work[1] = t
  BY <1>1 DEF WorkDone, Elements
<1>3. mapTx' = mapTx \cup {t} /\ TypeOK
  BY DEF addUnchecked, RelayTypeOK
<1>4. AcceptedAreDone'
  <2>1. ASSUME NEW u \in mapTx', t \in Parents(u) PROVE u = t
    BY <1>3, <2>1, NewIsNoParent
  <2>2. \A u \in handler'.left : t \in Parents(u)
    BY <1>1, OrphansOfAre
  <2> QED BY <1>1, <1>2, <2>1, <2>2 DEF AcceptedAreDone
<1>5. AllSeen'
  <2>1. ASSUME NEW i \in 1 .. handler'.at, NEW u \in DOMAIN orphans', handler'.work[i] \in Parents(u)
        PROVE  u \in handler'.left
    <3>1. i = 1
      BY <1>1, <2>1
    <3> QED BY <1>1, <1>2, <2>1, <3>1, OrphansOfAre
  <2> QED BY <2>1 DEF AllSeen, Seen
<1> QED BY <1>1, <1>2, <1>4, <1>5 DEF WorkInv

(* A turn of the loop that accepts nothing.                                  *)
LEMMA PassWork ==
  ASSUME RelayTypeOK, OrphanInv, WorkInv, job.phase = "relay", NEW t \in handler.left,
         UNCHANGED <<mapTx, coins, orphans>>,
         handler'.work = handler.work, handler'.at = handler.at,
         handler'.left = handler.left \ {t}, handler.bad \subseteq handler'.bad,
         handler.erase \subseteq handler'.erase, handler'.erase \subseteq handler.erase \cup {t},
         t \in handler'.erase \/ orphans[t] \in handler'.bad \/ Waits(t)
  PROVE  WorkInv'
<1>1. handler.at <= Len(handler.work) /\ AcceptedAreDone /\ AllSeen
  BY DEF WorkInv
<1>2. WorkDone' = WorkDone
  BY DEF WorkDone
<1>3. AcceptedAreDone'
  <2>1. t \in DOMAIN orphans /\ Parents(t) \cap WorkDone # {}
    BY <1>1 DEF OrphanInv, AcceptedAreDone
  <2>2. t \in mapTx => t \in WorkDone
    BY <1>1, <2>1 DEF AcceptedAreDone
  <2> QED BY <1>1, <1>2, <2>2 DEF AcceptedAreDone
<1>4. ASSUME NEW u PROVE (Waits(u) => Waits(u)') /\ (ComesLater(u) => ComesLater(u)')
  <2>1. Waits(u) => Waits(u)'
    BY DEF Waits, HaveCoins
  <2>2. ComesLater(u) => ComesLater(u)'
    BY DEF ComesLater
  <2> QED BY <2>1, <2>2
<1>5. AllSeen'
  <2>1. ASSUME NEW i \in 1 .. handler'.at, NEW u \in DOMAIN orphans', handler'.work[i] \in Parents(u)
        PROVE  Seen(u)'
    <3>1. Seen(u)
      BY <1>1, <2>1 DEF AllSeen
    <3>2. CASE u = t
      BY <1>4, <3>2 DEF Seen
    <3>3. CASE u # t
      BY <1>4, <3>1, <3>3 DEF Seen
    <3> QED BY <3>2, <3>3
  <2> QED BY <2>1 DEF AllSeen
<1> QED BY <1>1, <1>3, <1>5 DEF WorkInv

LEMMA AppendIs ==
  ASSUME NEW w \in Seq(Txs), NEW t \in Txs
  PROVE  /\ Append(w, t) \in Seq(Txs) /\ Len(Append(w, t)) = Len(w) + 1
         /\ Append(w, t)[Len(w) + 1] = t /\ \A i \in 1 .. Len(w) : Append(w, t)[i] = w[i]
OBVIOUS

LEMMA AcceptWork ==
  ASSUME RelayTypeOK, OrphanInv, PoolInv, WorkInv, job.phase = "relay", NEW t \in handler.left,
         Fits(t), addUnchecked(t), UNCHANGED <<coins, orphans>>,
         handler' = [handler EXCEPT !.left = @ \ {t}, !.work = Append(@, t), !.erase = @ \cup {t}]
  PROVE  WorkInv'
<1>1. handler.at <= Len(handler.work) /\ AcceptedAreDone /\ AllSeen
  BY DEF WorkInv
<1>2. PICK w \in Seq(Txs) : w = handler.work
  BY HandlerFacts
<1>3. t \in Txs /\ t \in DOMAIN orphans
  BY DEF RelayTypeOK, OrphanInv
<1>4. /\ handler'.work = Append(w, t) /\ handler'.at = handler.at
      /\ handler'.left = handler.left \ {t} /\ handler'.bad = handler.bad
      /\ handler'.erase = handler.erase \cup {t}
  BY <1>2 DEF RelayTypeOK
<1>5. PICK n \in Nat : n = Len(w)
  BY <1>2
<1>6. /\ Append(w, t) \in Seq(Txs) /\ Len(Append(w, t)) = n + 1 /\ Append(w, t)[n + 1] = t
      /\ \A i \in 1 .. n : Append(w, t)[i] = w[i]
  BY <1>2, <1>3, <1>5, AppendIs
<1>7. ASSUME NEW x PROVE x \in WorkDone' <=> x \in WorkDone \/ x = t
  <2>1. x \in WorkDone <=> \E i \in 1 .. n : x = w[i]
    BY <1>2, <1>5, HandlerFacts
  <2>2. x \in WorkDone' <=> \E i \in 1 .. n + 1 : x = Append(w, t)[i]
    <3>1. WorkDone' = Elements(Append(w, t))
      BY <1>4 DEF WorkDone, Elements
    <3>2. PICK v \in Seq(Txs) : v = Append(w, t) /\ Len(v) = n + 1
      BY <1>6
    <3>3. x \in Elements(v) <=> \E i \in 1 .. Len(v) : x = v[i]
      BY ElementsAre
    <3> QED BY <3>1, <3>2, <3>3
  <2>3. \A i \in 1 .. n + 1 : i \in 1 .. n \/ i = n + 1
    BY <1>5
  <2>4. \A i \in 1 .. n : i \in 1 .. n + 1
    BY <1>5
  <2>5. n + 1 \in 1 .. n + 1
    BY <1>5
  <2> QED BY <1>6, <2>1, <2>2, <2>3, <2>4, <2>5
<1>8. mapTx' = mapTx \cup {t} /\ TypeOK /\ Settled
  BY DEF addUnchecked, RelayTypeOK, Settled
<1>9. AcceptedAreDone'
  <2>1. ASSUME NEW u \in mapTx' \cap DOMAIN orphans', Parents(u) \cap WorkDone' # {} PROVE u \in WorkDone'
    <3>1. CASE u = t
      BY <1>7, <3>1
    <3>2. CASE u # t
      <4>1. u \in mapTx /\ t \notin Parents(u)
        BY <1>3, <1>8, <2>1, <3>2, NewIsNoParent
      <4>2. Parents(u) \cap WorkDone # {}
        BY <1>7, <2>1, <4>1
      <4> QED BY <1>1, <1>7, <2>1, <4>1, <4>2 DEF AcceptedAreDone
    <3> QED BY <3>1, <3>2
  <2>2. ASSUME NEW u \in handler'.left PROVE Parents(u) \cap WorkDone' # {}
    BY <1>1, <1>4, <1>7, <2>2 DEF AcceptedAreDone
  <2>3. ASSUME NEW u \in handler'.erase \cap mapTx' PROVE u \in WorkDone'
    BY <1>1, <1>4, <1>7, <1>8, <2>3 DEF AcceptedAreDone
  <2> QED BY <2>1, <2>2, <2>3 DEF AcceptedAreDone
<1>10. AllSeen'
  <2>1. ASSUME NEW u, ComesLater(u) PROVE ComesLater(u)'
    <3>1. PICK j \in handler.at + 1 .. n : w[j] \in Parents(u)
      BY <1>2, <1>5, <2>1 DEF ComesLater
    <3>2. j \in 1 .. n /\ j \in handler.at + 1 .. n + 1
      BY <1>5, HandlerFacts
    <3> QED BY <1>4, <1>6, <3>1, <3>2 DEF ComesLater
  <2>2. ASSUME NEW u, t \in Parents(u) PROVE ComesLater(u)'
    <3>1. n + 1 \in handler.at + 1 .. n + 1
      BY <1>1, <1>2, <1>5, HandlerFacts
    <3> QED BY <1>4, <1>6, <2>2, <3>1 DEF ComesLater
  <2>3. ASSUME NEW u, Waits(u) PROVE Waits(u)' \/ ComesLater(u)'
    <3>1. PICK p \in Parents(u) : ~HaveCoins(p)
      BY <2>3 DEF Waits
    <3>2. p = t \/ ~HaveCoins(p)'
      BY <1>8, <3>1 DEF HaveCoins
    <3> QED BY <2>2, <3>1, <3>2 DEF Waits
  <2>4. ASSUME NEW i \in 1 .. handler'.at, NEW u \in DOMAIN orphans', handler'.work[i] \in Parents(u)
        PROVE  Seen(u)'
    <3>1. i \in 1 .. handler.at /\ i \in 1 .. n
      BY <1>1, <1>2, <1>4, <1>5, <2>4, HandlerFacts
    <3>2. handler.work[i] \in Parents(u) /\ u \in DOMAIN orphans
      BY <1>2, <1>4, <1>6, <2>4, <3>1
    <3>3. Seen(u)
      BY <1>1, <3>1, <3>2 DEF AllSeen
    <3> QED BY <1>4, <2>1, <2>3, <3>3 DEF Seen
  <2> QED BY <2>4 DEF AllSeen
<1>11. handler'.at <= Len(handler'.work)
  BY <1>1, <1>2, <1>4, <1>5, <1>6, HandlerFacts
<1> QED BY <1>9, <1>10, <1>11 DEF WorkInv

LEMMA NextWork ==
  ASSUME RelayTypeOK, OrphanInv, WorkInv, NextInWorkQueue
  PROVE  WorkInv'
<1>1. /\ job.phase = "relay" /\ handler.left = {} /\ handler.at < Len(handler.work)
      /\ UNCHANGED <<mapTx, coins, orphans>>
      /\ handler' = [handler EXCEPT !.at = @ + 1, !.left = OrphansOf(handler.work[handler.at + 1])]
  BY DEF NextInWorkQueue, vars
<1>2. AcceptedAreDone /\ AllSeen
  BY <1>1 DEF WorkInv
<1>3. PICK n \in Nat, m \in Nat : n = Len(handler.work) /\ m = handler.at /\ m >= 1 /\ m + 1 \in 1 .. n
  BY <1>1, HandlerFacts
<1>4. PICK p : p = handler.work[m + 1]
  OBVIOUS
<1>5. /\ handler'.work = handler.work /\ handler'.at = m + 1 /\ handler'.left = OrphansOf(p)
      /\ handler'.bad = handler.bad /\ handler'.erase = handler.erase
  BY <1>1, <1>3, <1>4 DEF RelayTypeOK
<1>6. WorkDone' = WorkDone /\ p \in WorkDone
  BY <1>3, <1>4, <1>5, HandlerFacts DEF WorkDone
<1>7. AcceptedAreDone'
  <2>1. \A u \in handler'.left : p \in Parents(u)
    BY <1>5, OrphansOfAre
  <2> QED BY <1>1, <1>2, <1>5, <1>6, <2>1 DEF AcceptedAreDone
<1>8. AllSeen'
  <2>1. ASSUME NEW u \in DOMAIN orphans, p \in Parents(u) PROVE Seen(u)'
    BY <1>5, <2>1, OrphansOfAre DEF Seen
  <2>2. ASSUME NEW u \in DOMAIN orphans, Seen(u) PROVE Seen(u)'
    <3>1. Waits(u) => Waits(u)'
      BY <1>1 DEF Waits, HaveCoins
    <3>2. ASSUME ComesLater(u) PROVE p \in Parents(u) \/ ComesLater(u)'
      <4>1. PICK j \in m + 1 .. n : handler.work[j] \in Parents(u)
        BY <1>3, <3>2 DEF ComesLater
      <4>2. j = m + 1 \/ j \in (m + 1) + 1 .. n
        BY <1>3
      <4> QED BY <1>3, <1>4, <1>5, <4>1, <4>2 DEF ComesLater
    <3> QED BY <1>1, <1>5, <2>1, <2>2, <3>1, <3>2 DEF Seen
  <2>3. ASSUME NEW i \in 1 .. handler'.at, NEW u \in DOMAIN orphans', handler'.work[i] \in Parents(u)
        PROVE  Seen(u)'
    <3>1. i \in 1 .. m \/ i = m + 1
      BY <1>3, <1>5
    <3>2. CASE i \in 1 .. m
      BY <1>1, <1>2, <1>3, <1>5, <2>2, <2>3, <3>2 DEF AllSeen
    <3>3. CASE i = m + 1
      BY <1>1, <1>4, <1>5, <2>1, <2>3, <3>3
    <3> QED BY <3>1, <3>2, <3>3
  <2> QED BY <2>3 DEF AllSeen
<1>9. handler'.at <= Len(handler'.work)
  BY <1>3, <1>5
<1> QED BY <1>7, <1>8, <1>9 DEF WorkInv

LEMMA WorkStep ==
  ASSUME RelayTypeOK, OrphanInv, PoolInv, WorkInv, [RelayNext]_allVars
  PROVE  WorkInv'
<1>1. CASE Next
  BY <1>1, PoolStepsAreNotTheRelay DEF WorkInv
<1>2. ASSUME job' = Free PROVE WorkInv'
  BY <1>2, JobIs DEF WorkInv
<1>3. CASE ReceiveTx
  <2>1. PICK t \in Txs :
          /\ job = Free
          /\ \/ /\ Fits(t) /\ addUnchecked(t)
                /\ handler' = [Idle EXCEPT !.work = <<t>>, !.left = OrphansOf(t)]
                /\ UNCHANGED <<orphans, byPrev>>
             \/ UNCHANGED job
    BY <1>3 DEF ReceiveTx
  <2>2. Settled
    BY <2>1, FreeIsSettled
  <2>3. CASE UNCHANGED job
    BY <1>2, <2>1, <2>3
  <2>4. CASE /\ Fits(t) /\ addUnchecked(t)
             /\ handler' = [Idle EXCEPT !.work = <<t>>, !.left = OrphansOf(t)]
             /\ UNCHANGED <<orphans, byPrev>>
    BY <2>2, <2>4, ReceiveWork
  <2> QED BY <2>1, <2>3, <2>4
<1>4. CASE TryOrphan
  <2>1. PICK t \in handler.left :
          /\ job.phase = "relay"
          /\ SkipMisbehaving(t) \/ AcceptOrphan(t) \/ RejectOrphan(t) \/ KeepOrphan(t)
          /\ UNCHANGED <<coins, tip, job, orphans, byPrev, rejectsTip>>
    BY <1>4 DEF TryOrphan
  <2>2. handler \in Handlers
    BY DEF RelayTypeOK, Handlers
  <2>3. CASE AcceptOrphan(t)
    BY <2>1, <2>3, AcceptWork DEF AcceptOrphan
  <2>4. CASE SkipMisbehaving(t)
    <3>1. /\ handler'.work = handler.work /\ handler'.at = handler.at /\ handler'.left = handler.left \ {t}
          /\ handler'.bad = handler.bad /\ handler'.erase = handler.erase
          /\ orphans[t] \in handler'.bad /\ mapTx' = mapTx
      BY <2>2, <2>4 DEF SkipMisbehaving, Handlers, poolVars
    <3> QED BY <2>1, <3>1, PassWork
  <2>5. CASE RejectOrphan(t)
    <3>1. /\ handler'.work = handler.work /\ handler'.at = handler.at /\ handler'.left = handler.left \ {t}
          /\ handler.bad \subseteq handler'.bad /\ handler'.erase = handler.erase \cup {t}
          /\ mapTx' = mapTx
      BY <2>2, <2>5 DEF RejectOrphan, Rejected, Handlers, poolVars
    <3> QED BY <2>1, <3>1, PassWork
  <2>6. CASE KeepOrphan(t)
    <3>1. /\ handler'.work = handler.work /\ handler'.at = handler.at /\ handler'.left = handler.left \ {t}
          /\ handler'.bad = handler.bad /\ handler'.erase = handler.erase /\ mapTx' = mapTx
      BY <2>2, <2>6 DEF KeepOrphan, Handlers, poolVars
    <3>2. Waits(t)
      BY <2>6 DEF KeepOrphan, MissingInputs, Waits, Parents
    <3> QED BY <2>1, <3>1, <3>2, PassWork
  <2> QED BY <2>1, <2>3, <2>4, <2>5, <2>6
<1>5. CASE NextInWorkQueue
  BY <1>5, NextWork
<1>6. CASE EraseQueue \/ AskAlreadyHave \/ FinalizeNode
  BY <1>2, <1>6 DEF EraseQueue, AskAlreadyHave, FinalizeNode, vars
<1>7. CASE UNCHANGED allVars
  BY <1>7
     DEF allVars, vars, WorkInv, AcceptedAreDone, AllSeen, WorkDone, Seen, Waits, ComesLater, HaveCoins
<1> QED BY <1>1, <1>3, <1>4, <1>5, <1>6, <1>7 DEF RelayNext

(* setMisbehaving has nobody but the senders of orphans with a bad script,    *)
(* and these orphans are erased at the end.                                  *)
BadInv == job.phase = "relay" => \A peer \in handler.bad : PunishedForScript(peer)

LEMMA BadStep ==
  ASSUME RelayTypeOK, BadInv, [RelayNext]_allVars
  PROVE  BadInv'
<1>0. handler \in Handlers
  BY DEF RelayTypeOK, Handlers
<1>1. CASE Next
  BY <1>1, PoolStepsAreNotTheRelay DEF BadInv
<1>2. ASSUME job' = Free PROVE BadInv'
  BY <1>2, JobIs DEF BadInv
<1>3. ASSUME handler'.bad = {} PROVE BadInv'
  BY <1>3 DEF BadInv
<1>4. ASSUME job.phase = "relay", UNCHANGED orphans, handler.erase \subseteq handler'.erase,
             \A peer \in handler'.bad \ handler.bad :
                \E t \in handler'.erase \cap BadScript : orphans[t] = peer
      PROVE  BadInv'
  BY <1>4 DEF BadInv, PunishedForScript
<1>5. CASE ReceiveTx
  <2>1. job = Free /\ (UNCHANGED job \/ handler'.bad = {})
    BY <1>5 DEF ReceiveTx, Idle
  <2> QED BY <1>2, <1>3, <2>1
<1>6. CASE TryOrphan
  <2>1. PICK t \in handler.left :
          /\ job.phase = "relay"
          /\ SkipMisbehaving(t) \/ AcceptOrphan(t) \/ RejectOrphan(t) \/ KeepOrphan(t)
          /\ UNCHANGED <<coins, tip, job, orphans, byPrev, rejectsTip>>
    BY <1>6 DEF TryOrphan
  <2>2. CASE SkipMisbehaving(t) \/ AcceptOrphan(t) \/ KeepOrphan(t) \/ Rejected(t, {})
    <3>1. handler'.bad = handler.bad /\ handler.erase \subseteq handler'.erase
      BY <1>0, <2>2 DEF SkipMisbehaving, AcceptOrphan, KeepOrphan, Rejected, Handlers
    <3> QED BY <1>4, <2>1, <3>1
  <2>3. CASE Invalid(t) /\ Rejected(t, {orphans[t]})
    <3>1. /\ handler'.bad = handler.bad \cup {orphans[t]} /\ t \in BadScript
          /\ handler'.erase = handler.erase \cup {t}
      BY <1>0, <2>3 DEF Invalid, Rejected, Handlers
    <3> QED BY <1>4, <2>1, <3>1
  <2> QED BY <2>1, <2>2, <2>3 DEF RejectOrphan
<1>7. CASE NextInWorkQueue
  <2>1. job.phase = "relay" /\ UNCHANGED orphans
    BY <1>7 DEF NextInWorkQueue
  <2>2. handler'.bad = handler.bad /\ handler'.erase = handler.erase
    BY <1>0, <1>7 DEF NextInWorkQueue, Handlers
  <2> QED BY <1>4, <2>1, <2>2
<1>8. CASE EraseQueue \/ AskAlreadyHave \/ FinalizeNode
  BY <1>2, <1>8 DEF EraseQueue, AskAlreadyHave, FinalizeNode, vars
<1>9. CASE UNCHANGED allVars
  BY <1>9 DEF allVars, vars, BadInv, PunishedForScript
<1> QED BY <1>1, <1>5, <1>6, <1>7, <1>8, <1>9 DEF RelayNext

(* When the handler of a "tx" message is done, whoever depended on what it    *)
(* accepted was tried, or waits for another parent, or comes from a peer that *)
(* was punished for the bad script of another.                               *)
THEOREM NoOrphanLeftBehindAlways == RelaySpec => []NoOrphanLeftBehind
<1>1. RelayInit => WorkInv /\ BadInv
  BY JobIs DEF RelayInit, Init, WorkInv, BadInv
<1>2. RelayTypeOK /\ OrphanInv /\ PoolInv /\ WorkInv /\ BadInv /\ [RelayNext]_allVars
        => WorkInv' /\ BadInv'
  BY WorkStep, BadStep
<1>3. RelayTypeOK /\ WorkInv /\ BadInv => NoOrphanLeftBehind
  <2> SUFFICES ASSUME RelayTypeOK, WorkInv, BadInv, job.phase = "relay", handler.left = {},
                      handler.at = Len(handler.work), NEW t \in DOMAIN orphans \ handler.erase,
                      NEW p \in Parents(t), p = handler.work[1] \/ p \in handler.erase \cap mapTx
               PROVE  PunishedForScript(orphans[t]) \/ Waits(t)
    BY DEF NoOrphanLeftBehind, Waits
  <2>1. AcceptedAreDone /\ AllSeen
    BY DEF WorkInv
  <2>2. PICK n \in Nat : n = Len(handler.work) /\ n >= 1 /\ handler.at = n
    BY HandlerFacts
  <2>3. 1 \in 1 .. n
    BY <2>2
  <2>4. PICK i \in 1 .. n : p = handler.work[i]
    BY <2>1, <2>2, <2>3, HandlerFacts DEF AcceptedAreDone
  <2>5. Seen(t)
    BY <2>1, <2>2, <2>4 DEF AllSeen
  <2>6. ~ComesLater(t)
    BY <2>2 DEF ComesLater
  <2> QED BY <2>5, <2>6 DEF Seen, BadInv
<1> QED BY <1>1, <1>2, <1>3, PoolInvariant, PTL DEF RelaySpec
=============================================================================
