------------------------------- MODULE TxRelay -------------------------------
(***************************************************************************)
(* What a node does with the transactions its peers send: the "tx" message   *)
(* of ProcessMessage with mapOrphanTransactions, mapOrphanTransactionsByPrev *)
(* and recentRejects, on top of the memory pool and its changing chain.      *)
(*                                                                          *)
(* A transaction with unknown parents is kept as an orphan.  When a parent   *)
(* is accepted, its orphans are tried, then theirs, by a work queue, one     *)
(* step here for each; cs_main is held from the message to the last of them. *)
(***************************************************************************)
EXTENDS Mempool

CONSTANTS
  Peers,       \* NodeIds
  MaxOrphans,  \* -maxorphantx
  Refusable    \* transactions that policy, or a script flag that is not
               \* mandatory, may refuse at times

ASSUME TxRelayAssumption == MaxOrphans \in Nat /\ Refusable \subseteq Txs

VARIABLES
  orphans,     \* mapOrphanTransactions: who sent the transaction
  byPrev,      \* mapOrphanTransactionsByPrev, as pairs <<parent, orphan>>
  rejects,     \* recentRejects
  rejectsTip,  \* hashRecentRejectsChainTip
  handler      \* the local variables of the message handler

relayVars == <<orphans, byPrev, rejects, rejectsTip, handler>>
allVars == <<vars, orphans, byPrev, rejects, rejectsTip, handler>>

(* work is vWorkQueue and at the place in it, left what *itByPrev still has,  *)
(* bad is setMisbehaving and erase vEraseQueue.                              *)
Idle == [work |-> <<>>, at |-> 1, left |-> {}, bad |-> {}, erase |-> {}]

RelayInit ==
  /\ Init
  /\ orphans = [t \in {} |-> Root] /\ byPrev = {}
  /\ rejects = {} /\ rejectsTip = Root
  /\ handler = Idle
-----------------------------------------------------------------------------
Parents(t) == {o[1] : o \in Inputs[t]}
OrphansOf(t) == {e[2] : e \in {e \in byPrev : e[1] = t}}
Links(t) == {<<parent, t>> : parent \in Parents(t)}

(* EraseOrphanTx for each of S, in orphans and byPrev as they are given.     *)
EraseFirstLink(S, map, links) ==   \* only the entry of one parent goes
  /\ orphans' = [t \in DOMAIN map \ S |-> map[t]]
  /\ byPrev' = links \ {CHOOSE l \in Links(t) : TRUE : t \in S}
EraseOrphanTx(S, map, links) ==
  /\ orphans' = [t \in DOMAIN map \ S |-> map[t]]
  /\ byPrev' = links \ UNION {Links(t) : t \in S}

(* AddOrphanTx, then LimitOrphanTxSize: any of them may be the evicted one.   *)
AddOrphanTx(t, peer) ==
  LET map == [u \in DOMAIN orphans \cup {t} |-> IF u = t THEN peer ELSE orphans[u]]
  IN \E S \in SUBSET DOMAIN map :
       /\ Cardinality(DOMAIN map) - Cardinality(S)
            = (IF Cardinality(DOMAIN map) > MaxOrphans THEN MaxOrphans ELSE Cardinality(DOMAIN map))
       /\ EraseOrphanTx(S, map, byPrev \cup Links(t))

(* AlreadyHave: the rejects of another tip are forgotten first.              *)
Rejects == IF tip = rejectsTip THEN rejects ELSE {}
AlreadyHave(t) == t \in Rejects \/ t \in DOMAIN orphans \/ HaveCoins(t)

(* An "inv" message, or a request that is about to be sent: only the filter  *)
(* may change.                                                               *)
AskAlreadyHave ==
  /\ job = Free
  /\ rejects' = Rejects /\ rejectsTip' = tip
  /\ UNCHANGED <<vars, orphans, byPrev, handler>>

(* A "tx" message.                                                          *)
ReceiveTx == \E t \in Txs, peer \in Peers :
  /\ job = Free
  /\ ~AlreadyHave(t)
  /\ rejectsTip' = tip
  /\ \/ /\ Fits(t)
        /\ addUnchecked(t)
        /\ job' = [Free EXCEPT !.phase = "relay"]
        /\ handler' = [Idle EXCEPT !.work = <<t>>, !.left = OrphansOf(t)]
        /\ rejects' = Rejects
        /\ UNCHANGED <<orphans, byPrev>>
     \/ /\ MissingInputs(t)
        /\ AddOrphanTx(t, peer)
        /\ rejects' = Rejects
        /\ UNCHANGED <<poolVars, job, handler>>
     \/ /\ t \in Refusable \/ ~(Fits(t) \/ MissingInputs(t))
        /\ rejects' = Rejects \cup {t}
        /\ UNCHANGED <<poolVars, job, orphans, byPrev, handler>>
  /\ UNCHANGED <<coins, tip>>

(* The orphan is invalid and its sender is punished for it: AcceptToMemoryPool *)
(* comes to its script, and a mandatory rule fails.  One that pays out more    *)
(* than it has is refused for its fee before, with no penalty.                *)
InvalidByFee(t) ==   \* as if it were tried without fLimitFree
  /\ Candidate(t) /\ HaveInputs(t, mapTx, coins) /\ Matured(t, mapTx, coins)
  /\ ~Afforded(t, mapTx, coins) \/ t \in BadScript
Invalid(t) == Candidate(t) /\ CheckInputs(t, mapTx, coins) /\ t \in BadScript

(* One turn of the loop over itByPrev->second.                               *)
SkipMisbehaving(t) ==
  /\ orphans[t] \in handler.bad
  /\ handler' = [handler EXCEPT !.left = @ \ {t}]
  /\ UNCHANGED <<poolVars, rejects>>
AcceptOrphanOnce(t) ==   \* vWorkQueue.push_back is left out
  /\ orphans[t] \notin handler.bad
  /\ Fits(t)
  /\ addUnchecked(t)
  /\ handler' = [handler EXCEPT !.left = @ \ {t}, !.erase = @ \cup {t}]
  /\ UNCHANGED rejects
AcceptOrphan(t) ==
  /\ orphans[t] \notin handler.bad
  /\ Fits(t)
  /\ addUnchecked(t)
  /\ handler' = [handler EXCEPT !.left = @ \ {t}, !.work = Append(@, t), !.erase = @ \cup {t}]
  /\ UNCHANGED rejects
Rejected(t, punished) ==
  /\ orphans[t] \notin handler.bad
  /\ handler' = [handler EXCEPT !.left = @ \ {t}, !.erase = @ \cup {t}, !.bad = @ \cup punished]
  /\ rejects' = rejects \cup {t}
  /\ UNCHANGED poolVars
RejectOrphan(t) ==
  \/ /\ t \in Refusable \/ ~(Fits(t) \/ MissingInputs(t) \/ Invalid(t))
     /\ Rejected(t, {})
  \/ Invalid(t) /\ Rejected(t, {orphans[t]})
KeepOrphan(t) ==
  /\ orphans[t] \notin handler.bad
  /\ MissingInputs(t)
  /\ handler' = [handler EXCEPT !.left = @ \ {t}]
  /\ UNCHANGED <<poolVars, rejects>>

TryOrphan == \E t \in handler.left :
  /\ job.phase = "relay"
  /\ SkipMisbehaving(t) \/ AcceptOrphan(t) \/ RejectOrphan(t) \/ KeepOrphan(t)
  /\ UNCHANGED <<coins, tip, job, orphans, byPrev, rejectsTip>>

NextInWorkQueue ==
  /\ job.phase = "relay" /\ handler.left = {} /\ handler.at < Len(handler.work)
  /\ handler' = [handler EXCEPT !.at = @ + 1, !.left = OrphansOf(handler.work[handler.at + 1])]
  /\ UNCHANGED <<vars, orphans, byPrev, rejects, rejectsTip>>

EraseQueue ==
  /\ job.phase = "relay" /\ handler.left = {} /\ handler.at = Len(handler.work)
  /\ EraseOrphanTx(handler.erase, orphans, byPrev)
  /\ job' = Free /\ handler' = Idle
  /\ UNCHANGED <<poolVars, coins, tip, rejects, rejectsTip>>

(* FinalizeNode: EraseOrphansFor.                                            *)
FinalizeNode == \E peer \in Peers :
  /\ job = Free
  /\ EraseOrphanTx({t \in DOMAIN orphans : orphans[t] = peer}, orphans, byPrev)
  /\ UNCHANGED <<vars, rejects, rejectsTip, handler>>

RelayNext ==
  \/ Next /\ UNCHANGED relayVars
  \/ AskAlreadyHave \/ ReceiveTx \/ TryOrphan \/ NextInWorkQueue \/ EraseQueue
  \/ FinalizeNode

RelaySpec == RelayInit /\ [][RelayNext]_allVars
-----------------------------------------------------------------------------
RelayTypeOK ==
  /\ TypeOK
  /\ DOMAIN orphans \subseteq Txs /\ \A t \in DOMAIN orphans : orphans[t] \in Peers
  /\ byPrev \subseteq Txs \X Txs
  /\ rejects \subseteq Txs /\ rejectsTip \in Blocks
  /\ handler \in [work : Seq(Txs), at : Nat \ {0}, left : SUBSET Txs, bad : SUBSET Peers,
                   erase : SUBSET Txs]
  /\ handler.at <= Len(handler.work) + 1

(* mapOrphanTransactionsByPrev lists every orphan under each of its parents   *)
(* and nothing else, however one leaves: accepted, rejected, evicted or with *)
(* its peer.  So what the handler finds there, and walks over while it keeps *)
(* the erasures for later, is in mapOrphanTransactions, where operator[]     *)
(* would make an entry.  There are no more orphans than -maxorphantx.        *)
OrphanIndexExact ==
  /\ byPrev = UNION {Links(t) : t \in DOMAIN orphans}
  /\ handler.left \cup handler.erase \subseteq DOMAIN orphans
  /\ Cardinality(DOMAIN orphans) <= MaxOrphans

(* "Recursively process any orphan transactions that depended on this one":   *)
(* when the handler is done, an orphan with a parent it accepted still has a  *)
(* parent missing, unless its sender was punished for another whose script is *)
(* bad: being refused for its fee or by policy costs nobody else anything.    *)
(* (One that was tried too early may conflict with what came after it: it     *)
(* stays.)                                                                  *)
PunishedForScript(peer) ==
  peer \in handler.bad /\ \E t \in handler.erase \cap BadScript : orphans[t] = peer
NoOrphanLeftBehind ==
  (job.phase = "relay" /\ handler.left = {} /\ handler.at = Len(handler.work)) =>
    LET accepted == {handler.work[1]} \cup (handler.erase \cap mapTx)
    IN \A t \in DOMAIN orphans \ handler.erase :
         Parents(t) \cap accepted # {} =>
           PunishedForScript(orphans[t]) \/ \E parent \in Parents(t) : ~HaveCoins(parent)
=============================================================================
