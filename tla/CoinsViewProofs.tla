--------------------------- MODULE CoinsViewProofs ---------------------------
(***************************************************************************)
(* The cache flags of CoinsView are sound, the assertion of BatchWrite      *)
(* never fails, the stack of views implements UtxoStore, every view holds   *)
(* the UTXO set of its best block, no invalid block becomes the state of    *)
(* one, and the usage counters are exact: for every set of transactions,    *)
(* every block tree and every sequence of accesses.                         *)
(***************************************************************************)
EXTENDS CoinsView, FiniteSetTheorems, WellFoundedInduction, TLAPS

(* A record built by MkCoins is a legal record, and it is pruned exactly    *)
(* when it holds no output.                                                 *)
LEMMA MkCoinsType ==
  ASSUME NEW h \in Heights, NEW outs \in SUBSET OutIdx
  PROVE  /\ MkCoins(h, outs) \in Coins
         /\ IsPruned(MkCoins(h, outs)) <=> outs = {}
  BY DEF MkCoins, Coins, IsPruned, Spent

(* Every record has a height and outputs, and only Spent is pruned.         *)
LEMMA CoinsFields ==
  ASSUME NEW c \in Coins
  PROVE  /\ c.nHeight \in Heights /\ c.vout \in SUBSET OutIdx
         /\ IsPruned(c) <=> c = Spent
  BY CoinsViewAssumption DEF Coins, IsPruned, Spent

(* What a spend leaves of a record is one, and its undo height is a height. *)
LEMMA SpendLeaves ==
  ASSUME NEW c \in Coins, NEW n
  PROVE  /\ MkCoins(c.nHeight, c.vout \ {n}) \in Coins
         /\ UndoHeight(c, MkCoins(c.nHeight, c.vout \ {n})) \in Heights
<1>1. c.nHeight \in Heights /\ c.vout \ {n} \in SUBSET OutIdx
  BY CoinsFields
<1>2. 0 \in Heights
  BY CoinsViewAssumption
<1> QED BY <1>1, <1>2, MkCoinsType DEF UndoHeight

LEMMA SpentType == Spent \in Coins /\ IsPruned(Spent)
  BY DEF Coins, IsPruned, Spent

(* An entry is never taken for the absence of one.                          *)
LEMMA EntryFields ==
  ASSUME NEW c \in Coins, NEW d \in BOOLEAN, NEW f \in BOOLEAN
  PROVE  /\ [coins |-> c, dirty |-> d, fresh |-> f] \in Entry
         /\ [coins |-> c, dirty |-> d, fresh |-> f] # NoEntry
  BY CoinsViewAssumption DEF Entry

(* FetchCoins on the node's cache changes what it remembers, not what it    *)
(* says, and it remembers every live record that was asked for.             *)
LEMMA ReadTipStep ==
  ASSUME TypeOK, TipFlagsSound, NEW t \in TxIds, ReadTip(t), db' = db
  PROVE  /\ tip' \in [TxIds -> Entry \cup {NoEntry}]
         /\ tipBest' = tipBest
         /\ TipFlagsSound'
         /\ \A u \in TxIds : TipCoins(u)' = TipCoins(u)
         /\ \A u \in TxIds : tip[u] # NoEntry => tip'[u] = tip[u]
         /\ ~IsPruned(TipCoins(t)) => tip'[t] # NoEntry
         /\ tip'[t] = TipFetch(t)
<1>1. db \in [TxIds -> Coins] /\ tip \in [TxIds -> Entry \cup {NoEntry}]
  BY DEF TypeOK
<1>2. tip' = [tip EXCEPT ![t] = TipFetch(t)] /\ tipBest' = tipBest
  BY DEF ReadTip
<1>3. CASE tip[t] = NoEntry /\ ~IsPruned(db[t])
  <2>1. /\ TipFetch(t) = [coins |-> db[t], dirty |-> FALSE, fresh |-> FALSE]
        /\ TipFetch(t) \in Entry /\ TipFetch(t) # NoEntry
    <3>1. db[t] \in Coins /\ IsPruned(db[t]) = FALSE
      BY <1>1, <1>3 DEF IsPruned
    <3>2. TipFetch(t) = [coins |-> db[t], dirty |-> FALSE, fresh |-> FALSE]
      BY <1>3, <3>1 DEF TipFetch, Fetched
    <3> QED BY <3>1, <3>2, EntryFields
  <2>2. \A u \in TxIds \ {t} : tip'[u] = tip[u]
    BY <1>1, <1>2
  <2>3. tip'[t] = TipFetch(t)
    BY <1>1, <1>2
  <2> QED
    BY <1>1, <1>2, <1>3, <2>1, <2>2, <2>3 DEF TipFlagsSound, TipCoins
<1>4. CASE ~(tip[t] = NoEntry /\ ~IsPruned(db[t]))
  <2>1. TipFetch(t) = tip[t]
    BY <1>4 DEF TipFetch
  <2>2. tip' = tip
    BY <1>1, <1>2, <2>1
  <2> QED
    BY <1>1, <1>2, <1>4, <2>1, <2>2 DEF TipFlagsSound, TipCoins
<1> QED BY <1>3, <1>4

(* What is read through either cache is a record, and so is what a          *)
(* transaction of a block puts there.                                       *)
LEMMA TipCoinsType == ASSUME TypeOK, NEW t \in TxIds PROVE TipCoins(t) \in Coins
  BY DEF TypeOK, TipCoins, Entry
LEMMA ViewCoinsType == ASSUME TypeOK, NEW t \in TxIds PROVE ViewCoins(t) \in Coins
  BY TipCoinsType DEF TypeOK, ViewCoins, Entry
LEMMA FromTxType ==
  ASSUME NEW b \in Blocks, NEW t \in TxIds PROVE FromTx(b, t) \in Coins
  BY CoinsViewAssumption, MkCoinsType DEF FromTx

(* The same when the view looks below itself only for what it has not got.  *)
LEMMA ReadBelowStep ==
  ASSUME TypeOK, TipFlagsSound, NEW t \in TxIds, ReadBelow(t), db' = db
  PROVE  /\ tip' \in [TxIds -> Entry \cup {NoEntry}]
         /\ tipBest' = tipBest
         /\ TipFlagsSound'
         /\ \A u \in TxIds : TipCoins(u)' = TipCoins(u)
         /\ \A u \in TxIds : tip[u] # NoEntry => tip'[u] # NoEntry
         /\ view[t] = NoEntry /\ ~IsPruned(TipCoins(t)) => tip'[t] # NoEntry
         /\ view[t] = NoEntry => tip'[t] = TipFetch(t)
<1>1. CASE view[t] = NoEntry
  BY <1>1, ReadTipStep DEF ReadBelow
<1>2. CASE view[t] # NoEntry
  BY <1>2 DEF ReadBelow, tipVars, TypeOK, TipFlagsSound, TipCoins
<1> QED BY <1>1, <1>2

(* What both ways of touching the view leave true.                          *)
Sound == TypeOK /\ TipFlagsSound /\ ViewFlagsSound /\ ViewBacked

ViewSoundAfter ==
  /\ tip' \in [TxIds -> Entry \cup {NoEntry}] /\ tipBest' = tipBest
  /\ view' \in [TxIds -> Entry \cup {NoEntry}]
  /\ TipFlagsSound' /\ ViewFlagsSound' /\ ViewBacked'
  /\ \A u \in TxIds : TipCoins(u)' = TipCoins(u)

(* FetchCoins on the view changes nothing a caller can see.                 *)
LEMMA ReadViewStep ==
  ASSUME Sound, NEW t \in TxIds, ReadView(t), db' = db
  PROVE  ViewSoundAfter /\ \A u \in TxIds : ViewCoins(u)' = ViewCoins(u)
<1> USE DEF Sound
<1>1. /\ db \in [TxIds -> Coins] /\ tip \in [TxIds -> Entry \cup {NoEntry}]
      /\ view \in [TxIds -> Entry \cup {NoEntry}]
  BY DEF TypeOK
<1>2. ReadBelow(t) /\ view' = [view EXCEPT ![t] = ViewFetch(t)]
  BY DEF ReadView
<1>3. /\ tip' \in [TxIds -> Entry \cup {NoEntry}] /\ tipBest' = tipBest
      /\ TipFlagsSound'
      /\ \A u \in TxIds : TipCoins(u)' = TipCoins(u)
      /\ \A u \in TxIds : tip[u] # NoEntry => tip'[u] # NoEntry
      /\ view[t] = NoEntry => tip'[t] = TipFetch(t)
  BY <1>2, ReadBelowStep
<1>4. CASE view[t] = NoEntry /\ TipFetch(t) # NoEntry
  <2> DEFINE c == TipFetch(t).coins
  <2>1. TipFetch(t) \in Entry /\ tip'[t] = TipFetch(t)
    BY <1>3, <1>4
  <2>2. c \in Coins /\ c = TipCoins(t)'
    BY <1>4, <2>1 DEF Entry, TipCoins
  <2>3. c = TipCoins(t)
    BY <1>3, <2>2
  <2>4. ViewFetch(t) = [coins |-> c, dirty |-> FALSE, fresh |-> IsPruned(c)]
    BY <1>4 DEF ViewFetch, Fetched
  <2>5. IsPruned(c) \in BOOLEAN
    BY DEF IsPruned
  <2> HIDE DEF c
  <2>6. ViewFetch(t) \in Entry /\ ViewFetch(t) # NoEntry
    BY <2>2, <2>4, <2>5, EntryFields
  <2>7. view'[t] = ViewFetch(t) /\ \A u \in TxIds \ {t} : view'[u] = view[u]
    BY <1>1, <1>2
  <2>8. view' \in [TxIds -> Entry \cup {NoEntry}]
    BY <1>1, <1>2, <2>6
  <2>9. ViewFlagsSound'
    BY <1>3, <2>3, <2>4, <2>7 DEF ViewFlagsSound
  <2>10. ViewBacked'
    BY <1>3, <1>4, <2>1, <2>7 DEF ViewBacked
  <2>11. \A u \in TxIds : ViewCoins(u)' = ViewCoins(u)
    BY <1>3, <1>4, <2>3, <2>4, <2>6, <2>7 DEF ViewCoins
  <2> QED BY <1>3, <2>8, <2>9, <2>10, <2>11 DEF ViewSoundAfter
<1>5. CASE ~(view[t] = NoEntry /\ TipFetch(t) # NoEntry)
  <2>1. view' = view
    BY <1>1, <1>2, <1>5 DEF ViewFetch
  <2>2. ViewFlagsSound' /\ ViewBacked'
    BY <1>3, <2>1 DEF ViewFlagsSound, ViewBacked
  <2>3. \A u \in TxIds : ViewCoins(u)' = ViewCoins(u)
    BY <1>3, <2>1 DEF ViewCoins
  <2> QED BY <1>1, <1>3, <2>1, <2>2, <2>3 DEF ViewSoundAfter
<1> QED BY <1>4, <1>5

(* A CCoinsModifier changes exactly the record it was opened on.            *)
LEMMA ModifyViewStep ==
  ASSUME Sound, NEW t \in TxIds, NEW c \in Coins, ModifyView(t, c), db' = db
  PROVE  ViewSoundAfter
         /\ \A u \in TxIds : ViewCoins(u)' = IF u = t THEN c ELSE ViewCoins(u)
<1> USE DEF Sound
<1>1. /\ db \in [TxIds -> Coins] /\ tip \in [TxIds -> Entry \cup {NoEntry}]
      /\ view \in [TxIds -> Entry \cup {NoEntry}]
  BY DEF TypeOK
<1>2. ReadBelow(t) /\ view' = [view EXCEPT ![t] = Modified(t, c)]
  BY DEF ModifyView
<1>3. /\ tip' \in [TxIds -> Entry \cup {NoEntry}] /\ tipBest' = tipBest
      /\ TipFlagsSound'
      /\ \A u \in TxIds : TipCoins(u)' = TipCoins(u)
      /\ \A u \in TxIds : tip[u] # NoEntry => tip'[u] # NoEntry
      /\ view[t] = NoEntry /\ ~IsPruned(TipCoins(t)) => tip'[t] # NoEntry
  BY <1>2, ReadBelowStep
<1>4. view'[t] = Modified(t, c) /\ \A u \in TxIds \ {t} : view'[u] = view[u]
  BY <1>1, <1>2
<1>5. TipCoins(t) \in Coins
  BY <1>1 DEF TipCoins, Entry
<1>6. IsFresh(t) => IsPruned(TipCoins(t))
  BY DEF IsFresh, ViewFlagsSound
<1>7. ~IsFresh(t) => tip'[t] # NoEntry
  BY <1>3 DEF IsFresh, ViewBacked
<1>8. IsFresh(t) \in BOOLEAN
  BY <1>1 DEF IsFresh, Entry, IsPruned
<1>9. CASE IsFresh(t) /\ IsPruned(c)
  <2>1. Modified(t, c) = NoEntry
    BY <1>9 DEF Modified
  <2>2. c = TipCoins(t)
    BY <1>5, <1>6, <1>9, CoinsFields
  <2>3. view' \in [TxIds -> Entry \cup {NoEntry}]
    BY <1>1, <1>2, <2>1
  <2>4. ViewFlagsSound' /\ ViewBacked'
    BY <1>3, <1>4, <2>1 DEF ViewFlagsSound, ViewBacked
  <2>5. \A u \in TxIds : ViewCoins(u)' = IF u = t THEN c ELSE ViewCoins(u)
    BY <1>3, <1>4, <2>1, <2>2 DEF ViewCoins
  <2> QED BY <1>3, <2>3, <2>4, <2>5 DEF ViewSoundAfter
<1>10. CASE ~(IsFresh(t) /\ IsPruned(c))
  <2> DEFINE f == IsFresh(t)
  <2>1. Modified(t, c) = [coins |-> c, dirty |-> TRUE, fresh |-> f]
    BY <1>10 DEF Modified
  <2>2. f \in BOOLEAN /\ (f => IsPruned(TipCoins(t))) /\ (~f => tip'[t] # NoEntry)
    BY <1>6, <1>7, <1>8
  <2> HIDE DEF f
  <2>3. view'[t] = [coins |-> c, dirty |-> TRUE, fresh |-> f]
    BY <1>4, <2>1
  <2>4. view'[t] \in Entry /\ view'[t] # NoEntry
    BY <2>2, <2>3, EntryFields
  <2>5. view' \in [TxIds -> Entry \cup {NoEntry}]
    BY <1>1, <1>2, <1>4, <2>4
  <2>6. ViewFlagsSound'
    BY <1>3, <1>4, <2>2, <2>3 DEF ViewFlagsSound
  <2>7. ViewBacked'
    BY <1>3, <1>4, <2>2, <2>3 DEF ViewBacked
  <2>8. \A u \in TxIds : ViewCoins(u)' = IF u = t THEN c ELSE ViewCoins(u)
    BY <1>3, <1>4, <2>3, <2>4 DEF ViewCoins
  <2> QED BY <1>3, <2>5, <2>6, <2>7, <2>8 DEF ViewSoundAfter
<1> QED BY <1>9, <1>10
-----------------------------------------------------------------------------
(* The access at hand is an access of the block.                            *)
LEMMA HereType ==
  ASSUME TypeOK, NEW p, Step(p)
  PROVE  /\ Here \in Access /\ Here.tx \in TxIds /\ Here.n \in OutIdx
         /\ Len(Program) \in Nat /\ job.pos \in Nat /\ job.pos >= 1 /\ job.pos <= Len(Program)
<1>1. Program \in Seq(Access)
  BY CoinsViewAssumption DEF Program, TypeOK, JobType
<1>2. Len(Program) \in Nat
  BY <1>1
<1>3. job.phase = p /\ job.pos \in 1 .. Len(Program)
  BY DEF Step
<1>4. Program[job.pos] \in Access
  BY <1>1, <1>3
<1> QED BY <1>2, <1>3, <1>4 DEF Here, Access

LEMMA IdleType == Idle \in JobType
  BY CoinsViewAssumption DEF Idle, JobType, Phases

LEMMA InitInv == Init => LayerInv
<1> SUFFICES ASSUME Init PROVE LayerInv
  OBVIOUS
<1> USE CoinsViewAssumption DEF Init
<1>1. TypeOK
  BY SpentType DEF TypeOK, EmptyCache, Idle, JobType, Phases
<1>2. UndoFits
  BY DEF UndoFits, Idle
<1>3. TipFlagsSound /\ ViewFlagsSound /\ ViewBacked /\ IdleHasNoView /\ ReadyIsTagged
  BY DEF TipFlagsSound, ViewFlagsSound, ViewBacked, IdleHasNoView, ReadyIsTagged, EmptyCache, Idle
<1> QED BY <1>1, <1>2, <1>3 DEF LayerInv

(* What the caches look like once the view has been thrown away.            *)
LEMMA RejectStep ==
  ASSUME LayerInv, Reject, UNCHANGED <<db, dbBest, undo>>,
         tip' \in [TxIds -> Entry \cup {NoEntry}],
         tipBest' \in Blocks \cup {NoBlock}, TipFlagsSound'
  PROVE  LayerInv'
<1> USE CoinsViewAssumption DEF Reject
<1>1. TypeOK'
  BY DEF LayerInv, TypeOK, EmptyCache, Idle, JobType, Phases
<1>2. UndoFits'
  BY DEF LayerInv, UndoFits, Idle
<1>3. ViewFlagsSound' /\ ViewBacked' /\ IdleHasNoView' /\ ReadyIsTagged'
  BY DEF ViewFlagsSound, ViewBacked, IdleHasNoView, ReadyIsTagged, EmptyCache, Idle
<1> QED BY <1>1, <1>2, <1>3 DEF LayerInv

(* A step of the block at hand that only touches the view and the position. *)
LEMMA WorkStep ==
  ASSUME LayerInv, ViewSoundAfter, UNCHANGED <<db, dbBest, viewBest, undo>>,
         job' \in JobType, job'.phase \notin {"idle", "ready"}, UndoFits'
  PROVE  LayerInv'
<1>1. TypeOK'
  BY DEF LayerInv, TypeOK, ViewSoundAfter
<1>2. IdleHasNoView' /\ ReadyIsTagged'
  BY DEF IdleHasNoView, ReadyIsTagged
<1> QED BY <1>1, <1>2 DEF LayerInv, ViewSoundAfter

LEMMA FetchCoinsInv == LayerInv /\ FetchCoins => LayerInv'
<1> SUFFICES ASSUME LayerInv, NEW t \in TxIds, job.phase = "idle", ReadTip(t),
                    UNCHANGED <<db, dbBest, viewVars, undo, job>>
             PROVE  LayerInv'
  BY DEF FetchCoins
<1>1. /\ tip' \in [TxIds -> Entry \cup {NoEntry}] /\ tipBest' = tipBest
      /\ TipFlagsSound'
  BY ReadTipStep DEF LayerInv
<1>2. TypeOK'
  BY <1>1 DEF LayerInv, TypeOK, viewVars
<1>3. UndoFits'
  BY DEF LayerInv, UndoFits
<1>4. ViewFlagsSound' /\ ViewBacked' /\ IdleHasNoView' /\ ReadyIsTagged'
  BY DEF LayerInv, IdleHasNoView, ReadyIsTagged, viewVars, ViewFlagsSound, ViewBacked, EmptyCache
<1> QED BY <1>1, <1>2, <1>3, <1>4 DEF LayerInv

LEMMA StartConnectInv == LayerInv /\ StartConnect => LayerInv'
<1> SUFFICES ASSUME LayerInv, NEW b \in Blocks, job.phase = "idle",
                    viewBest' = TipBestBlock, tipBest' = TipBestBlock,
                    job' = [Idle EXCEPT !.phase = "bip30", !.block = b, !.pos = 1],
                    UNCHANGED <<db, dbBest, tip, tipUsage, view, viewUsage, undo>>
             PROVE  LayerInv'
  BY DEF StartConnect
<1>1. TypeOK'
  <2>1. job' \in JobType
    BY IdleType DEF Idle, JobType, Phases
  <2>2. TipBestBlock \in Blocks \cup {NoBlock}
    BY DEF LayerInv, TypeOK, TipBestBlock
  <2> QED BY <2>1, <2>2 DEF LayerInv, TypeOK
<1>2. Len(Accesses[b]) \in Nat
  BY CoinsViewAssumption
<1>3. UndoFits'
  BY <1>2 DEF LayerInv, UndoFits, Idle
<1>4. TipFlagsSound' /\ ViewFlagsSound' /\ ViewBacked' /\ IdleHasNoView' /\ ReadyIsTagged'
  BY DEF LayerInv, TipFlagsSound, ViewFlagsSound, ViewBacked, IdleHasNoView, ReadyIsTagged, TipCoins, Idle
<1> QED BY <1>1, <1>3, <1>4 DEF LayerInv

LEMMA CheckBIP30Inv == LayerInv /\ CheckBIP30 => LayerInv'
<1> SUFFICES ASSUME LayerInv, CheckBIP30 PROVE LayerInv'
  OBVIOUS
<1>1. /\ Here.tx \in TxIds /\ Len(Program) \in Nat
      /\ job.phase = "bip30" /\ job.pos \in Nat /\ job.pos >= 1 /\ job.pos <= Len(Program)
  BY HereType DEF CheckBIP30, LayerInv, Step
<1> DEFINE next == [job EXCEPT !.pos = @ + 1]
<1>2. next \in JobType /\ next.phase = "bip30" /\ next.pos = job.pos + 1
      /\ next.block = job.block /\ next.blockundo = job.blockundo
  <2>1. job \in JobType /\ job.pos + 1 \in Nat
    BY <1>1 DEF LayerInv, TypeOK
  <2> QED BY <1>1, <2>1 DEF JobType
<1>3. job' = next /\ undo' = undo => UndoFits'
  BY <1>1, <1>2 DEF LayerInv, UndoFits, Program
<1>4. CASE Here.op = "spend" /\ job' = next /\ UNCHANGED <<tipVars, viewVars>>
  <2>1. ViewSoundAfter
    BY <1>4 DEF LayerInv, ViewSoundAfter, CheckBIP30, tipVars, viewVars, TypeOK,
       TipFlagsSound, ViewFlagsSound, ViewBacked, TipCoins
  <2> QED BY <1>2, <1>3, <1>4, <2>1, WorkStep DEF CheckBIP30, viewVars
<1>5. CASE ReadView(Here.tx) /\ job' = next /\ UNCHANGED viewBest
  <2>1. ViewSoundAfter
    BY <1>1, <1>5, ReadViewStep DEF LayerInv, Sound, CheckBIP30
  <2> QED BY <1>2, <1>3, <1>5, <2>1, WorkStep DEF CheckBIP30
<1>6. CASE ReadBelow(Here.tx) /\ Reject
  BY <1>1, <1>6, ReadBelowStep, RejectStep DEF LayerInv, CheckBIP30, TypeOK
<1> QED BY <1>4, <1>5, <1>6 DEF CheckBIP30

LEMMA StartTransactionsInv == LayerInv /\ StartTransactions => LayerInv'
<1> SUFFICES ASSUME LayerInv, StartTransactions PROVE LayerInv'
  OBVIOUS
<1> DEFINE next == [job EXCEPT !.phase = "connect", !.pos = 1]
<1>1. next \in JobType /\ next.phase = "connect" /\ next.pos = 1
      /\ next.block = job.block /\ next.blockundo = << >>
  BY DEF LayerInv, TypeOK, JobType, Phases, UndoFits, StartTransactions
<1>2. Len(Accesses[job.block]) \in Nat
  BY CoinsViewAssumption DEF LayerInv, TypeOK, JobType
<1>3. UndoFits'
  BY <1>1, <1>2 DEF LayerInv, UndoFits, StartTransactions
<1>4. ViewSoundAfter
  BY DEF LayerInv, ViewSoundAfter, StartTransactions, tipVars, viewVars, TypeOK,
     TipFlagsSound, ViewFlagsSound, ViewBacked, TipCoins
<1> QED BY <1>1, <1>3, <1>4, WorkStep DEF StartTransactions, viewVars

LEMMA SpendInputInv == LayerInv /\ SpendInput => LayerInv'
<1> SUFFICES ASSUME LayerInv, SpendInput PROVE LayerInv'
  OBVIOUS
<1> DEFINE c == ViewCoins(Here.tx)
           rest == MkCoins(c.nHeight, c.vout \ {Here.n})
           next == [job EXCEPT !.pos = @ + 1, !.blockundo = Append(@, UndoHeight(c, rest))]
<1>1. /\ Here.tx \in TxIds /\ Len(Program) \in Nat
      /\ job.phase = "connect" /\ job.pos \in Nat /\ job.pos >= 1 /\ job.pos <= Len(Program)
  BY HereType DEF SpendInput, LayerInv, Step
<1>2. c \in Coins
  BY <1>1, ViewCoinsType DEF LayerInv
<1> HIDE DEF c
<1>3. rest \in Coins /\ UndoHeight(c, rest) \in Heights
  BY <1>2, SpendLeaves
<1> HIDE DEF rest
<1>4. next \in JobType /\ next.phase = "connect" /\ next.pos = job.pos + 1
      /\ next.block = job.block /\ Len(next.blockundo) = Len(job.blockundo) + 1
  <2>1. job \in JobType /\ job.pos + 1 \in Nat /\ job.blockundo \in Seq(Heights)
    BY <1>1 DEF LayerInv, TypeOK, JobType
  <2>2. Append(job.blockundo, UndoHeight(c, rest)) \in Seq(Heights)
        /\ Len(Append(job.blockundo, UndoHeight(c, rest))) = Len(job.blockundo) + 1
    BY <1>3, <2>1
  <2> QED BY <1>1, <2>1, <2>2 DEF JobType
<1>5. job' = next /\ undo' = undo => UndoFits'
  <2>1. job.blockundo \in Seq(Heights)
    BY DEF LayerInv, TypeOK, JobType
  <2> QED BY <1>1, <1>4, <2>1 DEF LayerInv, UndoFits, Program
<1>6. CASE ModifyView(Here.tx, rest) /\ job' = next /\ UNCHANGED viewBest
  <2>1. ViewSoundAfter
    BY <1>1, <1>3, <1>6, ModifyViewStep DEF LayerInv, Sound, SpendInput
  <2> QED BY <1>4, <1>5, <1>6, <2>1, WorkStep DEF SpendInput
<1>7. CASE ReadBelow(Here.tx) /\ Reject
  BY <1>1, <1>7, ReadBelowStep, RejectStep DEF LayerInv, SpendInput, TypeOK
<1> QED BY <1>6, <1>7 DEF SpendInput, c, rest

LEMMA CreateOutputsInv == LayerInv /\ CreateOutputs => LayerInv'
<1> SUFFICES ASSUME LayerInv, CreateOutputs PROVE LayerInv'
  OBVIOUS
<1> DEFINE next == [job EXCEPT !.pos = @ + 1, !.blockundo = Append(@, 0)]
<1>1. /\ Here.tx \in TxIds /\ Len(Program) \in Nat
      /\ job.phase = "connect" /\ job.pos \in Nat /\ job.pos >= 1 /\ job.pos <= Len(Program)
  BY HereType DEF CreateOutputs, LayerInv, Step
<1>2. FromTx(job.block, Here.tx) \in Coins
  BY <1>1, FromTxType DEF LayerInv, TypeOK, JobType
<1>3. next \in JobType /\ next.phase = "connect" /\ next.pos = job.pos + 1
      /\ next.block = job.block /\ Len(next.blockundo) = Len(job.blockundo) + 1
  <2>1. job \in JobType /\ job.pos + 1 \in Nat /\ job.blockundo \in Seq(Heights)
    BY <1>1 DEF LayerInv, TypeOK, JobType
  <2>2. Append(job.blockundo, 0) \in Seq(Heights)
        /\ Len(Append(job.blockundo, 0)) = Len(job.blockundo) + 1
    BY <2>1, CoinsViewAssumption
  <2> QED BY <1>1, <2>1, <2>2 DEF JobType
<1>4. UndoFits'
  <2>1. job.blockundo \in Seq(Heights)
    BY DEF LayerInv, TypeOK, JobType
  <2> QED BY <1>1, <1>3, <2>1 DEF LayerInv, UndoFits, Program, CreateOutputs
<1>5. ViewSoundAfter
  BY <1>1, <1>2, ModifyViewStep DEF LayerInv, Sound, CreateOutputs
<1> QED BY <1>3, <1>4, <1>5, WorkStep DEF CreateOutputs

LEMMA FinishConnectInv == LayerInv /\ FinishConnect => LayerInv'
<1> SUFFICES ASSUME LayerInv, FinishConnect PROVE LayerInv'
  OBVIOUS
<1> DEFINE next == [job EXCEPT !.phase = "ready", !.pos = 0, !.blockundo = << >>]
<1>1. /\ job \in JobType /\ job.block \in Blocks /\ job.blockundo \in Seq(Heights)
      /\ job.phase = "connect" /\ job.pos = Len(Accesses[job.block]) + 1
      /\ Len(job.blockundo) + 1 = job.pos
  BY DEF LayerInv, TypeOK, JobType, FinishConnect, Program, UndoFits
<1>2. \A b \in Blocks : Accesses[b] \in Seq(Access) /\ Len(Accesses[b]) \in Nat
  BY CoinsViewAssumption
<1>3. next \in JobType /\ next.phase = "ready" /\ next.pos = 0 /\ next.block = job.block
  <2>1. << >> \in Seq(Heights) /\ "ready" \in Phases /\ 0 \in Nat
    BY DEF Phases
  <2> QED BY <1>1, <2>1 DEF JobType
<1>4. undo' \in [Blocks -> Seq(Heights)]
  BY <1>1 DEF FinishConnect, LayerInv, TypeOK
<1>5. TypeOK'
  BY <1>1, <1>3, <1>4 DEF FinishConnect, LayerInv, TypeOK, tipVars
<1>6. \A b \in Blocks : undo'[b] # << >> => Len(undo'[b]) = Len(Accesses[b])
  <2>1. Len(job.blockundo) = Len(Accesses[job.block])
    BY <1>1, <1>2
  <2>2. undo \in [Blocks -> Seq(Heights)]
    BY DEF LayerInv, TypeOK
  <2> QED BY <1>1, <2>1, <2>2 DEF FinishConnect, LayerInv, UndoFits
<1>7. UndoFits'
  BY <1>1, <1>2, <1>3, <1>6 DEF FinishConnect, UndoFits
<1>8. TipFlagsSound' /\ ViewFlagsSound' /\ ViewBacked' /\ IdleHasNoView'
  BY <1>3 DEF LayerInv, FinishConnect, TipFlagsSound, ViewFlagsSound, ViewBacked,
     IdleHasNoView, TipCoins, tipVars
<1>9. ReadyIsTagged'
  BY <1>1, CoinsViewAssumption DEF FinishConnect, ReadyIsTagged
<1> QED BY <1>5, <1>7, <1>8, <1>9 DEF LayerInv

LEMMA StartDisconnectInv == LayerInv /\ StartDisconnect => LayerInv'
<1> SUFFICES ASSUME LayerInv, StartDisconnect PROVE LayerInv'
  OBVIOUS
<1>1. /\ TipBestBlock \in Blocks /\ TipBestBlock # Genesis /\ undo[TipBestBlock] # << >>
      /\ viewBest' = TipBestBlock /\ tipBest' = TipBestBlock
      /\ UNCHANGED <<db, dbBest, tip, tipUsage, view, viewUsage, undo>>
  BY DEF StartDisconnect
<1>2. Len(Accesses[TipBestBlock]) \in Nat
  BY <1>1, CoinsViewAssumption
<1>3. /\ job' \in JobType /\ job'.phase = "disconnect"
      /\ job'.block = TipBestBlock /\ job'.pos = Len(Accesses[TipBestBlock])
  BY <1>1, <1>2, IdleType DEF StartDisconnect, Idle, JobType, Phases
<1>4. TypeOK'
  BY <1>1, <1>3 DEF LayerInv, TypeOK
<1>5. UndoFits'
  BY <1>1, <1>2, <1>3 DEF LayerInv, UndoFits
<1>6. TipFlagsSound' /\ ViewFlagsSound' /\ ViewBacked' /\ IdleHasNoView' /\ ReadyIsTagged'
  BY <1>1, <1>3 DEF LayerInv, TipFlagsSound, ViewFlagsSound, ViewBacked, IdleHasNoView, ReadyIsTagged, TipCoins
<1> QED BY <1>4, <1>5, <1>6 DEF LayerInv

(* One step back in the block: the position goes down, nothing else moves.  *)
LEMMA StepBack ==
  ASSUME LayerInv, Step("disconnect"), ViewSoundAfter, UNCHANGED <<db, dbBest, viewBest, undo>>,
         NEW ok \in BOOLEAN, job' = [job EXCEPT !.pos = @ - 1, !.clean = ok]
  PROVE  LayerInv'
<1>1. /\ Len(Program) \in Nat /\ job.phase = "disconnect"
      /\ job.pos \in Nat /\ job.pos >= 1 /\ job.pos <= Len(Program) /\ job \in JobType
  BY HereType DEF LayerInv, Step, TypeOK
<1>2. job.pos - 1 \in Nat
  BY <1>1
<1>3. job' \in JobType /\ job'.phase = "disconnect" /\ job'.pos = job.pos - 1
      /\ job'.block = job.block
  BY <1>1, <1>2 DEF JobType
<1>4. UndoFits'
  BY <1>1, <1>3 DEF LayerInv, UndoFits, Program
<1> QED BY <1>3, <1>4, WorkStep

LEMMA RemoveOutputsInv == LayerInv /\ RemoveOutputs => LayerInv'
<1> SUFFICES ASSUME LayerInv, RemoveOutputs PROVE LayerInv'
  OBVIOUS
<1>1. Here.tx \in TxIds
  BY HereType DEF LayerInv, RemoveOutputs
<1>2. ViewSoundAfter
  BY <1>1, SpentType, ModifyViewStep DEF LayerInv, Sound, RemoveOutputs
<1> DEFINE ok == job.clean /\ ViewCoins(Here.tx) = FromTx(job.block, Here.tx)
<1>3. ok \in BOOLEAN
  BY DEF LayerInv, TypeOK, JobType
<1>4. job' = [job EXCEPT !.pos = @ - 1, !.clean = ok]
  BY DEF RemoveOutputs
<1> HIDE DEF ok
<1> QED BY <1>2, <1>3, <1>4, StepBack DEF RemoveOutputs

LEMMA RestoreInputInv == LayerInv /\ RestoreInput => LayerInv'
<1> SUFFICES ASSUME LayerInv, RestoreInput PROVE LayerInv'
  OBVIOUS
<1> DEFINE c == ViewCoins(Here.tx)
           h == undo[job.block][job.pos]
           new == IF h # 0 THEN MkCoins(h, {Here.n})
                  ELSE MkCoins(c.nHeight, c.vout \cup {Here.n})
           ok == /\ job.clean
                 /\ (h # 0) = IsPruned(c)
                 /\ h # 0 \/ Here.n \notin c.vout
<1>1. /\ Here.tx \in TxIds /\ Here.n \in OutIdx
      /\ job.pos \in 1 .. Len(Accesses[job.block]) /\ job.block \in Blocks
  BY HereType DEF LayerInv, RestoreInput, Step, Program, TypeOK, JobType
<1>2. c \in Coins
  BY <1>1, ViewCoinsType DEF LayerInv
<1>3. h \in Heights
  <2>1. undo[job.block] \in Seq(Heights) /\ Len(undo[job.block]) = Len(Accesses[job.block])
    BY <1>1 DEF LayerInv, TypeOK, UndoFits, RestoreInput, Step
  <2> QED BY <1>1, <2>1
<1> HIDE DEF c, h
<1>4. new \in Coins
  BY <1>1, <1>2, <1>3, CoinsFields, MkCoinsType
<1>5. ModifyView(Here.tx, new) /\ job' = [job EXCEPT !.pos = @ - 1, !.clean = ok]
  BY DEF RestoreInput, c, h
<1>6. ok \in BOOLEAN
  BY DEF LayerInv, TypeOK, JobType
<1> HIDE DEF new, ok
<1>7. ViewSoundAfter
  BY <1>1, <1>4, <1>5, ModifyViewStep DEF LayerInv, Sound, RestoreInput
<1> QED BY <1>5, <1>6, <1>7, StepBack DEF RestoreInput

LEMMA FinishDisconnectInv == LayerInv /\ FinishDisconnect => LayerInv'
<1> SUFFICES ASSUME LayerInv, FinishDisconnect PROVE LayerInv'
  OBVIOUS
<1>1. CASE job.clean
  <2>1. /\ job \in JobType /\ job.block \in Blocks /\ job.pos = 0 /\ job.phase = "disconnect"
        /\ viewBest' = Parent[job.block] /\ job' = [job EXCEPT !.phase = "ready"]
        /\ UNCHANGED <<db, dbBest, tip, tipBest, undo, view>>
    BY <1>1 DEF LayerInv, TypeOK, JobType, FinishDisconnect, tipVars
  <2>2. job' \in JobType /\ job'.phase = "ready" /\ job'.pos = 0 /\ job'.block = job.block
    BY <2>1 DEF JobType, Phases
  <2>3. TypeOK'
    BY <2>1, <2>2, CoinsViewAssumption DEF LayerInv, TypeOK
  <2>4. UndoFits'
    BY <2>1, <2>2 DEF LayerInv, UndoFits
  <2>5. TipFlagsSound' /\ ViewFlagsSound' /\ ViewBacked' /\ IdleHasNoView'
    BY <2>1, <2>2 DEF LayerInv, TipFlagsSound, ViewFlagsSound, ViewBacked, IdleHasNoView, TipCoins
  <2>6. ReadyIsTagged'
    BY <2>1, CoinsViewAssumption DEF LayerInv, UndoFits, ReadyIsTagged
  <2> QED BY <2>3, <2>4, <2>5, <2>6 DEF LayerInv
<1>2. CASE ~job.clean
  BY <1>2, RejectStep DEF FinishDisconnect, LayerInv, TypeOK, tipVars, TipFlagsSound
<1> QED BY <1>1, <1>2

LEMMA DropInv == LayerInv /\ Drop => LayerInv'
  BY RejectStep DEF Drop, LayerInv, TypeOK, tipVars, TipFlagsSound

LEMMA CrashInv == LayerInv /\ Crash => LayerInv'
<1> SUFFICES ASSUME LayerInv, Crash PROVE LayerInv'
  OBVIOUS
<1>1. /\ tip' \in [TxIds -> Entry \cup {NoEntry}]
      /\ tipBest' \in Blocks \cup {NoBlock} /\ TipFlagsSound'
  BY DEF Crash, EmptyCache, TipFlagsSound
<1> QED BY <1>1, RejectStep DEF Crash

(* What BatchWrite makes of one record of the node's cache: a legal, sound  *)
(* entry through which the node now reads what the view held.               *)
LEMMA MergeStep ==
  ASSUME LayerInv, NEW t \in TxIds
  PROVE  LET m == Merged(tip[t], view[t])
         IN  /\ m \in Entry \cup {NoEntry}
             /\ m # NoEntry => /\ m.fresh <=> IsPruned(db[t])
                               /\ ~m.dirty => m.coins = db[t]
             /\ (IF m = NoEntry THEN db[t] ELSE m.coins) = ViewCoins(t)
<1> DEFINE p == tip[t]
           e == view[t]
<1>1. p \in Entry \cup {NoEntry} /\ e \in Entry \cup {NoEntry} /\ db[t] \in Coins
  BY DEF LayerInv, TypeOK
<1>2. NoEntry \notin Entry
  BY CoinsViewAssumption
<1>3. p # NoEntry => (p.fresh <=> IsPruned(db[t])) /\ (~p.dirty => p.coins = db[t])
  BY DEF LayerInv, TipFlagsSound
<1>4. e # NoEntry => /\ e.fresh => IsPruned(TipCoins(t))
                     /\ ~e.fresh => p # NoEntry
                     /\ ~e.dirty => e.coins = TipCoins(t)
  BY DEF LayerInv, ViewFlagsSound, ViewBacked
<1>5. TipCoins(t) = IF p = NoEntry THEN db[t] ELSE p.coins
  BY DEF TipCoins
<1>6. ViewCoins(t) = IF e = NoEntry THEN TipCoins(t) ELSE e.coins
  BY DEF ViewCoins
<1>7. \A x \in Entry : x.coins \in Coins /\ x.dirty \in BOOLEAN /\ x.fresh \in BOOLEAN
  BY DEF Entry
<1> HIDE DEF p, e
<1>8. CASE e = NoEntry \/ ~e.dirty
  <2>1. Merged(p, e) = p
    BY <1>8 DEF Merged
  <2> QED BY <1>1, <1>3, <1>4, <1>5, <1>6, <1>8, <2>1 DEF p, e
<1>9. CASE e # NoEntry /\ e.dirty /\ p = NoEntry /\ IsPruned(e.coins)
  <2>1. Merged(p, e) = NoEntry
    BY <1>9 DEF Merged
  <2>2. e.coins = Spent /\ db[t] = Spent
    BY <1>1, <1>4, <1>5, <1>7, <1>9, CoinsFields
  <2> QED BY <1>6, <1>9, <2>1, <2>2 DEF p, e
<1>10. CASE e # NoEntry /\ e.dirty /\ p = NoEntry /\ ~IsPruned(e.coins)
  <2>1. Merged(p, e) = [coins |-> e.coins, dirty |-> TRUE, fresh |-> TRUE]
    BY <1>10 DEF Merged
  <2>2. Merged(p, e) \in Entry /\ Merged(p, e) # NoEntry
    BY <1>1, <1>7, <1>10, <2>1, EntryFields
  <2>3. IsPruned(db[t])
    BY <1>4, <1>5, <1>10
  <2> QED BY <1>6, <1>10, <2>1, <2>2, <2>3 DEF p, e
<1>11. CASE e # NoEntry /\ e.dirty /\ p # NoEntry /\ p.fresh /\ IsPruned(e.coins)
  <2>1. Merged(p, e) = NoEntry
    BY <1>11 DEF Merged
  <2>2. e.coins = Spent /\ db[t] = Spent
    BY <1>1, <1>3, <1>7, <1>11, CoinsFields
  <2> QED BY <1>6, <1>11, <2>1, <2>2 DEF p, e
<1>12. CASE e # NoEntry /\ e.dirty /\ p # NoEntry /\ ~(p.fresh /\ IsPruned(e.coins))
  <2>1. Merged(p, e) = [p EXCEPT !.coins = e.coins, !.dirty = TRUE]
    BY <1>12 DEF Merged
  <2>2. p \in Entry /\ e \in Entry
    BY <1>1, <1>12
  <2>3. /\ Merged(p, e) \in Entry /\ Merged(p, e).coins = e.coins
        /\ Merged(p, e).dirty = TRUE /\ Merged(p, e).fresh = p.fresh
    BY <1>7, <2>1, <2>2 DEF Entry
  <2> QED BY <1>2, <1>3, <1>6, <1>12, <2>3 DEF p, e
<1> QED BY <1>8, <1>9, <1>10, <1>11, <1>12

LEMMA FlushViewInv ==
  LayerInv /\ FlushView => LayerInv' /\ \A t \in TxIds : TipCoins(t)' = ViewCoins(t)
<1> SUFFICES ASSUME LayerInv, FlushView
             PROVE  LayerInv' /\ \A t \in TxIds : TipCoins(t)' = ViewCoins(t)
  OBVIOUS
<1>1. tip' = [t \in TxIds |-> Merged(tip[t], view[t])] /\ tipBest' = viewBest
  BY DEF FlushView, BatchWriteTip
<1>2. tip' \in [TxIds -> Entry \cup {NoEntry}] /\ TipFlagsSound'
      /\ \A t \in TxIds : TipCoins(t)' = ViewCoins(t)
  <2>1. db' = db /\ \A t \in TxIds : tip'[t] = Merged(tip[t], view[t])
    BY <1>1 DEF FlushView
  <2>2. \A t \in TxIds : /\ tip'[t] \in Entry \cup {NoEntry}
                         /\ tip'[t] # NoEntry => /\ tip'[t].fresh <=> IsPruned(db[t])
                                                 /\ ~tip'[t].dirty => tip'[t].coins = db[t]
                         /\ (IF tip'[t] = NoEntry THEN db[t] ELSE tip'[t].coins) = ViewCoins(t)
    BY <2>1, MergeStep
  <2> QED BY <1>1, <2>1, <2>2 DEF TipFlagsSound, TipCoins
<1>3. Reject /\ UNCHANGED <<db, dbBest, undo>>
  BY DEF FlushView, Reject
<1>4. tipBest' \in Blocks \cup {NoBlock}
  BY <1>1 DEF LayerInv, TypeOK
<1> QED BY <1>2, <1>3, <1>4, RejectStep

LEMMA FlushTipInv ==
  LayerInv /\ FlushTip
    => LayerInv' /\ \A t \in TxIds : TipCoins(t)' = TipCoins(t) /\ db'[t] = TipCoins(t)
<1> SUFFICES ASSUME LayerInv, FlushTip
             PROVE  LayerInv' /\ \A t \in TxIds : TipCoins(t)' = TipCoins(t) /\ db'[t] = TipCoins(t)
  OBVIOUS
<1>1. /\ db' = [t \in TxIds |-> Written(t)] /\ tip' = EmptyCache
      /\ dbBest' = IF tipBest = NoBlock THEN dbBest ELSE tipBest
      /\ job.phase = "idle" /\ UNCHANGED <<tipBest, view, viewBest, viewUsage, undo, job>>
  BY DEF FlushTip, viewVars
<1>2. \A t \in TxIds : Written(t) = TipCoins(t) /\ TipCoins(t) \in Coins
  BY TipCoinsType DEF LayerInv, TipFlagsSound, Written, TipCoins
<1>3. db' \in [TxIds -> Coins] /\ \A t \in TxIds : db'[t] = TipCoins(t)
  BY <1>1, <1>2
<1>4. TypeOK'
  BY <1>1, <1>3 DEF LayerInv, TypeOK, EmptyCache
<1>5. UndoFits'
  BY <1>1 DEF LayerInv, UndoFits
<1>6. TipFlagsSound' /\ ViewFlagsSound' /\ ViewBacked' /\ IdleHasNoView' /\ ReadyIsTagged'
  BY <1>1 DEF LayerInv, TipFlagsSound, ViewFlagsSound, ViewBacked, IdleHasNoView, ReadyIsTagged, EmptyCache
<1>7. \A t \in TxIds : TipCoins(t)' = db'[t]
  BY <1>1 DEF TipCoins, EmptyCache
<1> QED BY <1>3, <1>4, <1>5, <1>6, <1>7 DEF LayerInv
-----------------------------------------------------------------------------
LEMMA NextInv == LayerInv /\ [Next]_vars => LayerInv'
<1> SUFFICES ASSUME LayerInv, [Next]_vars PROVE LayerInv'
  OBVIOUS
<1>1. CASE UNCHANGED vars
  BY <1>1 DEF vars, LayerInv, TypeOK, UndoFits, TipFlagsSound, ViewFlagsSound, ViewBacked,
     IdleHasNoView, ReadyIsTagged, TipCoins
<1>2. CASE Next
  BY <1>2, FetchCoinsInv, StartConnectInv, CheckBIP30Inv, StartTransactionsInv, SpendInputInv,
     CreateOutputsInv, FinishConnectInv, StartDisconnectInv, RemoveOutputsInv, RestoreInputInv,
     FinishDisconnectInv, DropInv, FlushViewInv, FlushTipInv, CrashInv
     DEF Next, ConnectSteps, DisconnectSteps
<1> QED BY <1>1, <1>2

(* The flags of both caches mean what coins.h says in every reachable       *)
(* state, whatever blocks are connected, disconnected, rejected or flushed  *)
(* (BatchWrite, FetchCoins and ModifyCoins of coins.cpp).                   *)
THEOREM LayersSound == Spec => []LayerInv
<1>1. Init => LayerInv
  BY InitInv
<1>2. LayerInv /\ [Next]_vars => LayerInv'
  BY NextInv
<1> QED BY <1>1, <1>2, PTL DEF Spec

(* The members of the caches keep their types, and a record stays canonical *)
(* (CCoins::Cleanup).                                                       *)
THEOREM TypesOK == Spec => []TypeOK
<1>1. LayerInv => TypeOK
  BY DEF LayerInv
<1> QED BY <1>1, LayersSound, PTL

(* "assert(it->second.flags & CCoinsCacheEntry::FRESH)" in BatchWrite never *)
(* fails.                                                                   *)
THEOREM BatchWriteNeverAsserts == Spec => []BatchWriteAssertion
<1>1. LayerInv => BatchWriteAssertion
  BY DEF LayerInv, ViewBacked, BatchWriteAssertion
<1> QED BY <1>1, LayersSound, PTL
-----------------------------------------------------------------------------
(* A step after which every level reads as before is a stutter below.       *)
LEMMA SameStore ==
  ASSUME UNCHANGED <<db, dbBest>>, TipBestBlock' = TipBestBlock, ViewBestBlock' = ViewBestBlock,
         \A t \in TxIds : TipCoins(t)' = TipCoins(t) /\ ViewCoins(t)' = ViewCoins(t)
  PROVE  UNCHANGED <<Disk, Mem, Work>>
  BY DEF Disk, Mem, Work

(* A CCoinsModifier on the view writes one record of Work.                  *)
LEMMA ModifyIsWrite ==
  ASSUME LayerInv, NEW t \in TxIds, NEW c \in Coins, ModifyView(t, c),
         UNCHANGED <<db, dbBest, viewBest>>
  PROVE  Store!Write
<1>1. /\ tipBest' = tipBest
      /\ \A u \in TxIds : TipCoins(u)' = TipCoins(u)
      /\ \A u \in TxIds : ViewCoins(u)' = IF u = t THEN c ELSE ViewCoins(u)
  BY ModifyViewStep DEF LayerInv, Sound, ViewSoundAfter
<1>2. TipBestBlock' = TipBestBlock /\ ViewBestBlock' = ViewBestBlock
  BY <1>1 DEF TipBestBlock, ViewBestBlock
<1>3. UNCHANGED <<Disk, Mem>>
  BY <1>1, <1>2 DEF Disk, Mem
<1>4. Work' = [Work EXCEPT !.coins[t] = c]
  <2> DEFINE before == [u \in TxIds |-> ViewCoins(u)]
  <2>1. [u \in TxIds |-> ViewCoins(u)'] = [before EXCEPT ![t] = c]
    BY <1>1
  <2>2. Work' = [coins |-> [u \in TxIds |-> ViewCoins(u)'], best |-> ViewBestBlock']
    BY DEF Work
  <2>3. Work = [coins |-> before, best |-> ViewBestBlock]
    BY DEF Work
  <2> HIDE DEF before
  <2> QED BY <1>2, <2>1, <2>2, <2>3
<1> QED BY <1>3, <1>4 DEF Store!Write

(* A view that is thrown away leaves what the node's cache says.            *)
LEMMA RejectIsDiscard ==
  ASSUME Reject, UNCHANGED <<db, dbBest, tipBest>>,
         \A t \in TxIds : TipCoins(t)' = TipCoins(t)
  PROVE  Store!Discard
<1>1. TipBestBlock' = TipBestBlock /\ ViewBestBlock' = TipBestBlock
  BY DEF Reject, TipBestBlock, ViewBestBlock
<1>2. \A t \in TxIds : ViewCoins(t)' = TipCoins(t)
  BY DEF Reject, EmptyCache, ViewCoins
<1>3. UNCHANGED <<Disk, Mem>> /\ Work' = Mem
  BY <1>1, <1>2 DEF Disk, Mem, Work
<1> QED BY <1>3 DEF Store!Discard

(* A finished view that is told its block tags Work.                        *)
LEMMA TagStep ==
  ASSUME NEW b \in Blocks, viewBest' = b, UNCHANGED <<db, dbBest, tip, tipBest, view>>
  PROVE  Store!Tag
<1>1. b # NoBlock
  BY CoinsViewAssumption
<1>2. \A t \in TxIds : TipCoins(t)' = TipCoins(t) /\ ViewCoins(t)' = ViewCoins(t)
  BY DEF TipCoins, ViewCoins
<1>3. TipBestBlock' = TipBestBlock /\ ViewBestBlock' = b
  BY <1>1 DEF TipBestBlock, ViewBestBlock
<1>4. UNCHANGED <<Disk, Mem>>
  BY <1>2, <1>3 DEF Disk, Mem
<1> DEFINE held == [t \in TxIds |-> ViewCoins(t)]
<1>5. Work' = [coins |-> held, best |-> b]
  BY <1>2, <1>3 DEF Work
<1>6. Work = [coins |-> held, best |-> ViewBestBlock]
  BY DEF Work
<1> HIDE DEF held
<1>7. Work' = [Work EXCEPT !.best = b]
  BY <1>5, <1>6
<1> QED BY <1>4, <1>7 DEF Store!Tag

LEMMA InitStore == Init => Store!StoreInit
<1> SUFFICES ASSUME Init PROVE Store!StoreInit
  OBVIOUS
<1>1. \A t \in TxIds : db[t] = Spent /\ TipCoins(t) = Spent /\ ViewCoins(t) = Spent
  BY DEF Init, EmptyCache, TipCoins, ViewCoins
<1>2. db = [t \in TxIds |-> Spent] /\ dbBest = NoBlock
      /\ TipBestBlock = NoBlock /\ ViewBestBlock = NoBlock
  BY DEF Init, TipBestBlock, ViewBestBlock
<1> QED BY <1>1, <1>2 DEF Store!StoreInit, Store!Empty, Disk, Mem, Work

LEMMA ConnectStepsRefine ==
  ASSUME LayerInv, LayerInv', ConnectSteps
  PROVE  Store!StoreNext \/ UNCHANGED <<Disk, Mem, Work>>
<1> USE DEF Store!StoreNext
<1>1. CASE CheckBIP30
  <2>1. Here.tx \in TxIds
    BY <1>1, HereType DEF LayerInv, CheckBIP30
  <2>2. CASE UNCHANGED <<tipVars, viewVars>>
    BY <1>1, <2>2, SameStore DEF CheckBIP30, tipVars, viewVars, TipBestBlock, ViewBestBlock,
       TipCoins, ViewCoins
  <2>3. CASE ReadView(Here.tx) /\ UNCHANGED viewBest
    <3>1. /\ tipBest' = tipBest
          /\ \A u \in TxIds : TipCoins(u)' = TipCoins(u) /\ ViewCoins(u)' = ViewCoins(u)
      BY <1>1, <2>1, <2>3, ReadViewStep DEF LayerInv, Sound, ViewSoundAfter, CheckBIP30
    <3> QED BY <1>1, <2>3, <3>1, SameStore DEF CheckBIP30, TipBestBlock, ViewBestBlock
  <2>4. CASE ReadBelow(Here.tx) /\ Reject
    BY <1>1, <2>1, <2>4, ReadBelowStep, RejectIsDiscard DEF LayerInv, CheckBIP30
  <2> QED BY <1>1, <2>2, <2>3, <2>4 DEF CheckBIP30
<1>2. CASE StartTransactions
  BY <1>2, SameStore DEF StartTransactions, tipVars, viewVars, TipBestBlock, ViewBestBlock,
     TipCoins, ViewCoins
<1>3. CASE SpendInput
  <2> DEFINE c == ViewCoins(Here.tx)
             rest == MkCoins(c.nHeight, c.vout \ {Here.n})
  <2>1. Here.tx \in TxIds
    BY <1>3, HereType DEF LayerInv, SpendInput
  <2>2. c \in Coins
    BY <2>1, ViewCoinsType DEF LayerInv
  <2>3. rest \in Coins
    BY <2>2, CoinsFields, MkCoinsType
  <2> HIDE DEF c, rest
  <2>4. CASE ModifyView(Here.tx, rest) /\ UNCHANGED viewBest
    BY <1>3, <2>1, <2>3, <2>4, ModifyIsWrite DEF SpendInput
  <2>5. CASE ReadBelow(Here.tx) /\ Reject
    BY <1>3, <2>1, <2>5, ReadBelowStep, RejectIsDiscard DEF LayerInv, SpendInput
  <2> QED BY <1>3, <2>4, <2>5 DEF SpendInput, c, rest
<1>4. CASE CreateOutputs
  <2>1. Here.tx \in TxIds /\ job.block \in Blocks
    BY <1>4, HereType DEF LayerInv, CreateOutputs, TypeOK, JobType
  <2> QED BY <1>4, <2>1, FromTxType, ModifyIsWrite DEF CreateOutputs
<1>5. CASE FinishConnect
  <2>1. job.block \in Blocks /\ viewBest' = job.block /\ job.block # NoBlock
        /\ UNCHANGED <<db, dbBest, tip, tipBest, view>>
    BY <1>5, CoinsViewAssumption DEF LayerInv, TypeOK, JobType, FinishConnect, tipVars
  <2> QED BY <2>1, TagStep
<1> QED BY <1>1, <1>2, <1>3, <1>4, <1>5 DEF ConnectSteps

LEMMA DisconnectStepsRefine ==
  ASSUME LayerInv, LayerInv', DisconnectSteps
  PROVE  Store!StoreNext \/ UNCHANGED <<Disk, Mem, Work>>
<1> USE DEF Store!StoreNext
<1>1. CASE RemoveOutputs
  <2>1. Here.tx \in TxIds
    BY <1>1, HereType DEF LayerInv, RemoveOutputs
  <2> QED BY <1>1, <2>1, SpentType, ModifyIsWrite DEF RemoveOutputs
<1>2. CASE RestoreInput
  <2> DEFINE c == ViewCoins(Here.tx)
             h == undo[job.block][job.pos]
             new == IF h # 0 THEN MkCoins(h, {Here.n})
                    ELSE MkCoins(c.nHeight, c.vout \cup {Here.n})
  <2>1. /\ Here.tx \in TxIds /\ Here.n \in OutIdx
        /\ job.pos \in 1 .. Len(Accesses[job.block]) /\ job.block \in Blocks
    BY <1>2, HereType DEF LayerInv, RestoreInput, Step, Program, TypeOK, JobType
  <2>2. c \in Coins
    BY <2>1, ViewCoinsType DEF LayerInv
  <2>3. h \in Heights
    <3>1. undo[job.block] \in Seq(Heights) /\ Len(undo[job.block]) = Len(Accesses[job.block])
      BY <1>2, <2>1 DEF LayerInv, TypeOK, UndoFits, RestoreInput, Step
    <3> QED BY <2>1, <3>1
  <2> HIDE DEF c, h
  <2>4. new \in Coins
    BY <2>1, <2>2, <2>3, CoinsFields, MkCoinsType
  <2>5. ModifyView(Here.tx, new)
    BY <1>2 DEF RestoreInput, c, h
  <2> HIDE DEF new
  <2> QED BY <1>2, <2>1, <2>4, <2>5, ModifyIsWrite DEF RestoreInput
<1>3. CASE FinishDisconnect
  <2>1. CASE job.clean
    <3>1. Parent[job.block] \in Blocks \cup {NoBlock} /\ viewBest' = Parent[job.block]
          /\ Parent[job.block] # NoBlock
          /\ UNCHANGED <<db, dbBest, tip, tipBest, view>>
      BY <1>3, <2>1, CoinsViewAssumption
         DEF LayerInv, TypeOK, JobType, UndoFits, FinishDisconnect, tipVars
    <3> QED BY <3>1, TagStep
  <2>2. CASE ~job.clean
    BY <1>3, <2>2, RejectIsDiscard DEF FinishDisconnect, tipVars, TipCoins
  <2> QED BY <2>1, <2>2
<1> QED BY <1>1, <1>2, <1>3 DEF DisconnectSteps

LEMMA NextRefines ==
  ASSUME LayerInv, LayerInv', [Next]_vars
  PROVE  Store!StoreNext \/ UNCHANGED <<Disk, Mem, Work>>
<1> USE DEF Store!StoreNext
<1>1. CASE UNCHANGED vars
  BY <1>1, SameStore DEF vars, TipBestBlock, ViewBestBlock, TipCoins, ViewCoins
<1>2. CASE FetchCoins
  <2>1. PICK t \in TxIds : ReadTip(t) /\ UNCHANGED <<db, dbBest, viewVars>>
    BY <1>2 DEF FetchCoins
  <2>2. tipBest' = tipBest /\ \A u \in TxIds : TipCoins(u)' = TipCoins(u)
    BY <2>1, ReadTipStep DEF LayerInv
  <2> QED BY <2>1, <2>2, SameStore DEF viewVars, TipBestBlock, ViewBestBlock, ViewCoins
<1>3. CASE StartConnect \/ StartDisconnect
  <2>1. /\ job.phase = "idle" /\ viewBest' = TipBestBlock /\ tipBest' = TipBestBlock
        /\ UNCHANGED <<db, dbBest, tip, view>>
    BY <1>3 DEF StartConnect, StartDisconnect
  <2>2. viewBest = NoBlock
    BY <2>1 DEF LayerInv, IdleHasNoView
  <2> QED BY <2>1, <2>2, SameStore DEF TipBestBlock, ViewBestBlock, TipCoins, ViewCoins
<1>4. CASE Drop
  BY <1>4, RejectIsDiscard DEF Drop, tipVars, TipCoins
<1>5. CASE FlushView
  <2>1. \A t \in TxIds : TipCoins(t)' = ViewCoins(t)
    BY <1>5, FlushViewInv
  <2>2. viewBest # NoBlock /\ tipBest' = viewBest /\ view' = EmptyCache /\ viewBest' = NoBlock
        /\ UNCHANGED <<db, dbBest>>
    BY <1>5 DEF LayerInv, ReadyIsTagged, FlushView, BatchWriteTip
  <2>3. \A t \in TxIds : ViewCoins(t)' = TipCoins(t)'
    BY <2>2 DEF ViewCoins, EmptyCache
  <2>4. TipBestBlock' = ViewBestBlock /\ ViewBestBlock' = ViewBestBlock
    BY <2>2 DEF TipBestBlock, ViewBestBlock
  <2>5. UNCHANGED <<Disk, Work>> /\ Mem' = Work
    BY <2>1, <2>2, <2>3, <2>4 DEF Disk, Mem, Work
  <2> QED BY <2>5 DEF Store!Commit
<1>6. CASE FlushTip
  <2>1. \A t \in TxIds : TipCoins(t)' = TipCoins(t) /\ db'[t] = TipCoins(t)
    BY <1>6, FlushTipInv
  <2>2. /\ db' = [t \in TxIds |-> Written(t)] /\ dbBest' = TipBestBlock
        /\ UNCHANGED <<tipBest, view, viewBest>>
    BY <1>6 DEF FlushTip, TipBestBlock, viewVars
  <2>3. db' = [t \in TxIds |-> TipCoins(t)]
    BY <2>1, <2>2
  <2>4. TipBestBlock' = TipBestBlock /\ ViewBestBlock' = ViewBestBlock
    BY <2>2 DEF TipBestBlock, ViewBestBlock
  <2>5. \A t \in TxIds : ViewCoins(t)' = ViewCoins(t)
    BY <2>1, <2>2 DEF ViewCoins
  <2>6. Disk' = Mem /\ UNCHANGED <<Mem, Work>>
    BY <2>1, <2>2, <2>3, <2>4, <2>5 DEF Disk, Mem, Work
  <2> QED BY <2>6 DEF Store!Sync
<1>7. CASE Crash
  <2>1. /\ tip' = EmptyCache /\ tipBest' = NoBlock /\ view' = EmptyCache /\ viewBest' = NoBlock
        /\ UNCHANGED <<db, dbBest>>
    BY <1>7 DEF Crash, Reject
  <2>2. \A t \in TxIds : TipCoins(t)' = db[t] /\ ViewCoins(t)' = db[t]
    BY <2>1 DEF EmptyCache, TipCoins, ViewCoins
  <2>3. TipBestBlock' = dbBest /\ ViewBestBlock' = dbBest
    BY <2>1 DEF TipBestBlock, ViewBestBlock
  <2>4. db = [t \in TxIds |-> db[t]]
    BY DEF LayerInv, TypeOK
  <2>5. Mem' = Disk /\ Work' = Disk /\ UNCHANGED Disk
    BY <2>1, <2>2, <2>3, <2>4 DEF Disk, Mem, Work
  <2> QED BY <2>5 DEF Store!Crash
<1> QED BY <1>1, <1>2, <1>3, <1>4, <1>5, <1>6, <1>7, ConnectStepsRefine, DisconnectStepsRefine
        DEF Next

(* The three stacked views with their flags, lazily read best blocks and    *)
(* partial flushes implement the three plain maps of UtxoStore: a block is  *)
(* visible entirely or not at all, and a crash returns to the last flush    *)
(* (Flush and BatchWrite of coins.cpp, CCoinsViewDB::BatchWrite).           *)
THEOREM CoinsViewRefines == Spec => ImplementsUtxoStore
<1>1. Init => Store!StoreInit
  BY InitStore
<1>2. LayerInv /\ LayerInv' /\ [Next]_vars => [Store!StoreNext]_<<Disk, Mem, Work>>
  BY NextRefines
<1> QED BY <1>1, <1>2, LayersSound, PTL
        DEF Spec, ImplementsUtxoStore, Store!StoreSpec, Store!storeVars
-----------------------------------------------------------------------------
(* The UTXO set of a block is what its definition says. A nonempty set of   *)
(* numbers has a smallest element.                                          *)
LEMMA LeastNumber ==
  ASSUME NEW T \in SUBSET Nat, T # {}
  PROVE  \E n \in T : \A m \in T : n <= m
<1> DEFINE R == OpToRel(<, Nat)
<1>1. \A n, m \in Nat : m < n => <<m, n>> \in R
  BY DEF OpToRel
<1>2. IsWellFoundedOn(R, Nat)
  BY NatLessThanWellFounded, Zenon
<1> HIDE DEF R
<1>3. PICK n \in T : \A m \in T : ~(<<m, n>> \in R)
  BY <1>2, WFMin, Zenon
<1>4. \A m \in T : ~(m < n)
  BY <1>1, <1>3
<1> QED BY <1>4

(* The first i accesses of b, one after the other: a function like that is  *)
(* there, and AfterAccesses is it.                                          *)
After(f, u, b, n) == f = [i \in 0 .. n |-> IF i = 0 THEN u ELSE Applied(f[i - 1], b, Accesses[b][i])]

LEMMA LastIsOne ==
  ASSUME NEW u, NEW b
  PROVE  \A n \in Nat : \E f : After(f, u, b, n)
<1> DEFINE T == {n \in Nat : ~ \E f : After(f, u, b, n)}
<1>1. SUFFICES ASSUME T # {} PROVE FALSE
  OBVIOUS
<1>2. PICK n \in T : \A m \in T : n <= m
  BY <1>1, LeastNumber
<1>3. CASE n = 0
  <2>1. PICK f : f = [i \in 0 .. 0 |-> u]
    OBVIOUS
  <2>2. \A i \in 0 .. 0 : i = 0
    OBVIOUS
  <2>3. After(f, u, b, 0)
    BY <2>1, <2>2 DEF After
  <2> QED BY <1>2, <1>3, <2>3
<1>4. CASE n # 0
  <2>1. n \in Nat /\ n - 1 \in Nat /\ n - 1 \notin T
    BY <1>2, <1>4
  <2>2. PICK g : After(g, u, b, n - 1)
    BY <2>1
  <2>3. PICK f : f = [i \in 0 .. n |-> IF i = 0 THEN u ELSE Applied(g[i - 1], b, Accesses[b][i])]
    OBVIOUS
  <2>4. \A i \in 0 .. n - 1 : f[i] = g[i]
    BY <2>1, <2>2, <2>3 DEF After
  <2>5. \A i \in 0 .. n : i # 0 => f[i - 1] = g[i - 1]
    BY <2>1, <2>4
  <2>6. After(f, u, b, n)
    BY <2>3, <2>5 DEF After
  <2> QED BY <1>2, <2>6
<1> QED BY <1>3, <1>4

LEMMA AfterAccessesIs ==
  ASSUME NEW u, NEW b \in Blocks
  PROVE  /\ AfterAccesses(u, b)[0] = u
         /\ \A i \in 1 .. Len(Accesses[b]) :
              AfterAccesses(u, b)[i] = Applied(AfterAccesses(u, b)[i - 1], b, Accesses[b][i])
<1>1. PICK n \in Nat : n = Len(Accesses[b])
  BY CoinsViewAssumption
<1>2. AfterAccesses(u, b) = CHOOSE f : After(f, u, b, Len(Accesses[b]))
  BY Zenon DEF AfterAccesses, After
<1>3. PICK f : f = AfterAccesses(u, b) /\ f = CHOOSE g : After(g, u, b, n)
  BY <1>1, <1>2
<1>4. After(f, u, b, n)
  BY <1>3, LastIsOne, Zenon
<1>5. f[0] = u /\ \A i \in 1 .. n : f[i] = Applied(f[i - 1], b, Accesses[b][i])
  BY <1>4 DEF After
<1> QED BY <1>1, <1>3, <1>5

-----------------------------------------------------------------------------
(* The genesis block stands on the null hash, and every other block is one  *)
(* higher than the one it stands on.                                        *)
Known == Blocks \cup {NoBlock}
Rank(x) == IF x = NoBlock THEN 0 ELSE Height[x] + 1

LEMMA RankIs ==
  /\ \A x \in Known : Rank(x) \in Nat
  /\ \A b \in Blocks : b # NoBlock /\ Parent[b] \in Known /\ Rank(b) = Rank(Parent[b]) + 1
<1>1. ASSUME NEW b \in Blocks PROVE b # NoBlock /\ Rank(b) = Height[b] + 1 /\ Height[b] \in Nat
  BY CoinsViewAssumption DEF Rank
<1>2. \A x \in Known : Rank(x) \in Nat
  BY <1>1 DEF Known, Rank
<1>3. ASSUME NEW b \in Blocks PROVE Parent[b] \in Known /\ Rank(b) = Rank(Parent[b]) + 1
  <2>1. CASE b = Genesis
    BY <1>1, <2>1, CoinsViewAssumption DEF Known, Rank
  <2>2. CASE b # Genesis
    <3>1. Parent[b] \in Blocks /\ Height[b] = Height[Parent[b]] + 1
      BY <2>2, CoinsViewAssumption
    <3> QED BY <1>1, <3>1 DEF Known
  <2> QED BY <2>1, <2>2
<1> QED BY <1>1, <1>2, <1>3

(* The state a block leaves of u, and the states of all blocks of at most   *)
(* rank n.                                                                  *)
Left(u, b) == AfterAccesses(u, b)[Len(Accesses[b])]
Empty == [t \in TxIds |-> Spent]
Low(n) == {x \in Known : Rank(x) <= n}
States(f, D) == f = [b \in D |-> IF b = NoBlock THEN Empty ELSE Left(f[Parent[b]], b)]

LEMMA StatesThere == \A n \in Nat : \E f : States(f, Low(n))
<1> DEFINE T == {n \in Nat : ~ \E f : States(f, Low(n))}
<1>1. SUFFICES ASSUME T # {} PROVE FALSE
  OBVIOUS
<1>2. PICK n \in T : \A m \in T : n <= m
  BY <1>1, LeastNumber
<1>3. CASE n = 0
  <2>1. \A x \in Low(0) : x = NoBlock
    BY RankIs DEF Low, Known
  <2>2. PICK f : f = [b \in Low(0) |-> Empty]
    OBVIOUS
  <2>3. States(f, Low(0))
    BY <2>1, <2>2 DEF States
  <2> QED BY <1>2, <1>3, <2>3
<1>4. CASE n # 0
  <2>1. n \in Nat /\ n - 1 \in Nat /\ n - 1 \notin T
    BY <1>2, <1>4
  <2>2. PICK g : States(g, Low(n - 1))
    BY <2>1
  <2>3. PICK f : f = [b \in Low(n) |-> IF b = NoBlock THEN Empty ELSE Left(g[Parent[b]], b)]
    OBVIOUS
  <2>4. Low(n - 1) \subseteq Low(n)
    BY <2>1, RankIs DEF Low
  <2>5. \A x \in Low(n - 1) : f[x] = g[x]
    BY <2>2, <2>3, <2>4 DEF States
  <2>6. \A b \in Low(n) : b # NoBlock => Parent[b] \in Low(n - 1)
    BY <2>1, RankIs DEF Low, Known
  <2>7. \A b \in Low(n) : b # NoBlock => f[Parent[b]] = g[Parent[b]]
    BY <2>5, <2>6
  <2>8. States(f, Low(n))
    BY <2>3, <2>7 DEF States
  <2> QED BY <1>2, <2>8
<1> QED BY <1>3, <1>4

LEMMA StatesAgree ==
  ASSUME NEW n \in Nat, NEW m \in Nat, NEW f, NEW g, States(f, Low(n)), States(g, Low(m)),
         NEW x \in Known, x \in Low(n), x \in Low(m)
  PROVE  f[x] = g[x]
<1> DEFINE Bad(y) == y \in Low(n) /\ y \in Low(m) /\ f[y] # g[y]
           T == {k \in Nat : \E y \in Known : Rank(y) = k /\ Bad(y)}
<1>1. SUFFICES ASSUME T # {} PROVE FALSE
  BY RankIs
<1>2. PICK k \in T : \A j \in T : k <= j
  BY <1>1, LeastNumber
<1>3. PICK y \in Known : Rank(y) = k /\ Bad(y)
  BY <1>2
<1>4. y # NoBlock
  BY <1>3 DEF States
<1>5. /\ y \in Blocks /\ Parent[y] \in Known /\ Rank(y) = Rank(Parent[y]) + 1
      /\ Rank(Parent[y]) \in Nat
  BY <1>4, RankIs DEF Known
<1>6. Parent[y] \in Low(n) /\ Parent[y] \in Low(m)
  BY <1>3, <1>5, RankIs DEF Low
<1>7. f[Parent[y]] # g[Parent[y]]
  BY <1>3, <1>4 DEF States
<1>8. Rank(Parent[y]) \in T
  BY <1>5, <1>6, <1>7
<1> QED BY <1>2, <1>3, <1>5, <1>8

LEMMA AllStatesThere == \E F : States(F, Known)
<1> DEFINE Sol(n) == CHOOSE f : States(f, Low(n))
<1>1. \A n \in Nat : States(Sol(n), Low(n))
  BY StatesThere, Zenon
<1>2. PICK F : F = [x \in Known |-> Sol(Rank(x))[x]]
  OBVIOUS
<1> HIDE DEF Sol
<1>3. ASSUME NEW x \in Known PROVE F[x] = IF x = NoBlock THEN Empty ELSE Left(F[Parent[x]], x)
  <2>1. States(Sol(Rank(x)), Low(Rank(x))) /\ x \in Low(Rank(x))
    BY <1>1, RankIs DEF Low
  <2>2. F[x] = IF x = NoBlock THEN Empty ELSE Left(Sol(Rank(x))[Parent[x]], x)
    BY <1>2, <2>1 DEF States
  <2>3. ASSUME x # NoBlock PROVE F[Parent[x]] = Sol(Rank(x))[Parent[x]]
    <3> DEFINE p == Parent[x]
    <3>1. p \in Known /\ Rank(x) = Rank(p) + 1 /\ Rank(p) \in Nat /\ Rank(x) \in Nat
      BY <2>3, RankIs DEF Known
    <3>2. p \in Low(Rank(x)) /\ p \in Low(Rank(p))
      BY <3>1 DEF Low
    <3>3. States(Sol(Rank(p)), Low(Rank(p)))
      BY <1>1, <3>1
    <3> HIDE DEF p
    <3>4. F[p] = Sol(Rank(p))[p]
      BY <1>2, <3>1
    <3>5. Sol(Rank(p))[p] = Sol(Rank(x))[p]
      BY <2>1, <3>1, <3>2, <3>3, StatesAgree
    <3> QED BY <3>4, <3>5 DEF p
  <2> QED BY <2>2, <2>3
<1>4. States(F, Known)
  BY <1>2, <1>3 DEF States
<1> QED BY <1>4

LEMMA UtxoOfIs ==
  /\ UtxoOf[NoBlock] = Empty
  /\ \A b \in Blocks : UtxoOf[b] = Left(UtxoOf[Parent[b]], b)
<1>1. UtxoOf = CHOOSE f : States(f, Known)
  BY Zenon DEF UtxoOf, States, Known, Left, Empty
<1>2. PICK f : f = UtxoOf /\ f = CHOOSE g : States(g, Known)
  BY <1>1
<1>3. States(f, Known)
  BY <1>2, AllStatesThere, Zenon
<1>4. \A b \in Blocks : b # NoBlock
  BY RankIs
<1>5. f[NoBlock] = Empty /\ \A b \in Blocks : f[b] = Left(f[Parent[b]], b)
  BY <1>3, <1>4 DEF States, Known
<1> QED BY <1>2, <1>5

-----------------------------------------------------------------------------
(* The records of a UTXO set: only the genesis block has height 0, and its  *)
(* outputs are in none, so a height tells a record from none at all.        *)
Live == {Spent} \cup [nHeight : Heights \ {0}, vout : (SUBSET OutIdx) \ {{}}]

LEMMA LiveFields ==
  ASSUME NEW c \in Live
  PROVE  /\ c \in Coins /\ c.vout \in SUBSET OutIdx
         /\ IsPruned(c) => c = Spent
         /\ ~IsPruned(c) => /\ c.nHeight \in Heights \ {0}
                            /\ c = [nHeight |-> c.nHeight, vout |-> c.vout]
  BY CoinsViewAssumption DEF Live, Coins, IsPruned, Spent

LEMMA MkLive ==
  ASSUME NEW h \in Heights \ {0}, NEW outs \in SUBSET OutIdx
  PROVE  MkCoins(h, outs) \in Live
  BY DEF MkCoins, Live

(* What spending output n leaves of a record.                               *)
Rest(c, n) == MkCoins(c.nHeight, c.vout \ {n})

LEMMA RestLive ==
  ASSUME NEW c \in Live, NEW n \in OutIdx PROVE Rest(c, n) \in Live
<1>1. c.vout \ {n} \in SUBSET OutIdx
  BY LiveFields
<1>2. CASE IsPruned(c)
  <2>1. c.vout \ {n} = {}
    BY <1>2 DEF IsPruned
  <2> QED BY <2>1 DEF Rest, MkCoins, Live
<1>3. CASE ~IsPruned(c)
  <2>1. c.nHeight \in Heights \ {0}
    BY <1>3, LiveFields
  <2> QED BY <1>1, <2>1, MkLive DEF Rest
<1> QED BY <1>2, <1>3

LEMMA FromTxLive ==
  ASSUME NEW b \in Blocks, b # Genesis, NEW t \in TxIds PROVE FromTx(b, t) \in Live
<1>1. Parent[b] \in Blocks /\ Height[b] = Height[Parent[b]] + 1 /\ Height[b] \in Heights
      /\ Height[Parent[b]] \in Nat
  <2>1. Parent[b] \in Blocks \cup {NoBlock} /\ Parent[b] # NoBlock
    BY CoinsViewAssumption
  <2>2. Parent[b] \in Blocks
    BY <2>1
  <2>3. Height[b] = Height[Parent[b]] + 1
    BY CoinsViewAssumption
  <2>4. Height[b] \in Heights /\ Height[Parent[b]] \in Heights /\ Heights \subseteq Nat
    BY <2>2, CoinsViewAssumption
  <2> QED BY <2>2, <2>3, <2>4
<1>2. Height[b] \in Heights \ {0}
  BY <1>1
<1>3. Vout[t] \in SUBSET OutIdx
  BY CoinsViewAssumption
<1> QED BY <1>2, <1>3, MkLive DEF FromTx

(* The undo record of a spend restores exactly what was spent, and its      *)
(* height says whether a record was left.                                   *)
Restored(h, x, n) == IF h # 0 THEN MkCoins(h, {n}) ELSE MkCoins(x.nHeight, x.vout \cup {n})

LEMMA UndoRestores ==
  ASSUME NEW c \in Live, NEW n \in c.vout
  PROVE  /\ UndoHeight(c, Rest(c, n)) # 0 <=> IsPruned(Rest(c, n))
         /\ \A x : UndoHeight(c, Rest(c, n)) # 0 \/ x = Rest(c, n)
                     => Restored(UndoHeight(c, Rest(c, n)), x, n) = c
<1>1. ~IsPruned(c)
  BY DEF IsPruned
<1>2. PICK h, outs : /\ h \in Heights \ {0} /\ outs \in SUBSET OutIdx
                     /\ c = [nHeight |-> h, vout |-> outs]
  BY <1>1, LiveFields
<1>3. c.nHeight = h /\ c.vout = outs /\ n \in outs
  BY <1>2
<1>4. CASE outs \ {n} = {}
  <2>1. Rest(c, n) = Spent /\ IsPruned(Rest(c, n))
    BY <1>3, <1>4 DEF Rest, MkCoins, IsPruned, Spent
  <2>2. UndoHeight(c, Rest(c, n)) = h /\ h # 0
    BY <1>2, <1>3, <2>1 DEF UndoHeight
  <2>3. {n} = outs /\ {n} # {}
    BY <1>3, <1>4
  <2>4. MkCoins(h, {n}) = c
    BY <1>2, <2>3 DEF MkCoins
  <2> QED BY <2>1, <2>2, <2>4 DEF Restored
<1>5. CASE outs \ {n} # {}
  <2>1. PICK r : r = Rest(c, n) /\ r = [nHeight |-> h, vout |-> outs \ {n}]
    BY <1>3, <1>5 DEF Rest, MkCoins
  <2>2. r.nHeight = h /\ r.vout = outs \ {n} /\ ~IsPruned(r)
    BY <1>5, <2>1 DEF IsPruned
  <2>3. UndoHeight(c, r) = 0
    BY <2>2 DEF UndoHeight
  <2>4. r.vout \cup {n} = outs /\ outs # {}
    BY <1>3, <2>2
  <2>5. MkCoins(r.nHeight, r.vout \cup {n}) = c
    BY <1>2, <2>2, <2>4 DEF MkCoins
  <2> QED BY <2>1, <2>2, <2>3, <2>5 DEF Restored
<1> QED BY <1>4, <1>5

LEMMA AppliedIs ==
  ASSUME NEW u \in [TxIds -> Live], NEW b \in Blocks, b # Genesis, NEW a \in Access
  PROVE  /\ Applied(u, b, a) \in [TxIds -> Live]
         /\ \A t \in TxIds : t # a.tx => Applied(u, b, a)[t] = u[t]
         /\ a.op = "create" => Applied(u, b, a)[a.tx] = FromTx(b, a.tx)
         /\ a.op # "create" => Applied(u, b, a)[a.tx] = Rest(u[a.tx], a.n)
<1>1. a.tx \in TxIds /\ a.n \in OutIdx
  BY DEF Access
<1>2. PICK c : c = IF a.op = "create" THEN FromTx(b, a.tx) ELSE Rest(u[a.tx], a.n)
  OBVIOUS
<1>3. Applied(u, b, a) = [u EXCEPT ![a.tx] = c]
  BY <1>1, <1>2 DEF Applied, Rest
<1>4. u[a.tx] \in Live
  BY <1>1
<1>5. c \in Live
  BY <1>1, <1>2, <1>4, FromTxLive, RestLive
<1> QED BY <1>1, <1>2, <1>3, <1>5

(* Every state between two accesses of a block is a UTXO set.               *)
LEMMA AfterTyped ==
  ASSUME NEW u \in [TxIds -> Live], NEW b \in Blocks
  PROVE  \A i \in 0 .. Len(Accesses[b]) : AfterAccesses(u, b)[i] \in [TxIds -> Live]
<1>1. PICK n \in Nat : n = Len(Accesses[b])
  BY CoinsViewAssumption
<1> DEFINE T == {i \in Nat : i <= n /\ AfterAccesses(u, b)[i] \notin [TxIds -> Live]}
<1>2. SUFFICES ASSUME T # {} PROVE FALSE
  BY <1>1
<1>3. PICK i \in T : \A j \in T : i <= j
  BY <1>2, LeastNumber
<1>4. i # 0
  BY <1>3, AfterAccessesIs
<1>5. i \in 1 .. n /\ i - 1 \in Nat /\ i - 1 \notin T /\ i - 1 <= n
  BY <1>3, <1>4
<1>6. AfterAccesses(u, b)[i - 1] \in [TxIds -> Live]
  BY <1>5
<1>7. Accesses[b] \in Seq(Access) /\ i \in 1 .. Len(Accesses[b])
  BY <1>1, <1>5, CoinsViewAssumption
<1>8. Accesses[b][i] \in Access
  BY <1>7
<1>9. b # Genesis
  <2>1. Len(Accesses[b]) # 0
    BY <1>1, <1>5
  <2> QED BY <1>7, <2>1, CoinsViewAssumption
<1>10. AfterAccesses(u, b)[i] = Applied(AfterAccesses(u, b)[i - 1], b, Accesses[b][i])
  BY <1>7, AfterAccessesIs
<1>11. AfterAccesses(u, b)[i] \in [TxIds -> Live]
  BY <1>6, <1>8, <1>9, <1>10, AppliedIs
<1> QED BY <1>3, <1>11

LEMMA UtxoTyped == \A x \in Known : UtxoOf[x] \in [TxIds -> Live]
<1> DEFINE T == {k \in Nat : \E x \in Known : Rank(x) = k /\ UtxoOf[x] \notin [TxIds -> Live]}
<1>1. SUFFICES ASSUME T # {} PROVE FALSE
  BY RankIs
<1>2. PICK k \in T : \A j \in T : k <= j
  BY <1>1, LeastNumber
<1>3. PICK x \in Known : Rank(x) = k /\ UtxoOf[x] \notin [TxIds -> Live]
  BY <1>2
<1>4. x # NoBlock
  BY <1>3, UtxoOfIs DEF Empty, Live
<1>5. x \in Blocks /\ Parent[x] \in Known /\ Rank(x) = Rank(Parent[x]) + 1 /\ Rank(Parent[x]) \in Nat
  BY <1>4, RankIs DEF Known
<1>6. Rank(Parent[x]) \notin T
  BY <1>2, <1>3, <1>5
<1>7. UtxoOf[Parent[x]] \in [TxIds -> Live]
  BY <1>5, <1>6
<1>8. Len(Accesses[x]) \in 0 .. Len(Accesses[x])
  BY <1>5, CoinsViewAssumption
<1>9. UtxoOf[x] \in [TxIds -> Live]
  BY <1>5, <1>7, <1>8, AfterTyped, UtxoOfIs DEF Left
<1> QED BY <1>3, <1>9

-----------------------------------------------------------------------------
(* The states between the accesses of a block, from its parent's to its     *)
(* own.                                                                     *)
Stages(b) == AfterAccesses(UtxoOf[Parent[b]], b)

LEMMA StageEnds ==
  ASSUME NEW b \in Blocks
  PROVE  Stages(b)[0] = UtxoOf[Parent[b]] /\ Stages(b)[Len(Accesses[b])] = UtxoOf[b]
  BY AfterAccessesIs, UtxoOfIs DEF Stages, Left

LEMMA StageStep ==
  ASSUME NEW b \in Blocks, NEW i \in 1 .. Len(Accesses[b]), NEW a, a = Accesses[b][i]
  PROVE  /\ b # Genesis /\ a \in Access /\ a.tx \in TxIds /\ a.n \in OutIdx
         /\ a.op \in {"spend", "create"}
         /\ Stages(b)[i - 1] \in [TxIds -> Live]
         /\ UtxoOf[Parent[b]] \in [TxIds -> Live]
         /\ \A t \in TxIds : t # a.tx => Stages(b)[i][t] = Stages(b)[i - 1][t]
         /\ a.op = "create" => Stages(b)[i][a.tx] = FromTx(b, a.tx)
         /\ a.op # "create" => Stages(b)[i][a.tx] = Rest(Stages(b)[i - 1][a.tx], a.n)
<1>1. Accesses[b] \in Seq(Access) /\ Len(Accesses[b]) \in Nat
  BY CoinsViewAssumption
<1>2. a \in Access
  BY <1>1
<1>3. b # Genesis
  <2>1. Len(Accesses[b]) # 0
    BY <1>1
  <2> QED BY <1>1, <2>1, CoinsViewAssumption
<1>4. UtxoOf[Parent[b]] \in [TxIds -> Live]
  BY RankIs, UtxoTyped
<1>5. i - 1 \in 0 .. Len(Accesses[b])
  BY <1>1
<1>6. Stages(b)[i - 1] \in [TxIds -> Live]
  BY <1>4, <1>5, AfterTyped DEF Stages
<1>7. Stages(b)[i] = Applied(Stages(b)[i - 1], b, a)
  BY AfterAccessesIs DEF Stages
<1>8. a.tx \in TxIds /\ a.n \in OutIdx /\ a.op \in {"spend", "create"}
  BY <1>2 DEF Access
<1> QED BY <1>2, <1>3, <1>4, <1>6, <1>7, <1>8, AppliedIs

(* The records after an access are coins.                                   *)
LEMMA StageCoins ==
  ASSUME NEW b \in Blocks, NEW i \in 1 .. Len(Accesses[b]), NEW t \in TxIds
  PROVE  Stages(b)[i][t] \in Coins
<1>1. UtxoOf[Parent[b]] \in [TxIds -> Live]
  BY StageStep
<1>2. i \in 0 .. Len(Accesses[b])
  BY CoinsViewAssumption
<1>3. Stages(b)[i] \in [TxIds -> Live]
  BY <1>1, <1>2, AfterTyped DEF Stages
<1> QED BY <1>3, LiveFields

(* The records no access names stay as they are.                            *)
LEMMA StageElse ==
  ASSUME NEW b \in Blocks, NEW i \in 1 .. Len(Accesses[b]),
         NEW t \in TxIds, t # Accesses[b][i].tx
  PROVE  Stages(b)[i][t] = Stages(b)[i - 1][t]
BY StageStep

(* What the undo data of block b say of its access i, and the two halves of *)
(* CoinsValid for its first k accesses.                                     *)
UndoOf(b, i) ==
  IF Accesses[b][i].op = "create" THEN 0
  ELSE UndoHeight(Stages(b)[i - 1][Accesses[b][i].tx],
                  Rest(Stages(b)[i - 1][Accesses[b][i].tx], Accesses[b][i].n))
CreatesRight(b, k) == \A i \in 1 .. k :
  Accesses[b][i].op = "create" => IsPruned(UtxoOf[Parent[b]][Accesses[b][i].tx])
SpendsRight(b, k) == \A i \in 1 .. k :
  Accesses[b][i].op # "create" => Accesses[b][i].n \in Stages(b)[i - 1][Accesses[b][i].tx].vout

LEMMA ValidIs ==
  ASSUME NEW b, CreatesRight(b, Len(Accesses[b])), SpendsRight(b, Len(Accesses[b]))
  PROVE  CoinsValid(b)
  BY DEF CoinsValid, UnspentBefore, CreatesRight, SpendsRight, Stages

(* A block was connected once: its undo data are there, right, and so was   *)
(* its parent.                                                              *)
Connected(b) == b = Genesis \/ undo[b] # << >>
Reached(x) == x = NoBlock \/ Connected(x)
UndoRight == \A b \in Blocks : undo[b] # << >> =>
  /\ b # Genesis /\ Connected(Parent[b])
  /\ CreatesRight(b, Len(Accesses[b])) /\ SpendsRight(b, Len(Accesses[b]))
  /\ \A i \in 1 .. Len(Accesses[b]) : undo[b][i] = UndoOf(b, i)

StateRight ==
  /\ Reached(dbBest) /\ db = UtxoOf[dbBest]
  /\ Reached(TipBestBlock) /\ \A t \in TxIds : TipCoins(t) = UtxoOf[TipBestBlock][t]

(* While a block is worked on, the view is the parent's state with the      *)
(* accesses so far done or taken back. Taking back the outputs of a         *)
(* transaction leaves none where the block may have left some of its own.   *)
ViewIs(utxo) == \A t \in TxIds : ViewCoins(t) = utxo[t]
Bip30Right == job.phase = "bip30" =>
  /\ Parent[job.block] = TipBestBlock /\ ViewIs(UtxoOf[Parent[job.block]])
  /\ CreatesRight(job.block, job.pos - 1)
ConnectRight == job.phase = "connect" =>
  /\ Parent[job.block] = TipBestBlock /\ ViewIs(Stages(job.block)[job.pos - 1])
  /\ CreatesRight(job.block, Len(Accesses[job.block]))
  /\ SpendsRight(job.block, job.pos - 1)
  /\ \A i \in 1 .. job.pos - 1 : job.blockundo[i] = UndoOf(job.block, i)
DisconnectRight == job.phase = "disconnect" =>
  /\ job.block = TipBestBlock
  /\ job.clean => \A t \in TxIds :
       \/ ViewCoins(t) = Stages(job.block)[job.pos][t]
       \/ IsPruned(ViewCoins(t)) /\ IsPruned(UtxoOf[Parent[job.block]][t])
ReadyRight == job.phase = "ready" => Connected(viewBest) /\ ViewIs(UtxoOf[viewBest])
JobRight == Bip30Right /\ ConnectRight /\ DisconnectRight /\ ReadyRight

BestInv == LayerInv /\ UndoRight /\ StateRight /\ JobRight

LEMMA InitBest == Init => BestInv
<1> SUFFICES ASSUME Init PROVE BestInv
  OBVIOUS
<1>1. LayerInv
  BY InitInv
<1>2. UndoRight
  BY DEF Init, UndoRight
<1>3. StateRight
  BY UtxoOfIs DEF Init, StateRight, Reached, TipBestBlock, TipCoins, EmptyCache, Empty
<1>4. JobRight
  BY DEF Init, Idle, JobRight, Bip30Right, ConnectRight, DisconnectRight, ReadyRight
<1> QED BY <1>1, <1>2, <1>3, <1>4 DEF BestInv

(* Most steps change neither undo data nor what the node's cache says.      *)
SameTip ==
  /\ UNCHANGED <<db, dbBest, undo>> /\ TipBestBlock' = TipBestBlock
  /\ \A t \in TxIds : TipCoins(t)' = TipCoins(t)

LEMMA QuietStep ==
  ASSUME BestInv, LayerInv', SameTip, JobRight'
  PROVE  BestInv'
<1>1. UndoRight'
  BY DEF BestInv, UndoRight, SameTip, Connected
<1>2. StateRight'
  BY DEF BestInv, StateRight, SameTip, Reached, Connected
<1> QED BY <1>1, <1>2 DEF BestInv

(* Nothing is asked of the view while no block is worked on.                *)
LEMMA IdleStep ==
  ASSUME BestInv, LayerInv', SameTip, job'.phase = "idle"
  PROVE  BestInv'
<1>1. JobRight'
  BY DEF JobRight, Bip30Right, ConnectRight, DisconnectRight, ReadyRight
<1> QED BY <1>1, QuietStep

LEMMA FetchCoinsBest == BestInv /\ LayerInv' /\ FetchCoins => BestInv'
<1> SUFFICES ASSUME BestInv, LayerInv', FetchCoins PROVE BestInv'
  OBVIOUS
<1>1. PICK t \in TxIds : ReadTip(t) /\ UNCHANGED <<db, dbBest, undo, job>> /\ job.phase = "idle"
  BY DEF FetchCoins
<1>2. tipBest' = tipBest /\ \A u \in TxIds : TipCoins(u)' = TipCoins(u)
  BY <1>1, ReadTipStep DEF BestInv, LayerInv
<1>3. SameTip
  BY <1>1, <1>2 DEF SameTip, TipBestBlock
<1> QED BY <1>1, <1>3, IdleStep

LEMMA StartSame ==
  ASSUME BestInv, job.phase = "idle", tipBest' = TipBestBlock,
         UNCHANGED <<db, dbBest, tip, view, undo>>
  PROVE  SameTip /\ \A t \in TxIds : ViewCoins(t)' = UtxoOf[TipBestBlock][t]
<1>1. \A t \in TxIds : TipCoins(t)' = TipCoins(t)
  BY DEF TipCoins
<1>2. TipBestBlock' = TipBestBlock
  BY DEF TipBestBlock
<1>3. view = EmptyCache
  BY DEF BestInv, LayerInv, IdleHasNoView
<1>4. \A t \in TxIds : ViewCoins(t)' = TipCoins(t)'
  BY <1>3 DEF ViewCoins, EmptyCache
<1> QED BY <1>1, <1>2, <1>4 DEF SameTip, BestInv, StateRight

LEMMA StartConnectBest == BestInv /\ LayerInv' /\ StartConnect => BestInv'
<1> SUFFICES ASSUME BestInv, LayerInv', StartConnect PROVE BestInv'
  OBVIOUS
<1>1. PICK b \in Blocks :
        /\ job.phase = "idle" /\ Parent[b] = TipBestBlock /\ tipBest' = TipBestBlock
        /\ job' = [Idle EXCEPT !.phase = "bip30", !.block = b, !.pos = 1]
        /\ UNCHANGED <<db, dbBest, tip, view, undo>>
  BY DEF StartConnect
<1>2. SameTip /\ \A t \in TxIds : ViewCoins(t)' = UtxoOf[TipBestBlock][t]
  BY <1>1, StartSame
<1>3. job'.phase = "bip30" /\ job'.block = b /\ job'.pos = 1
  BY <1>1 DEF Idle
<1>4. JobRight'
  BY <1>1, <1>2, <1>3 DEF JobRight, Bip30Right, ConnectRight, DisconnectRight, ReadyRight,
     SameTip, ViewIs, CreatesRight
<1> QED BY <1>2, <1>4, QuietStep

LEMMA StartDisconnectBest == BestInv /\ LayerInv' /\ StartDisconnect => BestInv'
<1> SUFFICES ASSUME BestInv, LayerInv', StartDisconnect PROVE BestInv'
  OBVIOUS
<1>1. PICK b \in Blocks :
        /\ job.phase = "idle" /\ b = TipBestBlock /\ tipBest' = TipBestBlock
        /\ job' = [Idle EXCEPT !.phase = "disconnect", !.block = b, !.pos = Len(Accesses[b])]
        /\ UNCHANGED <<db, dbBest, tip, view, undo>>
  BY DEF StartDisconnect
<1>2. SameTip /\ \A t \in TxIds : ViewCoins(t)' = UtxoOf[TipBestBlock][t]
  BY <1>1, StartSame
<1>3. job'.phase = "disconnect" /\ job'.block = b /\ job'.pos = Len(Accesses[b])
  BY <1>1 DEF Idle
<1>4. \A t \in TxIds : ViewCoins(t)' = Stages(b)[Len(Accesses[b])][t]
  BY <1>1, <1>2, StageEnds
<1>5. JobRight'
  BY <1>1, <1>2, <1>3, <1>4 DEF JobRight, Bip30Right, ConnectRight, DisconnectRight, ReadyRight,
     SameTip
<1> QED BY <1>2, <1>5, QuietStep

(* Throwing the view away changes nothing below it.                         *)
LEMMA RejectBest ==
  ASSUME BestInv, LayerInv', Reject, SameTip PROVE BestInv'
  BY IdleStep DEF Reject, Idle

LEMMA BelowSame ==
  ASSUME BestInv, NEW t \in TxIds, ReadBelow(t), UNCHANGED <<db, dbBest, undo>>
  PROVE  SameTip
  BY ReadBelowStep DEF BestInv, LayerInv, SameTip, TipBestBlock

LEMMA CheckBIP30Best == BestInv /\ LayerInv' /\ CheckBIP30 => BestInv'
<1> SUFFICES ASSUME BestInv, LayerInv', CheckBIP30 PROVE BestInv'
  OBVIOUS
<1> DEFINE b == job.block
           k == job.pos
<1>1. /\ Here.tx \in TxIds /\ Here = Accesses[b][k]
      /\ job.phase = "bip30" /\ k \in Nat /\ k >= 1
      /\ UNCHANGED <<db, dbBest, undo>>
  BY HereType DEF CheckBIP30, BestInv, LayerInv, Step, Here, Program
<1>2. /\ Parent[b] = TipBestBlock /\ ViewIs(UtxoOf[Parent[b]])
      /\ CreatesRight(b, k - 1)
  BY <1>1 DEF BestInv, JobRight, Bip30Right
<1>3. ASSUME SameTip, \A t \in TxIds : ViewCoins(t)' = ViewCoins(t),
             job' = [job EXCEPT !.pos = @ + 1],
             Here.op = "create" => IsPruned(ViewCoins(Here.tx))
      PROVE  BestInv'
  <2>1. job \in JobType
    BY DEF BestInv, LayerInv, TypeOK
  <2>2. job'.phase = "bip30" /\ job'.block = b /\ job'.pos = k + 1
    BY <1>1, <1>3, <2>1 DEF JobType
  <2>3. CreatesRight(b, k)
    BY <1>1, <1>2, <1>3 DEF CreatesRight, ViewIs
  <2>4. Bip30Right'
    BY <1>1, <1>2, <1>3, <2>2, <2>3 DEF Bip30Right, SameTip, ViewIs
  <2>5. JobRight'
    BY <2>2, <2>4 DEF JobRight, ConnectRight, DisconnectRight, ReadyRight
  <2> QED BY <1>3, <2>5, QuietStep
<1>4. CASE Here.op = "spend" /\ job' = [job EXCEPT !.pos = @ + 1] /\ UNCHANGED <<tipVars, viewVars>>
  <2>1. SameTip /\ \A t \in TxIds : ViewCoins(t)' = ViewCoins(t)
    BY <1>1, <1>4 DEF SameTip, tipVars, viewVars, TipBestBlock, TipCoins, ViewCoins
  <2> QED BY <1>3, <1>4, <2>1
<1>5. CASE ~Overwrites(Here.tx) /\ ReadView(Here.tx) /\ job' = [job EXCEPT !.pos = @ + 1]
  <2>1. /\ tipBest' = tipBest
        /\ \A u \in TxIds : TipCoins(u)' = TipCoins(u) /\ ViewCoins(u)' = ViewCoins(u)
    BY <1>1, <1>5, ReadViewStep DEF BestInv, LayerInv, Sound, ViewSoundAfter
  <2>2. SameTip
    BY <1>1, <2>1 DEF SameTip, TipBestBlock
  <2> QED BY <1>3, <1>5, <2>1, <2>2 DEF Overwrites
<1>6. CASE ReadBelow(Here.tx) /\ Reject
  BY <1>1, <1>6, BelowSame, RejectBest
<1> QED BY <1>4, <1>5, <1>6 DEF CheckBIP30

LEMMA StartTransactionsBest == BestInv /\ LayerInv' /\ StartTransactions => BestInv'
<1> SUFFICES ASSUME BestInv, LayerInv', StartTransactions PROVE BestInv'
  OBVIOUS
<1> DEFINE b == job.block
<1>1. /\ job \in JobType /\ b \in Blocks /\ Len(Accesses[b]) \in Nat
      /\ job.phase = "bip30" /\ job.pos = Len(Accesses[b]) + 1
      /\ UNCHANGED <<db, dbBest, undo, tip, tipBest, view>>
  BY CoinsViewAssumption
     DEF StartTransactions, BestInv, LayerInv, TypeOK, JobType, Program, tipVars, viewVars
<1>2. job'.phase = "connect" /\ job'.block = b /\ job'.pos = 1
  BY <1>1 DEF StartTransactions, JobType
<1>3. SameTip /\ \A t \in TxIds : ViewCoins(t)' = ViewCoins(t)
  BY <1>1 DEF SameTip, TipBestBlock, TipCoins, ViewCoins
<1>4. /\ Parent[b] = TipBestBlock /\ ViewIs(Stages(b)[0]) /\ CreatesRight(b, Len(Accesses[b]))
  BY <1>1, StageEnds DEF BestInv, JobRight, Bip30Right, ViewIs
<1>5. ConnectRight'
  BY <1>2, <1>3, <1>4 DEF ConnectRight, SameTip, ViewIs, SpendsRight
<1>6. JobRight'
  BY <1>2, <1>5 DEF JobRight, Bip30Right, DisconnectRight, ReadyRight
<1> QED BY <1>3, <1>6, QuietStep

(* A CCoinsModifier on the view leaves the node's cache as it was.          *)
LEMMA ModifySame ==
  ASSUME BestInv, NEW t \in TxIds, NEW c \in Coins, ModifyView(t, c), UNCHANGED <<db, dbBest, undo>>
  PROVE  /\ SameTip /\ ViewCoins(t)' = c
         /\ \A u \in TxIds : u # t => ViewCoins(u)' = ViewCoins(u)
<1>1. /\ tipBest' = tipBest
      /\ \A u \in TxIds : TipCoins(u)' = TipCoins(u)
      /\ \A u \in TxIds : ViewCoins(u)' = IF u = t THEN c ELSE ViewCoins(u)
  BY ModifyViewStep DEF BestInv, LayerInv, Sound, ViewSoundAfter
<1> QED BY <1>1 DEF SameTip, TipBestBlock

(* The view moves from one stage to the next with the record accessed.      *)
LEMMA ViewMoves ==
  ASSUME NEW b \in Blocks, NEW k \in 1 .. Len(Accesses[b]), NEW t, t = Accesses[b][k].tx,
         ViewIs(Stages(b)[k - 1]), ViewCoins(t)' = Stages(b)[k][t],
         \A u \in TxIds : u # t => ViewCoins(u)' = ViewCoins(u)
  PROVE  \A u \in TxIds : ViewCoins(u)' = Stages(b)[k][u]
<1> SUFFICES ASSUME NEW u \in TxIds, u # t PROVE ViewCoins(u)' = Stages(b)[k][u]
  OBVIOUS
<1>1. Stages(b)[k][u] = Stages(b)[k - 1][u]
  BY StageElse
<1>2. ViewCoins(u) = Stages(b)[k - 1][u]
  BY DEF ViewIs
<1> QED BY <1>1, <1>2

(* So do the spends checked and the undo records collected.                 *)
LEMMA SpendsMove ==
  ASSUME NEW b, NEW k \in Nat, SpendsRight(b, k - 1),
         Accesses[b][k].op # "create" =>
           Accesses[b][k].n \in Stages(b)[k - 1][Accesses[b][k].tx].vout
  PROVE  SpendsRight(b, k)
<1>1. \A i \in 1 .. k : i = k \/ i \in 1 .. k - 1
  OBVIOUS
<1> QED BY <1>1 DEF SpendsRight

LEMMA UndoMoves ==
  ASSUME NEW b, NEW k \in Nat, NEW s \in Seq(Heights), Len(s) + 1 = k,
         \A i \in 1 .. k - 1 : s[i] = UndoOf(b, i)
  PROVE  \A i \in 1 .. k : Append(s, UndoOf(b, k))[i] = UndoOf(b, i)
<1> DEFINE x == Append(s, UndoOf(b, k))
<1>1. x[k] = UndoOf(b, k) /\ \A i \in 1 .. k - 1 : x[i] = s[i]
  OBVIOUS
<1>2. \A i \in 1 .. k : i = k \/ i \in 1 .. k - 1
  OBVIOUS
<1> QED BY <1>1, <1>2

(* One access applied: the view moves to the next stage and one undo record *)
(* is added.                                                                *)
LEMMA ApplyBest ==
  ASSUME BestInv, LayerInv', NEW b \in Blocks, NEW k \in 1 .. Len(Accesses[b]),
         NEW t \in TxIds, t = Accesses[b][k].tx, NEW s,
         job.phase = "connect", job.block = b, job.pos = k, job.blockundo = s,
         ModifyView(t, Stages(b)[k][t]), UNCHANGED <<db, dbBest, undo>>,
         job'.phase = "connect", job'.block = b, job'.pos = k + 1,
         job'.blockundo = Append(s, UndoOf(b, k)),
         Accesses[b][k].op # "create" => Accesses[b][k].n \in Stages(b)[k - 1][t].vout
  PROVE  BestInv'
<1>1. /\ Parent[b] = TipBestBlock /\ ViewIs(Stages(b)[k - 1])
      /\ CreatesRight(b, Len(Accesses[b])) /\ SpendsRight(b, k - 1)
      /\ \A i \in 1 .. k - 1 : s[i] = UndoOf(b, i)
  BY DEF BestInv, JobRight, ConnectRight
<1>2. s \in Seq(Heights) /\ Len(s) + 1 = k
  BY DEF BestInv, LayerInv, TypeOK, JobType, UndoFits
<1>3. Stages(b)[k][t] \in Coins
  BY StageCoins
<1>4. /\ SameTip /\ ViewCoins(t)' = Stages(b)[k][t]
      /\ \A u \in TxIds : u # t => ViewCoins(u)' = ViewCoins(u)
  BY <1>3, ModifySame
<1>5. \A u \in TxIds : ViewCoins(u)' = Stages(b)[k][u]
  BY <1>1, <1>4, ViewMoves
<1>6. k \in Nat /\ (k + 1) - 1 = k
  OBVIOUS
<1>7. SpendsRight(b, k)
  BY <1>1, <1>6, SpendsMove
<1>8. \A i \in 1 .. k : Append(s, UndoOf(b, k))[i] = UndoOf(b, i)
  BY <1>1, <1>2, <1>6, UndoMoves
<1>9. Parent[b] = TipBestBlock'
  BY <1>1, <1>4 DEF SameTip
<1>10. job'.pos - 1 = k
  BY <1>6
<1>11. \A u \in TxIds : ViewCoins(u)' = Stages(b)[job'.pos - 1][u]
  BY <1>5, <1>10, Zenon
<1>12. SpendsRight(b, job'.pos - 1)
  BY <1>7, <1>10, Zenon
<1>13. \A i \in 1 .. job'.pos - 1 : job'.blockundo[i] = UndoOf(b, i)
  BY <1>8, <1>10, Zenon
<1>14. ConnectRight'
  BY <1>1, <1>9, <1>11, <1>12, <1>13, Zenon DEF ConnectRight, ViewIs
<1>15. JobRight'
  BY <1>14 DEF JobRight, Bip30Right, DisconnectRight, ReadyRight
<1> QED BY <1>4, <1>15, QuietStep

(* The thread's place after one access that left undo height h.             *)
OneMore(h) == [job EXCEPT !.pos = @ + 1, !.blockundo = Append(@, h)]

LEMMA OneMoreIs ==
  ASSUME job \in JobType, NEW h
  PROVE  /\ OneMore(h).phase = job.phase /\ OneMore(h).block = job.block
         /\ OneMore(h).pos = job.pos + 1
         /\ OneMore(h).blockundo = Append(job.blockundo, h)
BY DEF OneMore, JobType

LEMMA SpendInputBest == BestInv /\ LayerInv' /\ SpendInput => BestInv'
<1> SUFFICES ASSUME BestInv, LayerInv', SpendInput PROVE BestInv'
  OBVIOUS
<1>0. PICK b, k, t, n : b = job.block /\ k = job.pos /\ t = Here.tx /\ n = Here.n
  OBVIOUS
<1>1. /\ t \in TxIds /\ Here = Accesses[b][k] /\ b \in Blocks /\ k \in 1 .. Len(Accesses[b])
      /\ Step("connect") /\ job \in JobType /\ job.phase = "connect"
      /\ Here.op = "spend" /\ UNCHANGED <<db, dbBest, undo>>
  BY <1>0, HereType DEF SpendInput, BestInv, LayerInv, Step, Here, Program, TypeOK, JobType
<1>2. PICK c, rest, h : c = ViewCoins(t) /\ rest = Rest(c, n) /\ h = UndoHeight(c, rest)
  OBVIOUS
<1>3. c = Stages(b)[k - 1][t]
  BY <1>0, <1>1, <1>2 DEF BestInv, JobRight, ConnectRight, ViewIs
<1>4. rest = Stages(b)[k][t] /\ h = UndoOf(b, k)
  <2>1. PICK a : a = Accesses[b][k]
    OBVIOUS
  <2>2. a.op = "spend" /\ a.tx = t /\ a.n = n
    BY <1>0, <1>1, <2>1
  <2>3. Stages(b)[k][t] = Rest(c, n)
    BY <1>1, <1>3, <2>1, <2>2, StageStep
  <2>4. UndoOf(b, k) = UndoHeight(c, Rest(c, n))
    BY <1>3, <2>1, <2>2 DEF UndoOf
  <2> QED BY <1>2, <2>3, <2>4
<1>5. CASE n \in c.vout /\ ModifyView(t, rest) /\ job' = OneMore(h)
  <2>1. PICK s : s = job.blockundo
    OBVIOUS
  <2>2. /\ job'.phase = "connect" /\ job'.block = b /\ job'.pos = k + 1
        /\ job'.blockundo = Append(s, h)
    BY <1>0, <1>1, <1>5, <2>1, OneMoreIs
  <2>3. Accesses[b][k].n \in Stages(b)[k - 1][t].vout /\ t = Accesses[b][k].tx
    BY <1>0, <1>1, <1>3, <1>5
  <2>4. ModifyView(t, Stages(b)[k][t]) /\ job'.blockundo = Append(s, UndoOf(b, k))
    BY <1>4, <1>5, <2>2
  <2> QED BY <1>0, <1>1, <2>1, <2>2, <2>3, <2>4, ApplyBest
<1>6. CASE ReadBelow(Here.tx) /\ Reject
  BY <1>1, <1>6, HereType, BelowSame, RejectBest DEF BestInv, LayerInv
<1>7. \/ n \in c.vout /\ ModifyView(t, rest) /\ job' = OneMore(h)
      \/ ReadBelow(Here.tx) /\ Reject
  BY <1>0, <1>2 DEF SpendInput, Rest, OneMore
<1> QED BY <1>5, <1>6, <1>7

LEMMA CreateOutputsBest == BestInv /\ LayerInv' /\ CreateOutputs => BestInv'
<1> SUFFICES ASSUME BestInv, LayerInv', CreateOutputs PROVE BestInv'
  OBVIOUS
<1>0. PICK b, k, t, s : b = job.block /\ k = job.pos /\ t = Here.tx /\ s = job.blockundo
  OBVIOUS
<1>1. /\ t \in TxIds /\ Here = Accesses[b][k] /\ b \in Blocks /\ k \in 1 .. Len(Accesses[b])
      /\ job \in JobType /\ job.phase = "connect"
      /\ Here.op = "create" /\ UNCHANGED <<db, dbBest, undo>>
  BY <1>0, HereType DEF CreateOutputs, BestInv, LayerInv, Step, Here, Program, TypeOK, JobType
<1>2. ModifyView(t, FromTx(b, t)) /\ job' = OneMore(0)
  BY <1>0 DEF CreateOutputs, OneMore
<1>3. t = Accesses[b][k].tx /\ Accesses[b][k].op = "create"
  BY <1>0, <1>1
<1>4. FromTx(b, t) = Stages(b)[k][t]
  BY <1>1, <1>3, StageStep
<1>5. 0 = UndoOf(b, k)
  BY <1>3 DEF UndoOf
<1>6. /\ job'.phase = "connect" /\ job'.block = b /\ job'.pos = k + 1
      /\ job'.blockundo = Append(s, 0)
  BY <1>0, <1>1, <1>2, OneMoreIs
<1> QED BY <1>0, <1>1, <1>2, <1>3, <1>4, <1>5, <1>6, ApplyBest

(* The block is finished: its undo data are written unless they are there,  *)
(* and in both cases they are right.                                        *)
LEMMA FinishConnectBest == BestInv /\ LayerInv' /\ FinishConnect => BestInv'
<1> SUFFICES ASSUME BestInv, LayerInv', FinishConnect PROVE BestInv'
  OBVIOUS
<1>0. PICK b, n : b = job.block /\ n = Len(Accesses[b])
  OBVIOUS
<1>1. /\ b \in Blocks /\ job \in JobType /\ job.blockundo \in Seq(Heights)
      /\ job.phase = "connect" /\ job.pos = n + 1 /\ Len(job.blockundo) + 1 = job.pos
      /\ undo \in [Blocks -> Seq(Heights)]
      /\ viewBest' = b /\ UNCHANGED <<db, dbBest, tip, tipBest, view>>
  BY <1>0 DEF FinishConnect, BestInv, LayerInv, TypeOK, JobType, UndoFits, Program, tipVars
<1>2. n \in Nat /\ Accesses[b] \in Seq(Access)
  BY <1>0, <1>1, CoinsViewAssumption
<1>3. job'.phase = "ready"
  BY <1>1 DEF FinishConnect, JobType
<1>4. /\ Parent[b] = TipBestBlock /\ ViewIs(Stages(b)[n])
      /\ CreatesRight(b, n) /\ SpendsRight(b, n)
      /\ \A i \in 1 .. n : job.blockundo[i] = UndoOf(b, i)
  <2>1. job.pos - 1 = n
    BY <1>1, <1>2
  <2> QED BY <1>0, <1>1, <2>1 DEF BestInv, JobRight, ConnectRight
<1>5. b = Genesis \/ job.blockundo # << >>
  <2>1. b # Genesis => n # 0
    BY <1>0, <1>1, <1>2, CoinsViewAssumption
  <2> QED BY <1>1, <1>2, <2>1
<1>6. \A x \in Blocks : x # b => undo'[x] = undo[x]
  BY <1>0, <1>1 DEF FinishConnect
<1>7. undo'[b] = IF undo[b] = << >> THEN job.blockundo ELSE undo[b]
  BY <1>0, <1>1 DEF FinishConnect
<1>8. \A x \in Blocks : Connected(x) => Connected(x)'
  <2>1. ASSUME NEW x \in Blocks, undo[x] # << >> PROVE undo'[x] # << >>
    BY <1>6, <1>7, <2>1
  <2> QED BY <2>1 DEF Connected
<1>9. Connected(b)'
  BY <1>5, <1>7 DEF Connected
<1>10. dbBest \in Blocks \cup {NoBlock} /\ TipBestBlock \in Blocks \cup {NoBlock}
  BY DEF BestInv, LayerInv, TypeOK, TipBestBlock
<1>11. StateRight'
  <2>1. TipBestBlock' = TipBestBlock /\ \A t \in TxIds : TipCoins(t)' = TipCoins(t)
    BY <1>1 DEF TipBestBlock, TipCoins
  <2>2. Reached(dbBest)' /\ Reached(TipBestBlock)'
    BY <1>1, <1>8, <1>10, <2>1 DEF BestInv, StateRight, Reached
  <2> QED BY <1>1, <2>1, <2>2 DEF BestInv, StateRight
<1>12. UndoRight'
  <2>1. ASSUME NEW x \in Blocks, undo'[x] # << >>, x # b \/ undo[b] # << >>
        PROVE  /\ x # Genesis /\ Connected(Parent[x])'
               /\ CreatesRight(x, Len(Accesses[x])) /\ SpendsRight(x, Len(Accesses[x]))
               /\ \A i \in 1 .. Len(Accesses[x]) : undo'[x][i] = UndoOf(x, i)
    <3>1. undo'[x] = undo[x]
      BY <1>6, <1>7, <2>1
    <3>2. /\ x # Genesis /\ Connected(Parent[x])
          /\ CreatesRight(x, Len(Accesses[x])) /\ SpendsRight(x, Len(Accesses[x]))
          /\ \A i \in 1 .. Len(Accesses[x]) : undo[x][i] = UndoOf(x, i)
      BY <2>1, <3>1 DEF BestInv, UndoRight
    <3>3. Parent[x] \in Blocks
      BY <3>2, CoinsViewAssumption
    <3> QED BY <1>8, <3>1, <3>2, <3>3
  <2>2. ASSUME undo'[b] # << >>, undo[b] = << >>
        PROVE  /\ b # Genesis /\ Connected(Parent[b])'
               /\ CreatesRight(b, n) /\ SpendsRight(b, n)
               /\ \A i \in 1 .. n : undo'[b][i] = UndoOf(b, i)
    <3>1. undo'[b] = job.blockundo
      BY <1>7, <2>2
    <3>2. b # Genesis
      <4>1. n # 0
        BY <1>1, <1>2, <2>2, <3>1
      <4> QED BY <1>0, <1>2, <4>1, CoinsViewAssumption
    <3>3. Parent[b] \in Blocks /\ Parent[b] # NoBlock
      BY <1>1, <3>2, CoinsViewAssumption
    <3>4. Connected(Parent[b])
      BY <1>4, <3>3 DEF BestInv, StateRight, Reached
    <3> QED BY <1>4, <1>8, <3>1, <3>2, <3>3, <3>4
  <2> QED BY <1>0, <2>1, <2>2 DEF UndoRight
<1>13. ReadyRight'
  <2>1. \A t \in TxIds : ViewCoins(t)' = ViewCoins(t)
    BY <1>1 DEF ViewCoins, TipCoins
  <2>2. Stages(b)[n] = UtxoOf[b]
    BY <1>0, <1>1, StageEnds
  <2> QED BY <1>1, <1>4, <1>9, <2>1, <2>2 DEF ReadyRight, ViewIs, Connected
<1>14. JobRight'
  BY <1>3, <1>13 DEF JobRight, Bip30Right, ConnectRight, DisconnectRight
<1> QED BY <1>11, <1>12, <1>14 DEF BestInv

(* One access taken back: the record at hand is that of the stage before,   *)
(* or there is none left of a transaction the parent's state has none of.   *)
LEMMA UnwindBest ==
  ASSUME BestInv, LayerInv', Step("disconnect"), NEW c \in Coins,
         ModifyView(Here.tx, c), UNCHANGED <<db, dbBest, undo>>,
         NEW ok \in BOOLEAN, job' = [job EXCEPT !.pos = @ - 1, !.clean = ok],
         ok => /\ job.clean
               /\ \/ c = Stages(job.block)[job.pos - 1][Here.tx]
                  \/ IsPruned(c) /\ IsPruned(UtxoOf[Parent[job.block]][Here.tx])
  PROVE  BestInv'
<1>0. PICK b, k, t : b = job.block /\ k = job.pos /\ t = Here.tx
  OBVIOUS
<1>1. /\ t \in TxIds /\ Here = Accesses[b][k] /\ b \in Blocks /\ job \in JobType
      /\ job.phase = "disconnect" /\ k \in Nat /\ k >= 1 /\ k \in 1 .. Len(Accesses[b])
  BY <1>0, HereType DEF BestInv, LayerInv, Step, Here, Program, TypeOK, JobType
<1>2. /\ b = TipBestBlock
      /\ job.clean => \A u \in TxIds :
           \/ ViewCoins(u) = Stages(b)[k][u]
           \/ IsPruned(ViewCoins(u)) /\ IsPruned(UtxoOf[Parent[b]][u])
  BY <1>0, <1>1 DEF BestInv, JobRight, DisconnectRight
<1>3. /\ SameTip /\ ViewCoins(t)' = c
      /\ \A u \in TxIds : u # t => ViewCoins(u)' = ViewCoins(u)
  BY <1>0, <1>1, ModifySame
<1>4. job'.phase = "disconnect" /\ job'.block = b /\ job'.pos = k - 1 /\ job'.clean = ok
  BY <1>0, <1>1 DEF JobType
<1>5. ASSUME ok, NEW u \in TxIds
      PROVE  \/ ViewCoins(u)' = Stages(b)[k - 1][u]
             \/ IsPruned(ViewCoins(u)') /\ IsPruned(UtxoOf[Parent[b]][u])
  <2>1. CASE u = t
    BY <1>0, <1>3, <1>5, <2>1
  <2>2. CASE u # t
    <3>1. Stages(b)[k][u] = Stages(b)[k - 1][u]
      <4>1. u # Accesses[b][k].tx
        BY <1>0, <1>1, <2>2
      <4> QED BY <1>1, <4>1, StageElse
    <3> QED BY <1>2, <1>3, <1>5, <2>2, <3>1
  <2> QED BY <2>1, <2>2
<1>6. DisconnectRight'
  BY <1>2, <1>3, <1>4, <1>5 DEF DisconnectRight, SameTip, IsPruned
<1>7. JobRight'
  BY <1>4, <1>6 DEF JobRight, Bip30Right, ConnectRight, ReadyRight
<1> QED BY <1>3, <1>7, QuietStep

(* The block whose accesses are taken back was connected.                   *)
LEMMA UnwoundIsRight ==
  ASSUME BestInv, job.phase = "disconnect"
  PROVE  /\ job.block \in Blocks /\ job.block # Genesis /\ Connected(Parent[job.block])
         /\ CreatesRight(job.block, Len(Accesses[job.block]))
         /\ SpendsRight(job.block, Len(Accesses[job.block]))
         /\ \A i \in 1 .. Len(Accesses[job.block]) : undo[job.block][i] = UndoOf(job.block, i)
<1>1. job.block \in Blocks /\ undo[job.block] # << >>
  BY DEF BestInv, LayerInv, TypeOK, JobType, UndoFits
<1> QED BY <1>1 DEF BestInv, UndoRight

LEMMA RemoveOutputsBest == BestInv /\ LayerInv' /\ RemoveOutputs => BestInv'
<1> SUFFICES ASSUME BestInv, LayerInv', RemoveOutputs PROVE BestInv'
  OBVIOUS
<1>0. PICK b, k : b = job.block /\ k = job.pos
  OBVIOUS
<1>1. /\ Here = Accesses[b][k] /\ k \in 1 .. Len(Accesses[b])
      /\ Step("disconnect") /\ job.phase = "disconnect" /\ Here.op = "create"
      /\ ModifyView(Here.tx, Spent) /\ UNCHANGED <<db, dbBest, undo>>
  BY <1>0 DEF RemoveOutputs, Step, Here, Program
<1>2. IsPruned(UtxoOf[Parent[b]][Here.tx])
  BY <1>0, <1>1, UnwoundIsRight DEF CreatesRight
<1>3. PICK ok \in BOOLEAN : /\ ok => job.clean
                            /\ job' = [job EXCEPT !.pos = @ - 1, !.clean = ok]
  <2> DEFINE ok == job.clean /\ ViewCoins(Here.tx) = FromTx(job.block, Here.tx)
  <2>1. ok \in BOOLEAN /\ (ok => job.clean)
    BY DEF BestInv, LayerInv, TypeOK, JobType
  <2>2. job' = [job EXCEPT !.pos = @ - 1, !.clean = ok]
    BY DEF RemoveOutputs
  <2> HIDE DEF ok
  <2> QED BY <2>1, <2>2
<1> QED BY <1>0, <1>1, <1>2, <1>3, SpentType, UnwindBest

LEMMA RestoreInputBest == BestInv /\ LayerInv' /\ RestoreInput => BestInv'
<1> SUFFICES ASSUME BestInv, LayerInv', RestoreInput PROVE BestInv'
  OBVIOUS
<1>0. PICK b, k, t, n : b = job.block /\ k = job.pos /\ t = Here.tx /\ n = Here.n
  OBVIOUS
<1>1. /\ Here = Accesses[b][k] /\ k \in 1 .. Len(Accesses[b]) /\ b \in Blocks
      /\ t \in TxIds /\ n \in OutIdx
      /\ Step("disconnect") /\ job.phase = "disconnect" /\ Here.op # "create"
      /\ UNCHANGED <<db, dbBest, undo>>
  BY <1>0, HereType DEF RestoreInput, Step, Here, Program, BestInv, LayerInv, TypeOK, JobType
<1>2. PICK c, h, new : /\ c = ViewCoins(t) /\ h = undo[b][k]
                       /\ new = IF h # 0 THEN MkCoins(h, {n}) ELSE MkCoins(c.nHeight, c.vout \cup {n})
  OBVIOUS
<1>3. ModifyView(t, new)
  BY <1>0, <1>2 DEF RestoreInput
<1>4. PICK ok \in BOOLEAN : /\ ok => job.clean /\ (h # 0 <=> IsPruned(c))
                            /\ job' = [job EXCEPT !.pos = @ - 1, !.clean = ok]
  <2> DEFINE ok == job.clean /\ (h # 0) = IsPruned(c) /\ (h # 0 \/ n \notin c.vout)
  <2>1. ok \in BOOLEAN /\ (ok => job.clean /\ (h # 0 <=> IsPruned(c)))
    BY DEF BestInv, LayerInv, TypeOK, JobType, IsPruned
  <2>2. job' = [job EXCEPT !.pos = @ - 1, !.clean = ok]
    BY <1>0, <1>2 DEF RestoreInput
  <2> HIDE DEF ok
  <2> QED BY <2>1, <2>2
<1>5. PICK was, rest : was = Stages(b)[k - 1][t] /\ rest = Rest(was, n)
  OBVIOUS
<1>6. /\ was \in Live /\ n \in was.vout /\ rest \in Live
      /\ Stages(b)[k][t] = rest /\ h = UndoHeight(was, rest)
  <2>1. was \in Live /\ Stages(b)[k][t] = rest
    <3>1. PICK a : a = Accesses[b][k]
      OBVIOUS
    <3>2. /\ Stages(b)[k - 1] \in [TxIds -> Live]
          /\ a.op # "create" => Stages(b)[k][a.tx] = Rest(Stages(b)[k - 1][a.tx], a.n)
      BY <1>1, <3>1, StageStep
    <3>3. a.tx = t /\ a.n = n /\ a.op # "create"
      BY <1>0, <1>1, <3>1
    <3>4. was \in Live
      BY <1>1, <1>5, <3>2
    <3>5. Stages(b)[k][t] = Rest(was, n)
      BY <1>5, <3>2, <3>3, Zenon
    <3> QED BY <1>5, <3>4, <3>5
  <2>2. n \in was.vout
    BY <1>0, <1>1, <1>5, UnwoundIsRight DEF SpendsRight
  <2>3. undo[b][k] = UndoOf(b, k)
    BY <1>0, <1>1, UnwoundIsRight
  <2>4. h = UndoHeight(was, rest)
    BY <1>0, <1>1, <1>2, <1>5, <2>3 DEF UndoOf
  <2> QED BY <1>1, <1>5, <2>1, <2>2, <2>4, RestLive
<1>7. (h # 0 <=> IsPruned(rest)) /\ \A x : h # 0 \/ x = rest => Restored(h, x, n) = was
  BY <1>5, <1>6, UndoRestores
<1>8. job.clean => c = rest \/ IsPruned(c)
  BY <1>0, <1>1, <1>2, <1>6 DEF BestInv, JobRight, DisconnectRight
<1>9. ok => new = was
  <2>1. new = Restored(h, c, n)
    BY <1>2 DEF Restored
  <2> QED BY <1>4, <1>7, <1>8, <2>1
<1>10. new \in Coins
  <2>1. c \in Coins
    BY <1>1, <1>2, ViewCoinsType DEF BestInv, LayerInv
  <2>2. h \in Heights
    <3>1. undo[b] \in Seq(Heights) /\ Len(undo[b]) = Len(Accesses[b])
      BY <1>0, <1>1 DEF BestInv, LayerInv, TypeOK, UndoFits
    <3> QED BY <1>1, <1>2, <3>1
  <2>3. c.vout \cup {n} \in SUBSET OutIdx /\ {n} \in SUBSET OutIdx /\ c.nHeight \in Heights
    BY <1>1, <2>1, CoinsFields
  <2> QED BY <1>2, <2>2, <2>3, MkCoinsType
<1> QED BY <1>0, <1>1, <1>3, <1>4, <1>5, <1>9, <1>10, UnwindBest

LEMMA FinishDisconnectBest == BestInv /\ LayerInv' /\ FinishDisconnect => BestInv'
<1> SUFFICES ASSUME BestInv, LayerInv', FinishDisconnect PROVE BestInv'
  OBVIOUS
<1>0. PICK b : b = job.block
  OBVIOUS
<1>1. /\ job.phase = "disconnect" /\ job.pos = 0 /\ job \in JobType
      /\ UNCHANGED <<db, dbBest, undo, tip, tipBest>>
  BY DEF FinishDisconnect, BestInv, LayerInv, TypeOK, tipVars
<1>2. SameTip
  BY <1>1 DEF SameTip, TipBestBlock, TipCoins
<1>3. CASE job.clean
  <2>1. job'.phase = "ready" /\ viewBest' = Parent[b] /\ view' = view
    BY <1>0, <1>1, <1>3 DEF FinishDisconnect, JobType
  <2>2. b \in Blocks /\ Connected(Parent[b])
    BY <1>0, <1>1, UnwoundIsRight
  <2>3. Connected(Parent[b])'
    BY <1>1, <2>2 DEF Connected
  <2>4. ASSUME NEW t \in TxIds PROVE ViewCoins(t)' = UtxoOf[Parent[b]][t]
    <3>1. ViewCoins(t)' = ViewCoins(t) /\ ViewCoins(t) \in Coins
      BY <1>1, <2>1, ViewCoinsType DEF ViewCoins, TipCoins, BestInv, LayerInv
    <3>2. UtxoOf[Parent[b]] \in [TxIds -> Live]
      BY <2>2, RankIs, UtxoTyped
    <3>3. UtxoOf[Parent[b]][t] \in Live
      BY <3>2
    <3>4. \/ ViewCoins(t) = Stages(b)[0][t]
          \/ IsPruned(ViewCoins(t)) /\ IsPruned(UtxoOf[Parent[b]][t])
      BY <1>0, <1>1, <1>3 DEF BestInv, JobRight, DisconnectRight
    <3> QED BY <2>2, <3>1, <3>3, <3>4, StageEnds, LiveFields, CoinsFields
  <2>5. ReadyRight'
    BY <2>1, <2>3, <2>4 DEF ReadyRight, ViewIs, Connected
  <2>6. JobRight'
    BY <2>1, <2>5 DEF JobRight, Bip30Right, ConnectRight, DisconnectRight
  <2> QED BY <1>2, <2>6, QuietStep
<1>4. CASE ~job.clean
  BY <1>2, <1>4, RejectBest DEF FinishDisconnect
<1> QED BY <1>3, <1>4

LEMMA DropBest == BestInv /\ LayerInv' /\ Drop => BestInv'
<1> SUFFICES ASSUME BestInv, LayerInv', Drop PROVE BestInv'
  OBVIOUS
<1>1. SameTip
  BY DEF Drop, SameTip, TipBestBlock, TipCoins, tipVars
<1> QED BY <1>1, RejectBest DEF Drop

(* The flushes and a restart move a state that is right to another level.   *)
LEMMA FlushViewBest == BestInv /\ LayerInv' /\ FlushView => BestInv'
<1> SUFFICES ASSUME BestInv, LayerInv', FlushView PROVE BestInv'
  OBVIOUS
<1>1. \A t \in TxIds : TipCoins(t)' = ViewCoins(t)
  BY FlushViewInv DEF BestInv
<1>2. /\ job.phase = "ready" /\ job'.phase = "idle" /\ tipBest' = viewBest
      /\ UNCHANGED <<db, dbBest, undo>>
  BY DEF FlushView, BatchWriteTip, Idle
<1>3. viewBest # NoBlock
  BY <1>2 DEF BestInv, LayerInv, ReadyIsTagged
<1>4. TipBestBlock' = viewBest
  BY <1>2, <1>3 DEF TipBestBlock
<1>5. PICK x : x = viewBest
  OBVIOUS
<1>6. Connected(x) /\ \A t \in TxIds : ViewCoins(t) = UtxoOf[x][t]
  BY <1>2, <1>5 DEF BestInv, JobRight, ReadyRight, ViewIs
<1>7. StateRight'
  BY <1>1, <1>2, <1>4, <1>5, <1>6 DEF BestInv, StateRight, Reached, Connected
<1>8. UndoRight'
  BY <1>2 DEF BestInv, UndoRight, Connected
<1>9. JobRight'
  BY <1>2 DEF JobRight, Bip30Right, ConnectRight, DisconnectRight, ReadyRight
<1> QED BY <1>7, <1>8, <1>9 DEF BestInv

LEMMA FlushTipBest == BestInv /\ LayerInv' /\ FlushTip => BestInv'
<1> SUFFICES ASSUME BestInv, LayerInv', FlushTip PROVE BestInv'
  OBVIOUS
<1>1. \A t \in TxIds : TipCoins(t)' = TipCoins(t) /\ db'[t] = TipCoins(t)
  BY FlushTipInv DEF BestInv
<1>2. /\ db' = [t \in TxIds |-> Written(t)] /\ dbBest' = TipBestBlock
      /\ job.phase = "idle" /\ UNCHANGED <<tipBest, undo, job>>
  BY DEF FlushTip, TipBestBlock
<1>3. TipBestBlock' = TipBestBlock
  BY <1>2 DEF TipBestBlock
<1>4. PICK x : x = TipBestBlock
  OBVIOUS
<1>5. Reached(x) /\ \A t \in TxIds : TipCoins(t) = UtxoOf[x][t]
  BY <1>4 DEF BestInv, StateRight
<1>6. db' = UtxoOf[x]
  <2>1. x \in Known
    BY <1>4 DEF Known, TipBestBlock, BestInv, LayerInv, TypeOK
  <2>2. UtxoOf[x] \in [TxIds -> Live]
    BY <2>1, UtxoTyped
  <2> QED BY <1>1, <1>2, <1>5, <2>2
<1>7. StateRight'
  BY <1>1, <1>2, <1>3, <1>4, <1>5, <1>6 DEF StateRight, Reached, Connected
<1>8. UndoRight'
  BY <1>2 DEF BestInv, UndoRight, Connected
<1>9. JobRight'
  BY <1>2 DEF JobRight, Bip30Right, ConnectRight, DisconnectRight, ReadyRight
<1> QED BY <1>7, <1>8, <1>9 DEF BestInv

LEMMA CrashBest == BestInv /\ LayerInv' /\ Crash => BestInv'
<1> SUFFICES ASSUME BestInv, LayerInv', Crash PROVE BestInv'
  OBVIOUS
<1>1. /\ tip' = EmptyCache /\ tipBest' = NoBlock /\ job' = Idle
      /\ UNCHANGED <<db, dbBest, undo>>
  BY DEF Crash, Reject
<1>2. TipBestBlock' = dbBest /\ \A t \in TxIds : TipCoins(t)' = db[t]
  BY <1>1 DEF TipBestBlock, TipCoins, EmptyCache
<1>3. PICK x : x = dbBest
  OBVIOUS
<1>4. Reached(x) /\ db = UtxoOf[x]
  BY <1>3 DEF BestInv, StateRight
<1>5. StateRight'
  BY <1>1, <1>2, <1>3, <1>4 DEF StateRight, Reached, Connected
<1>6. UndoRight'
  BY <1>1 DEF BestInv, UndoRight, Connected
<1>7. JobRight'
  BY <1>1 DEF JobRight, Bip30Right, ConnectRight, DisconnectRight, ReadyRight, Idle
<1> QED BY <1>5, <1>6, <1>7 DEF BestInv

LEMMA NextBest == BestInv /\ [Next]_vars => BestInv'
<1> SUFFICES ASSUME BestInv, [Next]_vars PROVE BestInv'
  OBVIOUS
<1>1. LayerInv'
  BY NextInv DEF BestInv
<1>2. CASE UNCHANGED vars
  <2>1. SameTip /\ \A t \in TxIds : ViewCoins(t)' = ViewCoins(t)
    BY <1>2 DEF vars, SameTip, TipBestBlock, TipCoins, ViewCoins
  <2>2. job' = job /\ viewBest' = viewBest /\ undo' = undo
    BY <1>2 DEF vars
  <2>3. JobRight'
    BY <2>1, <2>2 DEF BestInv, JobRight, Bip30Right, ConnectRight, DisconnectRight, ReadyRight,
       SameTip, ViewIs, Connected
  <2> QED BY <1>1, <2>1, <2>3, QuietStep
<1>3. CASE Next
  BY <1>1, <1>3, FetchCoinsBest, StartConnectBest, CheckBIP30Best, StartTransactionsBest,
     SpendInputBest, CreateOutputsBest, FinishConnectBest, StartDisconnectBest,
     RemoveOutputsBest, RestoreInputBest, FinishDisconnectBest, DropBest, FlushViewBest,
     FlushTipBest, CrashBest
     DEF Next, ConnectSteps, DisconnectSteps
<1> QED BY <1>2, <1>3

LEMMA BestInvAlways == Spec => []BestInv
  BY InitBest, NextBest, PTL DEF Spec

(* GetBestBlock of every view is "the block hash whose state this           *)
(* CCoinsView currently represents": of the database after any crash, of    *)
(* the node's cache while a block is half connected, of a view once it is   *)
(* finished (UpdateCoins, ApplyTxInUndo and the flushes).                   *)
THEOREM BestBlockAlways == Spec => []BestBlockRepresentsState
<1>1. ASSUME BestInv PROVE BestBlockRepresentsState
  <2>1. /\ dbBest \in Known /\ TipBestBlock \in Known
        /\ job.phase = "ready" => viewBest \in Known
    BY <1>1 DEF BestInv, LayerInv, TypeOK, Known, TipBestBlock
  <2>2. ASSUME NEW x \in Known, \A t \in TxIds : TipCoins(t) = UtxoOf[x][t]
        PROVE  [t \in TxIds |-> TipCoins(t)] = UtxoOf[x]
    <3>1. UtxoOf[x] \in [TxIds -> Live]
      BY UtxoTyped
    <3> QED BY <2>2, <3>1
  <2>3. ASSUME NEW x \in Known, \A t \in TxIds : ViewCoins(t) = UtxoOf[x][t]
        PROVE  [t \in TxIds |-> ViewCoins(t)] = UtxoOf[x]
    <3>1. UtxoOf[x] \in [TxIds -> Live]
      BY UtxoTyped
    <3> QED BY <2>3, <3>1
  <2> QED BY <1>1, <2>1, <2>2, <2>3
          DEF BestInv, StateRight, JobRight, ReadyRight, ViewIs, BestBlockRepresentsState
<1> QED BY <1>1, BestInvAlways, PTL

(* A block that spends an output twice or overwrites a live transaction     *)
(* never becomes the state of a view (CheckTxInputs, the BIP30 check).      *)
THEOREM OnlyValidBlocksAlways == Spec => []OnlyValidBlocks
<1>1. ASSUME BestInv PROVE OnlyValidBlocks
  <2>1. ASSUME NEW b \in Known, Reached(b), b # NoBlock PROVE CoinsValid(b)
    <3>1. CASE b = Genesis
      <4>1. Len(Accesses[b]) = 0
        BY <3>1, CoinsViewAssumption
      <4> QED BY <4>1 DEF CoinsValid
    <3>2. CASE b # Genesis
      BY <1>1, <2>1, <3>2, ValidIs DEF Known, Reached, Connected, BestInv, UndoRight
    <3> QED BY <3>1, <3>2
  <2>2. dbBest \in Known /\ Reached(dbBest) /\ TipBestBlock \in Known /\ Reached(TipBestBlock)
    BY <1>1 DEF BestInv, LayerInv, TypeOK, Known, TipBestBlock, StateRight
  <2>3. job.phase = "ready" => viewBest \in Known /\ Reached(viewBest)
    BY <1>1 DEF BestInv, LayerInv, TypeOK, Known, JobRight, ReadyRight, Reached
  <2> QED BY <2>1, <2>2, <2>3 DEF OnlyValidBlocks
<1> QED BY <1>1, BestInvAlways, PTL
-----------------------------------------------------------------------------
(* A sum over a set of transactions takes one at a time, whichever CHOOSE   *)
(* gives.                                                                   *)
Pick(s) == CHOOSE t \in s : TRUE
Sums(g, f, D) == g = [s \in D |-> IF s = {} THEN 0 ELSE f[Pick(s)] + g[s \ {Pick(s)}]]
Sum(f) == CHOOSE g : Sums(g, f, SUBSET TxIds)
UpTo(n) == {s \in SUBSET TxIds : Cardinality(s) <= n}

LEMMA TotalIs == ASSUME NEW f PROVE Total(f) = Sum(f)[TxIds]
  BY Zenon DEF Total, MapThenSumSet, MapThenFoldSet, Sum, Sums, Pick

LEMMA TxSets ==
  ASSUME NEW s \in SUBSET TxIds
  PROVE  /\ IsFiniteSet(s) /\ Cardinality(s) \in Nat
         /\ Cardinality(s) <= Cardinality(TxIds) /\ Cardinality(TxIds) \in Nat
         /\ Cardinality(s) = 0 <=> s = {}
         /\ \A t \in s : /\ s \ {t} \in SUBSET TxIds
                         /\ Cardinality(s \ {t}) = Cardinality(s) - 1
         /\ s # {} => Pick(s) \in s /\ Pick(s) \in TxIds
<1>1. IsFiniteSet(TxIds) /\ s \subseteq TxIds
  BY CoinsViewAssumption
<1>2. IsFiniteSet(s) /\ Cardinality(s) <= Cardinality(TxIds)
  BY <1>1, FS_Subset
<1>3. Cardinality(s) \in Nat /\ Cardinality(TxIds) \in Nat
  BY <1>1, <1>2, FS_CardinalityType
<1>4. Cardinality(s) = 0 <=> s = {}
  BY <1>2, FS_EmptySet
<1>5. \A t \in s : s \ {t} \in SUBSET TxIds /\ Cardinality(s \ {t}) = Cardinality(s) - 1
  BY <1>1, <1>2, FS_RemoveElement
<1>6. s # {} => Pick(s) \in s
  BY Zenon DEF Pick
<1> QED BY <1>1, <1>2, <1>3, <1>4, <1>5, <1>6

LEMMA SumsUpTo == ASSUME NEW f PROVE \A n \in Nat : \E g : Sums(g, f, UpTo(n))
<1> DEFINE T == {n \in Nat : ~ \E g : Sums(g, f, UpTo(n))}
<1>1. SUFFICES ASSUME T # {} PROVE FALSE
  OBVIOUS
<1>2. PICK n \in T : \A m \in T : n <= m
  BY <1>1, LeastNumber
<1>3. CASE n = 0
  <2>1. \A s \in UpTo(0) : s = {}
    BY TxSets DEF UpTo
  <2>2. PICK g : g = [s \in UpTo(0) |-> 0]
    OBVIOUS
  <2>3. Sums(g, f, UpTo(0))
    BY <2>1, <2>2 DEF Sums
  <2> QED BY <1>2, <1>3, <2>3
<1>4. CASE n # 0
  <2>1. n \in Nat /\ n - 1 \in Nat /\ n - 1 \notin T
    BY <1>2, <1>4
  <2>2. PICK h : Sums(h, f, UpTo(n - 1))
    BY <2>1
  <2>3. PICK g : g = [s \in UpTo(n) |-> IF s = {} THEN 0 ELSE f[Pick(s)] + h[s \ {Pick(s)}]]
    OBVIOUS
  <2>4. UpTo(n - 1) \subseteq UpTo(n)
    BY <2>1, TxSets DEF UpTo
  <2>5. \A s \in UpTo(n - 1) : g[s] = h[s]
    BY <2>2, <2>3, <2>4 DEF Sums
  <2>6. \A s \in UpTo(n) : s # {} => s \ {Pick(s)} \in UpTo(n - 1)
    BY <2>1, TxSets DEF UpTo
  <2>7. \A s \in UpTo(n) : s # {} => g[s \ {Pick(s)}] = h[s \ {Pick(s)}]
    BY <2>5, <2>6
  <2>8. Sums(g, f, UpTo(n))
    BY <2>3, <2>7 DEF Sums
  <2> QED BY <1>2, <2>8
<1> QED BY <1>3, <1>4

LEMMA SumIs ==
  ASSUME NEW f, NEW s \in SUBSET TxIds
  PROVE  Sum(f)[s] = IF s = {} THEN 0 ELSE f[Pick(s)] + Sum(f)[s \ {Pick(s)}]
<1>1. UpTo(Cardinality(TxIds)) = SUBSET TxIds
  BY TxSets DEF UpTo
<1>2. \E g : Sums(g, f, SUBSET TxIds)
  <2>1. PICK n \in Nat : n = Cardinality(TxIds)
    BY TxSets
  <2>2. PICK g : Sums(g, f, UpTo(n))
    BY SumsUpTo
  <2> QED BY <1>1, <2>1, <2>2
<1>3. PICK g : g = CHOOSE h : Sums(h, f, SUBSET TxIds)
  OBVIOUS
<1>4. Sums(g, f, SUBSET TxIds)
  BY <1>2, <1>3, Zenon
<1>5. Sum(f) = g
  BY <1>3, Zenon DEF Sum
<1> QED BY <1>4, <1>5 DEF Sums

LEMMA SumOfNone == \A f : Sum(f)[{}] = 0
  BY SumIs

(* What holds of every sum is proved for the smallest set for which it      *)
(* fails.                                                                   *)
LEMMA SmallestSet ==
  ASSUME NEW T \in SUBSET SUBSET TxIds, T # {}
  PROVE  \E s \in T : \A r \in T : Cardinality(s) <= Cardinality(r)
<1> DEFINE N == {n \in Nat : \E s \in T : Cardinality(s) = n}
<1>1. N # {}
  BY TxSets
<1>2. PICK n \in N : \A m \in N : n <= m
  BY <1>1, LeastNumber
<1> QED BY <1>2, TxSets

LEMMA SumInt ==
  ASSUME NEW f \in [TxIds -> Int] PROVE \A s \in SUBSET TxIds : Sum(f)[s] \in Int
<1> DEFINE T == {s \in SUBSET TxIds : Sum(f)[s] \notin Int}
<1>1. SUFFICES ASSUME T # {} PROVE FALSE
  OBVIOUS
<1>2. PICK s \in T : \A r \in T : Cardinality(s) <= Cardinality(r)
  BY <1>1, SmallestSet
<1>3. s # {}
  BY <1>2, SumOfNone
<1>4. PICK x, r : x = Pick(s) /\ r = s \ {x}
  OBVIOUS
<1>5. x \in TxIds /\ r \in SUBSET TxIds /\ Cardinality(r) < Cardinality(s)
  BY <1>2, <1>3, <1>4, TxSets
<1>6. r \notin T
  BY <1>2, <1>5, TxSets
<1>7. Sum(f)[s] = f[x] + Sum(f)[r]
  BY <1>2, <1>3, <1>4, SumIs
<1> QED BY <1>2, <1>5, <1>6, <1>7

(* Two sums add up; a sum of nothing is nothing.                            *)
LEMMA SumAdds ==
  ASSUME NEW f \in [TxIds -> Int], NEW g \in [TxIds -> Int], NEW h \in [TxIds -> Int],
         \A t \in TxIds : h[t] = f[t] + g[t]
  PROVE  \A s \in SUBSET TxIds : Sum(h)[s] = Sum(f)[s] + Sum(g)[s]
<1> DEFINE T == {s \in SUBSET TxIds : Sum(h)[s] # Sum(f)[s] + Sum(g)[s]}
<1>1. SUFFICES ASSUME T # {} PROVE FALSE
  OBVIOUS
<1>2. PICK s \in T : \A r \in T : Cardinality(s) <= Cardinality(r)
  BY <1>1, SmallestSet
<1>3. s # {}
  <2>1. Sum(f)[{}] = 0 /\ Sum(g)[{}] = 0 /\ Sum(h)[{}] = 0
    BY SumOfNone
  <2>2. Sum(h)[s] # Sum(f)[s] + Sum(g)[s]
    BY <1>2
  <2> QED BY <2>1, <2>2
<1>4. PICK x, r : x = Pick(s) /\ r = s \ {x}
  OBVIOUS
<1>5. x \in TxIds /\ r \in SUBSET TxIds /\ Cardinality(r) < Cardinality(s)
  BY <1>2, <1>3, <1>4, TxSets
<1>6. r \notin T
  BY <1>2, <1>5, TxSets
<1>7. /\ Sum(f)[s] = f[x] + Sum(f)[r] /\ Sum(g)[s] = g[x] + Sum(g)[r]
      /\ Sum(h)[s] = h[x] + Sum(h)[r]
  BY <1>2, <1>3, <1>4, SumIs
<1>8. Sum(f)[r] \in Int /\ Sum(g)[r] \in Int /\ f[x] \in Int /\ g[x] \in Int
  BY <1>5, SumInt
<1> QED BY <1>2, <1>5, <1>6, <1>7, <1>8

(* The sum of a function that is zero but for t is its value at t.          *)
LEMMA SumOfOne ==
  ASSUME NEW f \in [TxIds -> Int], NEW t \in TxIds, \A u \in TxIds : u # t => f[u] = 0
  PROVE  \A s \in SUBSET TxIds : Sum(f)[s] = IF t \in s THEN f[t] ELSE 0
<1> DEFINE T == {s \in SUBSET TxIds : Sum(f)[s] # IF t \in s THEN f[t] ELSE 0}
<1>1. SUFFICES ASSUME T # {} PROVE FALSE
  OBVIOUS
<1>2. PICK s \in T : \A r \in T : Cardinality(s) <= Cardinality(r)
  BY <1>1, SmallestSet
<1>3. s # {}
  BY <1>2, SumOfNone
<1>4. PICK x, r : x = Pick(s) /\ r = s \ {x}
  OBVIOUS
<1>5. x \in s /\ x \in TxIds /\ r \in SUBSET TxIds /\ Cardinality(r) < Cardinality(s)
  BY <1>2, <1>3, <1>4, TxSets
<1>6. r \notin T
  BY <1>2, <1>5, TxSets
<1>7. Sum(f)[s] = f[x] + Sum(f)[r]
  BY <1>2, <1>3, <1>4, SumIs
<1>8. f[x] \in Int /\ f[t] \in Int
  BY <1>5
<1>9. CASE x = t
  BY <1>2, <1>4, <1>5, <1>6, <1>7, <1>8, <1>9
<1>10. CASE x # t
  BY <1>2, <1>4, <1>5, <1>6, <1>7, <1>8, <1>10
<1> QED BY <1>9, <1>10

LEMMA TotalInt == ASSUME NEW f \in [TxIds -> Int] PROVE Total(f) \in Int
  BY TotalIs, SumInt

LEMMA TotalAdds ==
  ASSUME NEW f \in [TxIds -> Int], NEW g \in [TxIds -> Int], NEW h \in [TxIds -> Int],
         \A t \in TxIds : h[t] = f[t] + g[t]
  PROVE  Total(h) = Total(f) + Total(g)
<1>1. \A s \in SUBSET TxIds : Sum(h)[s] = Sum(f)[s] + Sum(g)[s]
  BY SumAdds
<1> QED BY <1>1, TotalIs

LEMMA TotalOfOne ==
  ASSUME NEW f \in [TxIds -> Int], NEW t \in TxIds, \A u \in TxIds : u # t => f[u] = 0
  PROVE  Total(f) = f[t]
<1>1. \A s \in SUBSET TxIds : Sum(f)[s] = IF t \in s THEN f[t] ELSE 0
  BY SumOfOne
<1> QED BY <1>1, TotalIs

(* One record changes: the total changes by the difference.                 *)
LEMMA TotalMoves ==
  ASSUME NEW f \in [TxIds -> Int], NEW h \in [TxIds -> Int], NEW t \in TxIds,
         \A u \in TxIds : u # t => h[u] = f[u]
  PROVE  Total(h) = Total(f) + h[t] - f[t]
<1>1. PICK g : g = [u \in TxIds |-> h[u] - f[u]]
  OBVIOUS
<1>2. g \in [TxIds -> Int] /\ \A u \in TxIds : g[u] = h[u] - f[u]
  BY <1>1
<1>3. \A u \in TxIds : h[u] = f[u] + g[u]
  BY <1>2
<1>4. Total(h) = Total(f) + Total(g)
  BY <1>2, <1>3, TotalAdds
<1>5. \A u \in TxIds : u # t => g[u] = 0
  BY <1>2
<1>6. Total(g) = g[t]
  BY <1>2, <1>5, TotalOfOne
<1>7. Total(f) \in Int
  BY TotalInt
<1> QED BY <1>2, <1>4, <1>6, <1>7

(* The weight of an entry is a number, and that of no entry is zero.        *)
LEMMA EntryUsageInt ==
  ASSUME NEW e \in Entry \cup {NoEntry}
  PROVE  EntryUsage(e) \in Int /\ EntryUsage(NoEntry) = 0
<1>1. ASSUME NEW c \in Coins PROVE Cardinality(c.vout) \in Int
  <2>1. c.vout \in SUBSET OutIdx /\ IsFiniteSet(OutIdx)
    BY CoinsFields, CoinsViewAssumption
  <2>2. IsFiniteSet(c.vout)
    BY <2>1, FS_Subset
  <2> QED BY <2>2, FS_CardinalityType
<1>2. e \in Entry => e.coins \in Coins
  BY DEF Entry
<1> QED BY <1>1, <1>2 DEF EntryUsage, Usage

LEMMA UsageOfIs ==
  ASSUME NEW cache \in [TxIds -> Entry \cup {NoEntry}]
  PROVE  /\ UsageOf(cache) \in [TxIds -> Int]
         /\ \A t \in TxIds : UsageOf(cache)[t] = EntryUsage(cache[t])
  BY EntryUsageInt DEF UsageOf

LEMMA EmptyUsage == Total(UsageOf(EmptyCache)) = 0
<1>1. PICK f : f = UsageOf(EmptyCache)
  OBVIOUS
<1>2. f \in [TxIds -> Int] /\ \A t \in TxIds : f[t] = 0
  BY <1>1, EntryUsageInt DEF UsageOf, EmptyCache
<1>3. Total(f) = Total(f) + Total(f)
  BY <1>2, TotalAdds
<1>4. Total(f) \in Int
  BY <1>2, TotalInt
<1>5. PICK n : n = Total(f)
  OBVIOUS
<1>6. n \in Int /\ n = n + n
  BY <1>3, <1>4, <1>5
<1>7. n = 0
  BY <1>6
<1> QED BY <1>1, <1>5, <1>7, Zenon

(* One entry of a cache changes.                                            *)
LEMMA UsageMoves ==
  ASSUME NEW M \in [TxIds -> Entry \cup {NoEntry}], NEW N \in [TxIds -> Entry \cup {NoEntry}],
         NEW t \in TxIds, \A u \in TxIds : u # t => N[u] = M[u]
  PROVE  Total(UsageOf(N)) = Total(UsageOf(M)) + EntryUsage(N[t]) - EntryUsage(M[t])
<1>2. PICK f, h : f = UsageOf(M) /\ h = UsageOf(N)
  OBVIOUS
<1>3. /\ f \in [TxIds -> Int] /\ \A u \in TxIds : f[u] = EntryUsage(M[u])
      /\ h \in [TxIds -> Int] /\ \A u \in TxIds : h[u] = EntryUsage(N[u])
  BY <1>2, UsageOfIs
<1>4. \A u \in TxIds : u # t => h[u] = f[u]
  BY <1>3
<1>5. Total(h) = Total(f) + h[t] - f[t]
  BY <1>3, <1>4, TotalMoves
<1> QED BY <1>2, <1>3, <1>5

TipUsageExact == tipUsage = Total(UsageOf(tip))
ViewUsageExact == viewUsage = Total(UsageOf(view))

LEMMA TotalUsageInt ==
  ASSUME NEW cache \in [TxIds -> Entry \cup {NoEntry}] PROVE Total(UsageOf(cache)) \in Int
  BY UsageOfIs, TotalInt

LEMMA ReadTipUsage ==
  ASSUME LayerInv, UsageExact, NEW t \in TxIds, ReadTip(t), db' = db
  PROVE  TipUsageExact'
<1>1. PICK M, N, e, m, n : /\ M = tip /\ N = tip' /\ e = TipFetch(t) /\ m = tipUsage /\ n = tipUsage'
  OBVIOUS
<1>2. M \in [TxIds -> Entry \cup {NoEntry}] /\ N \in [TxIds -> Entry \cup {NoEntry}]
  BY <1>1, ReadTipStep DEF LayerInv, TypeOK
<1>3. N = [M EXCEPT ![t] = e] /\ n = m + EntryUsage(e) - EntryUsage(M[t])
  BY <1>1 DEF ReadTip
<1>4. m = Total(UsageOf(M))
  BY <1>1 DEF UsageExact
<1>5. N[t] = e /\ \A u \in TxIds : u # t => N[u] = M[u]
  BY <1>2, <1>3
<1>6. Total(UsageOf(N)) = Total(UsageOf(M)) + EntryUsage(N[t]) - EntryUsage(M[t])
  BY <1>2, <1>5, UsageMoves
<1>7. n = Total(UsageOf(N))
  BY <1>3, <1>4, <1>5, <1>6
<1> QED BY <1>1, <1>7 DEF TipUsageExact

LEMMA ReadBelowUsage ==
  ASSUME LayerInv, UsageExact, NEW t \in TxIds, ReadBelow(t), db' = db
  PROVE  TipUsageExact'
<1>1. CASE view[t] = NoEntry
  BY <1>1, ReadTipUsage DEF ReadBelow
<1>2. CASE view[t] # NoEntry
  BY <1>2 DEF ReadBelow, tipVars, UsageExact, TipUsageExact
<1> QED BY <1>1, <1>2

LEMMA ReadViewUsage ==
  ASSUME LayerInv, UsageExact, NEW t \in TxIds, ReadView(t), db' = db
  PROVE  UsageExact'
<1>1. TipUsageExact'
  BY ReadBelowUsage DEF ReadView
<1>2. PICK M, N, e, m, n : /\ M = view /\ N = view' /\ e = ViewFetch(t) /\ m = viewUsage /\ n = viewUsage'
  OBVIOUS
<1>3. M \in [TxIds -> Entry \cup {NoEntry}] /\ N \in [TxIds -> Entry \cup {NoEntry}]
  BY <1>2, ReadViewStep DEF LayerInv, TypeOK, Sound, ViewSoundAfter
<1>4. N = [M EXCEPT ![t] = e] /\ n = m + EntryUsage(e) - EntryUsage(M[t])
  BY <1>2 DEF ReadView
<1>5. m = Total(UsageOf(M))
  BY <1>2 DEF UsageExact
<1>6. N[t] = e /\ \A u \in TxIds : u # t => N[u] = M[u]
  BY <1>3, <1>4
<1>7. Total(UsageOf(N)) = Total(UsageOf(M)) + EntryUsage(N[t]) - EntryUsage(M[t])
  BY <1>3, <1>6, UsageMoves
<1>8. n = Total(UsageOf(N))
  BY <1>4, <1>5, <1>6, <1>7
<1> QED BY <1>1, <1>2, <1>8 DEF TipUsageExact, UsageExact

LEMMA ModifyViewUsage ==
  ASSUME LayerInv, UsageExact, NEW t \in TxIds, NEW c \in Coins, ModifyView(t, c), db' = db
  PROVE  UsageExact'
<1>1. TipUsageExact'
  BY ReadBelowUsage DEF ModifyView
<1>2. PICK M, N, e, m, n : /\ M = view /\ N = view' /\ e = Modified(t, c) /\ m = viewUsage /\ n = viewUsage'
  OBVIOUS
<1>3. M \in [TxIds -> Entry \cup {NoEntry}] /\ N \in [TxIds -> Entry \cup {NoEntry}]
  BY <1>2, ModifyViewStep DEF LayerInv, TypeOK, Sound, ViewSoundAfter
<1>4. N = [M EXCEPT ![t] = e] /\ n = m - EntryUsage(M[t]) + EntryUsage(e)
  BY <1>2 DEF ModifyView
<1>5. m = Total(UsageOf(M))
  BY <1>2 DEF UsageExact
<1>6. EntryUsage(e) \in Int /\ EntryUsage(M[t]) \in Int /\ m \in Int
  <2>1. M[t] \in Entry \cup {NoEntry} /\ N[t] = e /\ N[t] \in Entry \cup {NoEntry}
    BY <1>3, <1>4
  <2> QED BY <1>3, <1>5, <2>1, EntryUsageInt, TotalUsageInt
<1>7. n = Total(UsageOf(N))
  <2>1. N[t] = e /\ \A u \in TxIds : u # t => N[u] = M[u]
    BY <1>3, <1>4
  <2>2. Total(UsageOf(N)) = Total(UsageOf(M)) + EntryUsage(N[t]) - EntryUsage(M[t])
    BY <1>3, <2>1, UsageMoves
  <2> QED BY <1>4, <1>5, <1>6, <2>1, <2>2
<1> QED BY <1>1, <1>2, <1>7 DEF TipUsageExact, UsageExact

(* A view that is thrown away counts for nothing.                           *)
LEMMA RejectUsage ==
  ASSUME Reject, TipUsageExact' PROVE UsageExact'
  BY EmptyUsage DEF Reject, UsageExact, TipUsageExact

(* BatchWrite adds up what each entry gains.                                *)
LEMMA BatchWriteUsage ==
  ASSUME LayerInv, LayerInv', UsageExact, BatchWriteTip PROVE TipUsageExact'
<1>1. PICK f, g, h, m, n :
        /\ f = UsageOf(tip) /\ h = UsageOf(tip') /\ m = tipUsage /\ n = tipUsage'
        /\ g = [t \in TxIds |-> EntryUsage(Merged(tip[t], view[t])) - EntryUsage(tip[t])]
  OBVIOUS
<1>2. /\ tip \in [TxIds -> Entry \cup {NoEntry}] /\ tip' \in [TxIds -> Entry \cup {NoEntry}]
      /\ \A t \in TxIds : tip'[t] = Merged(tip[t], view[t])
  BY DEF LayerInv, TypeOK, BatchWriteTip
<1>3. \A t \in TxIds : EntryUsage(tip[t]) \in Int /\ EntryUsage(tip'[t]) \in Int
  BY <1>2, EntryUsageInt
<1>4. /\ f \in [TxIds -> Int] /\ \A t \in TxIds : f[t] = EntryUsage(tip[t])
      /\ h \in [TxIds -> Int] /\ \A t \in TxIds : h[t] = EntryUsage(tip'[t])
  BY <1>1, <1>2, UsageOfIs
<1>5. g \in [TxIds -> Int] /\ \A t \in TxIds : g[t] = EntryUsage(tip'[t]) - EntryUsage(tip[t])
  BY <1>1, <1>2, <1>3
<1>6. \A t \in TxIds : h[t] = f[t] + g[t]
  BY <1>3, <1>4, <1>5
<1>7. Total(h) = Total(f) + Total(g)
  BY <1>4, <1>5, <1>6, TotalAdds
<1>8. m = Total(f) /\ n = m + Total(g)
  BY <1>1 DEF UsageExact, BatchWriteTip
<1>9. n = Total(h)
  BY <1>7, <1>8
<1> QED BY <1>1, <1>9 DEF TipUsageExact

LEMMA UsageInit == Init => UsageExact
  BY EmptyUsage DEF Init, UsageExact

(* A step that leaves the counters and both caches alone, or only throws    *)
(* the view away.                                                           *)
SameUsage == UNCHANGED <<tip, tipUsage, view, viewUsage>>
LEMMA SameUsageStep == UsageExact /\ SameUsage => UsageExact'
  BY DEF UsageExact, SameUsage
LEMMA DropUsage ==
  ASSUME UsageExact, Reject, UNCHANGED <<tip, tipUsage>> PROVE UsageExact'
<1>1. TipUsageExact'
  BY DEF UsageExact, TipUsageExact
<1> QED BY <1>1, RejectUsage

LEMMA ConnectUsage == LayerInv /\ LayerInv' /\ UsageExact /\ ConnectSteps => UsageExact'
<1> SUFFICES ASSUME LayerInv, LayerInv', UsageExact, ConnectSteps PROVE UsageExact'
  OBVIOUS
<1>1. CASE CheckBIP30
  <2>1. Here.tx \in TxIds /\ db' = db
    BY <1>1, HereType DEF LayerInv, CheckBIP30
  <2>2. CASE UNCHANGED <<tipVars, viewVars>>
    BY <2>2, SameUsageStep DEF tipVars, viewVars, SameUsage
  <2>3. CASE ReadView(Here.tx)
    BY <2>1, <2>3, ReadViewUsage
  <2>4. CASE ReadBelow(Here.tx) /\ Reject
    BY <2>1, <2>4, ReadBelowUsage, RejectUsage
  <2> QED BY <1>1, <2>2, <2>3, <2>4 DEF CheckBIP30
<1>2. CASE StartTransactions
  BY <1>2, SameUsageStep DEF StartTransactions, tipVars, viewVars, SameUsage
<1>3. CASE SpendInput
  <2> DEFINE c == ViewCoins(Here.tx)
             rest == MkCoins(c.nHeight, c.vout \ {Here.n})
  <2>1. Here.tx \in TxIds /\ db' = db
    BY <1>3, HereType DEF LayerInv, SpendInput
  <2>2. c \in Coins
    BY <2>1, ViewCoinsType DEF LayerInv
  <2>3. rest \in Coins
    BY <2>2, CoinsFields, MkCoinsType
  <2> HIDE DEF c, rest
  <2>4. CASE ModifyView(Here.tx, rest)
    BY <2>1, <2>3, <2>4, ModifyViewUsage
  <2>5. CASE ReadBelow(Here.tx) /\ Reject
    BY <2>1, <2>5, ReadBelowUsage, RejectUsage
  <2> QED BY <1>3, <2>4, <2>5 DEF SpendInput, c, rest
<1>4. CASE CreateOutputs
  <2>1. Here.tx \in TxIds /\ job.block \in Blocks
    BY <1>4, HereType DEF LayerInv, CreateOutputs, TypeOK, JobType
  <2> QED BY <1>4, <2>1, FromTxType, ModifyViewUsage DEF CreateOutputs
<1>5. CASE FinishConnect
  BY <1>5, SameUsageStep DEF FinishConnect, tipVars, SameUsage
<1> QED BY <1>1, <1>2, <1>3, <1>4, <1>5 DEF ConnectSteps

LEMMA RestoreWrites ==
  ASSUME LayerInv, RestoreInput
  PROVE  \E c \in Coins : ModifyView(Here.tx, c) /\ Here.tx \in TxIds /\ db' = db
<1> DEFINE c == ViewCoins(Here.tx)
           h == undo[job.block][job.pos]
           new == IF h # 0 THEN MkCoins(h, {Here.n})
                  ELSE MkCoins(c.nHeight, c.vout \cup {Here.n})
<1>1. /\ Here.tx \in TxIds /\ Here.n \in OutIdx
      /\ job.pos \in 1 .. Len(Accesses[job.block]) /\ job.block \in Blocks
  BY HereType DEF LayerInv, RestoreInput, Step, Program, TypeOK, JobType
<1>2. c \in Coins
  BY <1>1, ViewCoinsType DEF LayerInv
<1>3. h \in Heights
  <2>1. undo[job.block] \in Seq(Heights) /\ Len(undo[job.block]) = Len(Accesses[job.block])
    BY <1>1 DEF LayerInv, TypeOK, UndoFits, RestoreInput, Step
  <2> QED BY <1>1, <2>1
<1> HIDE DEF c, h
<1>4. new \in Coins
  BY <1>1, <1>2, <1>3, CoinsFields, MkCoinsType
<1>5. ModifyView(Here.tx, new) /\ db' = db
  BY DEF RestoreInput, c, h
<1> HIDE DEF new
<1> QED BY <1>1, <1>4, <1>5

LEMMA DisconnectUsage == LayerInv /\ LayerInv' /\ UsageExact /\ DisconnectSteps => UsageExact'
<1> SUFFICES ASSUME LayerInv, LayerInv', UsageExact, DisconnectSteps PROVE UsageExact'
  OBVIOUS
<1>1. CASE RemoveOutputs
  <2>1. Here.tx \in TxIds
    BY <1>1, HereType DEF LayerInv, RemoveOutputs
  <2> QED BY <1>1, <2>1, SpentType, ModifyViewUsage DEF RemoveOutputs
<1>2. CASE RestoreInput
  <2>1. PICK c \in Coins : ModifyView(Here.tx, c) /\ Here.tx \in TxIds /\ db' = db
    BY <1>2, RestoreWrites
  <2> QED BY <2>1, ModifyViewUsage
<1>3. CASE FinishDisconnect
  <2>1. CASE job.clean
    BY <1>3, <2>1, SameUsageStep DEF FinishDisconnect, tipVars, SameUsage
  <2>2. CASE ~job.clean
    BY <1>3, <2>2, DropUsage DEF FinishDisconnect, tipVars
  <2> QED BY <2>1, <2>2
<1> QED BY <1>1, <1>2, <1>3 DEF DisconnectSteps

LEMMA NextUsage == LayerInv /\ LayerInv' /\ UsageExact /\ [Next]_vars => UsageExact'
<1> SUFFICES ASSUME LayerInv, LayerInv', UsageExact, [Next]_vars PROVE UsageExact'
  OBVIOUS
<1>1. CASE UNCHANGED vars
  BY <1>1, SameUsageStep DEF vars, SameUsage
<1>2. CASE FetchCoins
  <2>1. PICK t \in TxIds : ReadTip(t) /\ db' = db /\ UNCHANGED <<view, viewUsage>>
    BY <1>2 DEF FetchCoins, viewVars
  <2>2. TipUsageExact'
    BY <2>1, ReadTipUsage
  <2> QED BY <2>1, <2>2 DEF UsageExact, TipUsageExact
<1>3. CASE StartConnect \/ StartDisconnect
  BY <1>3, SameUsageStep DEF StartConnect, StartDisconnect, SameUsage
<1>4. CASE Drop
  BY <1>4, DropUsage DEF Drop, tipVars
<1>5. CASE FlushView
  <2>1. TipUsageExact' /\ Reject
    BY <1>5, BatchWriteUsage DEF FlushView, Reject
  <2> QED BY <2>1, RejectUsage
<1>6. CASE FlushTip
  BY <1>6, EmptyUsage DEF FlushTip, viewVars, UsageExact
<1>7. CASE Crash
  <2>1. TipUsageExact' /\ Reject
    BY <1>7, EmptyUsage DEF Crash, TipUsageExact
  <2> QED BY <2>1, RejectUsage
<1> QED BY <1>1, <1>2, <1>3, <1>4, <1>5, <1>6, <1>7, ConnectUsage, DisconnectUsage DEF Next

(* cachedCoinsUsage of each cache is the weight of what it holds, though it *)
(* is adjusted by differences only (FetchCoins, the CCoinsModifier,         *)
(* BatchWrite and both flushes of coins.cpp).                               *)
THEOREM UsageExactAlways == Spec => []UsageExact
<1>1. Init => LayerInv /\ UsageExact
  BY InitInv, UsageInit
<1>2. LayerInv /\ UsageExact /\ [Next]_vars => LayerInv' /\ UsageExact'
  BY NextInv, NextUsage
<1> QED BY <1>1, <1>2, PTL DEF Spec
=============================================================================
