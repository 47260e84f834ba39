------------------------- MODULE ChainStateMarkProofs -------------------------
(***************************************************************************)
(* What the marks of invalid blocks in nStatus mean.  As long as nobody      *)
(* calls reconsiderblock, a block is marked only if an ancestor of it is     *)
(* marked as the cause; as long as nobody calls invalidateblock, only blocks *)
(* above one that breaks the rules are marked, and the databases a death     *)
(* leaves behind can be started from.  And invalidateblock leaves no marked   *)
(* block in the active chain, but for one that cannot be disconnected.        *)
(*                                                                          *)
(* All rest on one account of what the actions can do to an entry.         *)
(***************************************************************************)
EXTENDS ChainStateProofs

(* The entry an operation starts from: AcceptBlock adds one when none is there. *)
Before(b) == IF index[b] = Absent THEN NewEntry ELSE index[b]

(* What becomes of the entry e of block b in a step, f after it: why it has  *)
(* data, a higher validity or a mark that it had not, or lost one.           *)
ChangedTo(b, e, f) ==
  /\ e.nTx => f.nTx
  /\ f.nTx /\ ~e.nTx => AcceptBlock /\ b \notin BadBlock /\ f.data
  /\ f.level = SCRIPTS /\ e.level # SCRIPTS => b \notin BadSpend /\ f.undo
  /\ (e.data /\ ~f.data) \/ (e.undo /\ ~f.undo) => "prune" \in Features
  /\ f.failedValid /\ ~e.failedValid =>
       \/ InvalidateBlock /\ "invalidate" \in Features /\ b # Genesis
       \/ b \in BadBlock
       \/ b \in BadSpend /\ Stepping /\ b \in Chain[job.target]
  /\ f.failedChild /\ ~e.failedChild =>
       /\ \E m \in Chain[b] : m \in Known /\ Failed(index[m])
       /\ "invalidate" \in Features \/ \E c \in candidates : b \in Chain[c]
  /\ (e.failedValid /\ ~f.failedValid) \/ (e.failedChild /\ ~f.failedChild) =>
       ReconsiderBlock
Changed == \A b \in Blocks :
  /\ index[b] # Absent => index'[b] # Absent
  /\ index'[b] # Absent => ChangedTo(b, Before(b), index'[b])

(* The block invalidateblock was called for stays marked while the chain is  *)
(* taken back below it.                                                      *)
TargetMarked == Invalidating =>
  "invalidate" \in Features /\ job.target \in Known /\ index[job.target].failedValid
TargetMarkedInv == node # "down" => TargetMarked
-----------------------------------------------------------------------------
LEMMA BeforeEntry ==
  ASSUME NEW b \in Blocks, IndexOK(index)
  PROVE  /\ Before(b) \in Entry /\ EntryOK(Before(b))
         /\ index[b] # Absent => Before(b) = index[b]
  BY NewEntryType, IndexValue DEF Before, IndexOK

LEMMA OneChanged ==
  ASSUME IndexOK(index), NEW b \in Blocks, NEW r \in Entry,
         index' = [index EXCEPT ![b] = r], ChangedTo(b, Before(b), r)
  PROVE  Changed
<1>1. index'[b] = r /\ \A x \in Blocks \ {b} : index'[x] = index[x]
  BY DEF IndexOK, Index
<1>2. ASSUME NEW x \in Blocks, index'[x] # Absent PROVE ChangedTo(x, Before(x), index'[x])
  <2>1. CASE x = b
    BY <1>1, <2>1
  <2>2. CASE x # b
    BY <1>1, <1>2, <2>2, BeforeEntry DEF ChangedTo
  <2> QED BY <2>1, <2>2
<1>3. r # Absent
  BY EntryFields
<1> QED BY <1>1, <1>2, <1>3 DEF Changed

LEMMA SomeChanged ==
  ASSUME IndexOK(index),
         \A x \in Blocks : \/ index'[x] = index[x]
                           \/ /\ index[x] # Absent /\ index'[x] \in Entry
                              /\ ChangedTo(x, index[x], index'[x])
  PROVE  Changed
<1>1. ASSUME NEW x \in Blocks, index'[x] # Absent PROVE ChangedTo(x, Before(x), index'[x])
  <2>1. CASE index'[x] = index[x]
    BY <1>1, <2>1, BeforeEntry DEF ChangedTo
  <2>2. CASE index[x] # Absent /\ ChangedTo(x, index[x], index'[x])
    BY <2>2, BeforeEntry
  <2> QED BY <2>1, <2>2
<1>2. \A x \in Blocks : index[x] # Absent => index'[x] # Absent
  BY EntryFields
<1> QED BY <1>1, <1>2 DEF Changed

(* Of two blocks of a chain one is above the other.                          *)
LEMMA ChainsAreLines ==
  \A b \in Blocks : \A x, y \in Chain[b] : x \in Chain[y] \/ y \in Chain[x]
<1> DEFINE S == {b \in Blocks : \E x, y \in Chain[b] : ~(x \in Chain[y] \/ y \in Chain[x])}
<1>1. SUFFICES ASSUME S # {} PROVE FALSE
  OBVIOUS
<1>2. S \in SUBSET (Blocks \ {Genesis})
  BY ChainStateAssumption
<1>3. PICK b \in S : Parent[b] \in Blocks \ S
  BY <1>1, <1>2, FirstOfItsChain
<1>4. \A x, y \in Chain[Parent[b]] : x \in Chain[y] \/ y \in Chain[x]
  BY <1>3
<1> QED BY <1>2, <1>3, <1>4, ParentOf

LEMMA HeaderChange == IInv /\ AcceptBlockHeader => Changed
<1> SUFFICES ASSUME IInv, AcceptBlockHeader PROVE Changed
  OBVIOUS
<1>1. PICK b \in Blocks \ Known : Enter /\ index' = [index EXCEPT ![b] = NewEntry]
  BY DEF AcceptBlockHeader
<1>2. IndexOK(index)
  BY <1>1 DEF IInv, UpInv, IndexInv, Enter
<1>3. Before(b) = NewEntry /\ NewEntry \in Entry
  BY NewEntryType DEF Before, Known
<1>4. ChangedTo(b, Before(b), NewEntry)
  BY <1>3 DEF ChangedTo
<1> QED BY <1>1, <1>2, <1>3, <1>4, OneChanged

LEMMA ReceivedFields ==
  ASSUME NEW e \in Entry,
         NEW r, r = RaiseValidity([e EXCEPT !.nTx = TRUE, !.data = TRUE], TRANSACTIONS)
  PROVE  /\ r \in Entry /\ r.nTx = TRUE /\ r.data = TRUE /\ r.undo = e.undo
         /\ r.failedValid = e.failedValid /\ r.failedChild = e.failedChild
         /\ r.level = SCRIPTS => e.level = SCRIPTS
<1>1. PICK f : f = [e EXCEPT !.nTx = TRUE, !.data = TRUE]
  OBVIOUS
<1>2. /\ f \in Entry /\ f.nTx = TRUE /\ f.data = TRUE /\ f.undo = e.undo /\ f.level = e.level
      /\ f.failedValid = e.failedValid /\ f.failedChild = e.failedChild
  BY <1>1 DEF Entry
<1>3. r = RaiseValidity(f, TRANSACTIONS)
  BY <1>1, Zenon
<1> QED BY <1>2, <1>3, RaisedEntry DEF TRANSACTIONS, SCRIPTS

LEMMA AcceptBlockChange == IInv /\ AcceptBlock => Changed
<1> SUFFICES ASSUME IInv, AcceptBlock PROVE Changed
  OBVIOUS
<1>1. PICK b, e :
        /\ b \in Blocks \ {Genesis}
        /\ e = (IF b \in Known THEN index[b] ELSE NewEntry)
        /\ Enter
        /\ \/ /\ b \in BadBlock
              /\ index' = [index EXCEPT ![b] = [e EXCEPT !.failedValid = TRUE]]
           \/ b \notin BadBlock /\ ReceivedBlockTransactions(b, e)
  BY DEF AcceptBlock
<1>2. IndexOK(index)
  BY <1>1 DEF IInv, UpInv, IndexInv, Enter
<1>3. e = Before(b) /\ e \in Entry /\ EntryOK(e)
  BY <1>1, <1>2, BeforeEntry DEF Before, Known
<1>4. CASE b \in BadBlock /\ index' = [index EXCEPT ![b] = [e EXCEPT !.failedValid = TRUE]]
  <2>1. PICK r : r = [e EXCEPT !.failedValid = TRUE]
    OBVIOUS
  <2>2. /\ r \in Entry /\ r.level = e.level /\ r.failedValid = TRUE
        /\ r.failedChild = e.failedChild
        /\ r.data = e.data /\ r.undo = e.undo /\ r.nTx = e.nTx
    BY <1>3, <2>1, InvalidEntry
  <2>3. index' = [index EXCEPT ![b] = r]
    BY <1>4, <2>1, Zenon
  <2>4. ChangedTo(b, e, r)
    BY <1>4, <2>2 DEF ChangedTo
  <2> QED BY <1>1, <1>2, <1>3, <2>2, <2>3, <2>4, OneChanged
<1>5. CASE b \notin BadBlock /\ ReceivedBlockTransactions(b, e)
  <2>1. PICK r : r = RaiseValidity([e EXCEPT !.nTx = TRUE, !.data = TRUE], TRANSACTIONS)
    OBVIOUS
  <2>2. /\ r \in Entry /\ r.nTx = TRUE /\ r.data = TRUE /\ r.undo = e.undo
        /\ r.failedValid = e.failedValid /\ r.failedChild = e.failedChild
        /\ r.level = SCRIPTS => e.level = SCRIPTS
    BY <1>3, <2>1, ReceivedFields
  <2>3. index' = [index EXCEPT ![b] = r]
    BY <1>5, <2>1, Zenon DEF ReceivedBlockTransactions
  <2>4. ChangedTo(b, e, r)
    BY <1>5, <2>2 DEF ChangedTo
  <2> QED BY <1>1, <1>2, <1>3, <2>2, <2>3, <2>4, OneChanged
<1> QED BY <1>1, <1>4, <1>5

LEMMA FindMostWorkChainChange == IInv /\ FindMostWorkChain => Changed
<1> SUFFICES ASSUME IInv, FindMostWorkChain PROVE Changed
  OBVIOUS
<1>1. IndexOK(index) /\ SetsInv /\ tip \in Blocks
  <2>1. job.phase = "find"
    BY DEF FindMostWorkChain
  <2> QED BY <2>1, InJob DEF IndexInv
<1>2. CASE UNCHANGED index
  BY <1>1, <1>2, SomeChanged
<1>3. ASSUME NEW c \in candidates, NEW m \in Chain[c], Failed(index[m]),
             index' = [x \in Blocks |-> IF x \in Chain[c] \ Chain[m]
                         THEN [index[x] EXCEPT !.failedChild = TRUE] ELSE index[x]]
      PROVE  Changed
  <2>1. c \in Blocks /\ index[c] # Absent /\ Chain[c] \subseteq Blocks
    BY <1>1, OwnChain DEF SetsInv, Known
  <2>2. \A x \in Chain[c] : index[x] # Absent
    BY <1>1, <2>1, AncestorsKnown
  <2>3. ASSUME NEW x \in Chain[c] \ Chain[m] 
        PROVE  index'[x] \in Entry /\ ChangedTo(x, index[x], index'[x])
    <3>1. x \in Blocks /\ index[x] \in Entry /\ EntryOK(index[x])
      BY <1>1, <2>1, <2>2, IndexValue DEF IndexOK
    <3>2. index'[x] = [index[x] EXCEPT !.failedChild = TRUE]
      BY <1>3, <3>1
    <3>3. /\ index'[x] \in Entry /\ index'[x].level = index[x].level
          /\ index'[x].failedValid = index[x].failedValid
          /\ index'[x].failedChild = TRUE
          /\ index'[x].data = index[x].data /\ index'[x].undo = index[x].undo
          /\ index'[x].nTx = index[x].nTx
      BY <3>1, <3>2, InvalidChildEntry
    <3>4. m \in Chain[x]
      BY <2>1, ChainsAreLines
    <3>5. m \in Known
      BY <2>1, <2>2 DEF Known
    <3> QED BY <1>3, <3>3, <3>4, <3>5 DEF ChangedTo
  <2>4. \A x \in Blocks \ (Chain[c] \ Chain[m]) : index'[x] = index[x]
    BY <1>3
  <2> QED BY <1>1, <2>2, <2>3, <2>4, SomeChanged
<1>4. \/ UNCHANGED index
      \/ \E c \in candidates, m \in Blocks :
           /\ IsFirstUnusable(m, c)
           /\ LET above == Chain[c] \ Chain[m] IN
              IF FailedChain(m)
              THEN index' = [x \in Blocks |-> IF x \in above
                               THEN [index[x] EXCEPT !.failedChild = TRUE] ELSE index[x]]
              ELSE UNCHANGED index
  BY Zenon DEF FindMostWorkChain
<1>5. \/ UNCHANGED index
      \/ \E c \in candidates, m \in Blocks :
           /\ m \in Chain[c] /\ Failed(index[m])
           /\ index' = [x \in Blocks |-> IF x \in Chain[c] \ Chain[m]
                          THEN [index[x] EXCEPT !.failedChild = TRUE] ELSE index[x]]
  BY <1>4, Zenon DEF IsFirstUnusable, OffChain, FailedChain
<1> QED BY <1>2, <1>3, <1>5

LEMMA ConnectedFields ==
  ASSUME NEW e \in Entry, ~Failed(e),
         NEW r, r = RaiseValidity([e EXCEPT !.undo = TRUE], SCRIPTS)
  PROVE  /\ r \in Entry /\ r.undo = TRUE /\ r.data = e.data /\ r.nTx = e.nTx
         /\ r.failedValid = e.failedValid /\ r.failedChild = e.failedChild
<1>1. PICK f : f = [e EXCEPT !.undo = TRUE]
  OBVIOUS
<1>2. /\ f \in Entry /\ f.undo = TRUE /\ f.data = e.data /\ f.level = e.level
      /\ f.nTx = e.nTx /\ f.failedValid = e.failedValid /\ f.failedChild = e.failedChild
  BY <1>1 DEF Entry
<1>3. r = RaiseValidity(f, SCRIPTS)
  BY <1>1, Zenon
<1> QED BY <1>2, <1>3, RaisedEntry

LEMMA ConnectTipChange == IInv /\ ConnectTip => Changed
<1> SUFFICES ASSUME IInv, ConnectTip PROVE Changed
  OBVIOUS
<1>1. PICK b \in Blocks :
        /\ job.phase = "step" /\ NextBlock(b) /\ b \notin BadSpend
        /\ IF index[b].undo /\ IsValid(index[b], SCRIPTS)
           THEN UNCHANGED <<index, dirty>>
           ELSE index' = [index EXCEPT ![b] = RaiseValidity([@ EXCEPT !.undo = TRUE], SCRIPTS)]
  BY DEF ConnectTip
<1>2. IndexOK(index) /\ TargetInv /\ Stepping
  BY <1>1, InStep DEF IndexInv
<1>3. index[b] \in Entry /\ ~Failed(index[b]) /\ Before(b) = index[b]
  <2>1. index[b] # Absent /\ ~Failed(index[b])
    BY <1>1, <1>2 DEF NextBlock, TargetInv
  <2> QED BY <1>2, <2>1, IndexValue DEF IndexOK, Before
<1>4. CASE UNCHANGED index
  BY <1>2, <1>4, SomeChanged
<1>5. CASE index' = [index EXCEPT ![b] = RaiseValidity([@ EXCEPT !.undo = TRUE], SCRIPTS)]
  <2>1. PICK r : r = RaiseValidity([index[b] EXCEPT !.undo = TRUE], SCRIPTS)
    OBVIOUS
  <2>2. /\ r \in Entry /\ r.undo = TRUE /\ r.data = index[b].data /\ r.nTx = index[b].nTx
        /\ r.failedValid = index[b].failedValid /\ r.failedChild = index[b].failedChild
    BY <1>3, <2>1, ConnectedFields
  <2>3. index' = [index EXCEPT ![b] = r]
    BY <1>5, <2>1, Zenon
  <2>4. ChangedTo(b, index[b], r)
    BY <1>1, <2>2 DEF ChangedTo
  <2> QED BY <1>2, <1>3, <2>2, <2>3, <2>4, OneChanged
<1> QED BY <1>1, <1>4, <1>5

LEMMA MarkChange ==
  ASSUME IndexOK(index), NEW b \in Known, index' = [index EXCEPT ![b].failedValid = TRUE],
         \/ InvalidateBlock /\ "invalidate" \in Features /\ b # Genesis
         \/ b \in BadSpend /\ Stepping /\ b \in Chain[job.target]
  PROVE  Changed
<1>1. b \in Blocks /\ index[b] \in Entry /\ EntryOK(index[b]) /\ Before(b) = index[b]
  BY IndexValue DEF Known, IndexOK, Before
<1>2. PICK r : r = [index[b] EXCEPT !.failedValid = TRUE]
  OBVIOUS
<1>3. /\ r \in Entry /\ r.level = index[b].level /\ r.failedValid = TRUE
      /\ r.failedChild = index[b].failedChild
      /\ r.data = index[b].data /\ r.undo = index[b].undo /\ r.nTx = index[b].nTx
  BY <1>1, <1>2, InvalidEntry
<1>4. index' = [index EXCEPT ![b] = r]
  BY <1>2, Zenon
<1>5. ChangedTo(b, index[b], r)
  BY <1>3 DEF ChangedTo
<1> QED BY <1>1, <1>3, <1>4, <1>5, OneChanged

LEMMA InvalidBlockFoundChange == IInv /\ InvalidBlockFound => Changed
<1> SUFFICES ASSUME IInv, InvalidBlockFound PROVE Changed
  OBVIOUS
<1>1. PICK b \in Blocks :
        /\ job.phase = "step" /\ NextBlock(b) /\ b \in BadSpend
        /\ index' = [index EXCEPT ![b].failedValid = TRUE]
  BY DEF InvalidBlockFound
<1>2. IndexOK(index) /\ TargetInv /\ Stepping
  BY <1>1, InStep DEF IndexInv
<1>3. b \in Known /\ b \in Chain[job.target]
  BY <1>1, <1>2 DEF NextBlock, TargetInv, Known, OffChain
<1>4. index' = [index EXCEPT ![b].failedValid = TRUE]
  BY <1>1, Zenon
<1> QED BY <1>1, <1>2, <1>3, <1>4, MarkChange, Zenon

LEMMA InvalidateBlockChange == IInv /\ InvalidateBlock => Changed
<1> SUFFICES ASSUME IInv, InvalidateBlock PROVE Changed
  OBVIOUS
<1>1. PICK b \in Known \ {Genesis} :
        /\ Enter /\ "invalidate" \in Features
        /\ index' = [index EXCEPT ![b].failedValid = TRUE]
  BY DEF InvalidateBlock
<1>2. IndexOK(index)
  BY <1>1 DEF IInv, UpInv, IndexInv, Enter
<1>3. index' = [index EXCEPT ![b].failedValid = TRUE]
  BY <1>1, Zenon
<1> QED BY <1>1, <1>2, <1>3, MarkChange, Zenon

LEMMA InvalidateTipChange == IInv /\ TargetMarked /\ InvalidateTip => Changed
<1> SUFFICES ASSUME IInv, TargetMarked, InvalidateTip PROVE Changed
  OBVIOUS
<1>1. /\ job.phase = "invalidate" /\ job.target \in Chain[tip]
      /\ index' = [index EXCEPT ![tip].failedChild = TRUE]
  BY DEF InvalidateTip
<1>2. IndexOK(index) /\ IndexInv /\ tip \in Blocks /\ job.target # Genesis
  BY <1>1, InJob DEF IndexInv, JobInv, Invalidating
<1>3. /\ "invalidate" \in Features
      /\ job.target \in Known /\ index[job.target].failedValid
  BY <1>1 DEF TargetMarked, Invalidating
<1>4. index[tip] \in Entry /\ EntryOK(index[tip]) /\ Before(tip) = index[tip]
  <2>1. tip # Genesis
    BY <1>1, <1>2, ChainStateAssumption
  <2>2. index[tip] # Absent
    BY <1>2, <2>1, OwnChain, IndexValue DEF IndexInv, Scripted, IndexOK, SCRIPTS
  <2> QED BY <1>2, <2>2, IndexValue DEF IndexOK, Before
<1>5. PICK r : r = [index[tip] EXCEPT !.failedChild = TRUE]
  OBVIOUS
<1>6. /\ r \in Entry /\ r.level = index[tip].level /\ r.failedChild = TRUE
      /\ r.failedValid = index[tip].failedValid
      /\ r.data = index[tip].data /\ r.undo = index[tip].undo /\ r.nTx = index[tip].nTx
  BY <1>4, <1>5, InvalidChildEntry
<1>7. index' = [index EXCEPT ![tip] = r]
  BY <1>1, <1>5, Zenon
<1>8. ChangedTo(tip, index[tip], r)
  BY <1>1, <1>3, <1>6 DEF ChangedTo, Failed
<1> QED BY <1>2, <1>4, <1>6, <1>7, <1>8, OneChanged

LEMMA ClearedFields ==
  ASSUME NEW e \in Entry, NEW r, r = [e EXCEPT !.failedValid = FALSE, !.failedChild = FALSE]
  PROVE  /\ r \in Entry
         /\ r.level = e.level /\ r.data = e.data /\ r.undo = e.undo /\ r.nTx = e.nTx
         /\ r.failedValid = FALSE /\ r.failedChild = FALSE
  BY DEF Entry

LEMMA ReconsiderBlockChange == IInv /\ ReconsiderBlock => Changed
<1> SUFFICES ASSUME IInv, ReconsiderBlock PROVE Changed
  OBVIOUS
<1>1. PICK b \in Known :
        LET below == {x \in Known : b \in Chain[x] /\ ~IsValid(index[x], TRANSACTIONS)}
            above == {x \in Chain[b] : Failed(index[x])}
        IN
        /\ Enter /\ "reconsider" \in Features
        /\ index' = [x \in Blocks |-> IF x \in below \cup above
                       THEN [index[x] EXCEPT !.failedValid = FALSE, !.failedChild = FALSE]
                       ELSE index[x]]
  BY Zenon DEF ReconsiderBlock
<1>2. IndexOK(index)
  BY <1>1 DEF IInv, UpInv, IndexInv, Enter
<1>3. PICK M : /\ M \subseteq Known
               /\ index' = [x \in Blocks |-> IF x \in M
                       THEN [index[x] EXCEPT !.failedValid = FALSE, !.failedChild = FALSE]
                       ELSE index[x]]
  <2> DEFINE below == {x \in Known : b \in Chain[x] /\ ~IsValid(index[x], TRANSACTIONS)}
             above == {x \in Chain[b] : Failed(index[x])}
  <2>1. below \cup above \subseteq Known
    BY <1>2, AncestorsKnown, OwnChain DEF Known
  <2>2. index' = [x \in Blocks |-> IF x \in below \cup above
                       THEN [index[x] EXCEPT !.failedValid = FALSE, !.failedChild = FALSE]
                       ELSE index[x]]
    BY <1>1, Zenon
  <2> HIDE DEF below, above
  <2> QED BY <2>1, <2>2, Zenon
<1>4. ASSUME NEW x \in M
      PROVE  index[x] # Absent /\ index'[x] \in Entry /\ ChangedTo(x, index[x], index'[x])
  <2>1. x \in Blocks /\ index[x] \in Entry /\ index[x] # Absent
    BY <1>2, <1>3, IndexValue DEF Known, IndexOK
  <2>2. index'[x] = [index[x] EXCEPT !.failedValid = FALSE, !.failedChild = FALSE]
    BY <1>3, <2>1
  <2>3. /\ index'[x] \in Entry
        /\ index'[x].level = index[x].level /\ index'[x].data = index[x].data
        /\ index'[x].undo = index[x].undo /\ index'[x].nTx = index[x].nTx
        /\ index'[x].failedValid = FALSE /\ index'[x].failedChild = FALSE
    BY <2>1, <2>2, ClearedFields
  <2> QED BY <1>1, <2>1, <2>3 DEF ChangedTo
<1>5. \A x \in Blocks \ M : index'[x] = index[x]
  BY <1>3
<1> QED BY <1>2, <1>4, <1>5, SomeChanged

LEMMA PrunedFields ==
  ASSUME NEW e \in Entry, NEW r, r = [e EXCEPT !.data = FALSE, !.undo = FALSE]
  PROVE  /\ r \in Entry
         /\ r.level = e.level /\ r.data = FALSE /\ r.undo = FALSE /\ r.nTx = e.nTx
         /\ r.failedValid = e.failedValid /\ r.failedChild = e.failedChild
  BY DEF Entry

LEMMA PruneChange ==
  ASSUME IndexOK(index), NEW S \in SUBSET Prunable, index' = PruneOneBlockFile(S)
  PROVE  Changed
<1>1. S \subseteq Known /\ (S # {} => "prune" \in Features)
  BY DEF Prunable
<1>2. ASSUME NEW x \in S
      PROVE  index[x] # Absent /\ index'[x] \in Entry /\ ChangedTo(x, index[x], index'[x])
  <2>1. x \in Blocks /\ index[x] \in Entry /\ index[x] # Absent
    BY <1>1, IndexValue DEF Known, IndexOK
  <2>2. index'[x] = [index[x] EXCEPT !.data = FALSE, !.undo = FALSE]
    BY <2>1 DEF PruneOneBlockFile
  <2>3. /\ index'[x] \in Entry
        /\ index'[x].level = index[x].level /\ index'[x].data = FALSE
        /\ index'[x].undo = FALSE /\ index'[x].nTx = index[x].nTx
        /\ index'[x].failedValid = index[x].failedValid
        /\ index'[x].failedChild = index[x].failedChild
    BY <2>1, <2>2, PrunedFields
  <2> QED BY <1>1, <2>1, <2>3 DEF ChangedTo
<1>3. \A x \in Blocks \ S : index'[x] = index[x]
  BY DEF PruneOneBlockFile
<1> QED BY <1>2, <1>3, SomeChanged

(* Whatever a running node does to an entry is one of these changes.         *)
LEMMA EntriesChange ==
  ASSUME IInv, TargetMarked, Next, node # "down", node' # "down"
  PROVE  Changed
<1>1. IndexOK(index)
  BY DEF IInv, UpInv, IndexInv
<1>2. CASE UNCHANGED index
  BY <1>1, <1>2, SomeChanged
<1>3. CASE AcceptBlockHeader \/ AcceptBlock \/ AcceptBlockAgain
  BY <1>2, <1>3, HeaderChange, AcceptBlockChange DEF AcceptBlockAgain, memVars
<1>4. CASE Activation
  BY <1>2, <1>4, FindMostWorkChainChange, ConnectTipChange, InvalidBlockFoundChange
     DEF Activation, EnterActivateBestChain, StepDisconnect, FailedToRead, UpdateTip, memVars
<1>5. CASE Rpc
  BY <1>2, <1>5, InvalidateBlockChange, InvalidateTipChange, ReconsiderBlockChange
     DEF Rpc, InvalidateDone
<1>6. CASE FlushStateToDisk \/ NoSpaceForIndex
  <2>1. PICK S \in SUBSET Prunable : index' = PruneOneBlockFile(S)
    BY <1>6 DEF FlushStateToDisk, NoSpaceForIndex
  <2> QED BY <1>1, <2>1, PruneChange
<1>7. CASE FlushCoins \/ CoinsNotFlushed
  BY <1>2, <1>7 DEF FlushCoins, CoinsNotFlushed, memVars
<1>8. ~(AssertionFails \/ Crash \/ Shutdown \/ LoadBlockIndexDB \/ StartFails)
  BY DEF AssertionFails, Crash, Shutdown, LoadBlockIndexDB, StartFails, Stop
<1> QED BY <1>3, <1>4, <1>5, <1>6, <1>7, <1>8 DEF Next
-----------------------------------------------------------------------------
(* What a running node writes, if anything: entries of its index, so that the *)
(* index on disk is the one in memory, but for derived marks.                *)
Writes ==
  \/ UNCHANGED diskIndex
  \/ /\ Copied(index', diskIndex', {})
     /\ \A b \in Blocks : diskIndex'[b] = index'[b] \/ diskIndex'[b] = diskIndex[b]

LEMMA RunningWrites ==
  ASSUME IInv, Next, node # "down", node' # "down"
  PROVE  Writes
<1>1. IndexInv /\ DiskInv /\ IInv'
  BY Inductive DEF IInv, UpInv
<1>2. CASE FlushStateToDisk
  <2>1. PICK S \in SUBSET Prunable :
          /\ index' = PruneOneBlockFile(S)
          /\ diskIndex' = WriteBatchSync(PruneOneBlockFile(S), S)
          /\ dirty' = {}
    BY <1>2 DEF FlushStateToDisk
  <2>2. \A b \in Blocks : diskIndex'[b] = index'[b] \/ diskIndex'[b] = diskIndex[b]
    BY <2>1 DEF WriteBatchSync
  <2>3. Copied(index', diskIndex', {})
    BY <1>1, <2>1 DEF IInv, UpInv, IndexInv
  <2> QED BY <2>2, <2>3 DEF Writes
<1>3. CASE ~FlushStateToDisk
  <2>1. UNCHANGED diskIndex
    BY <1>3 DEF Next, Activation, Rpc, AcceptBlockHeader, AcceptBlock, AcceptBlockAgain,
       EnterActivateBestChain, FindMostWorkChain, StepDisconnect, ConnectTip,
       InvalidBlockFound, FailedToRead, UpdateTip, InvalidateBlock, InvalidateTip,
       InvalidateDone, ReconsiderBlock, FlushCoins, NoSpaceForIndex, CoinsNotFlushed,
       AssertionFails, Crash, Shutdown, LoadBlockIndexDB, StartFails, Stop, diskVars, vars
  <2> QED BY <2>1 DEF Writes
<1> QED BY <1>2, <1>3

(* Who is taking the chain back below an invalid block was doing so already,  *)
(* unless invalidateblock was just called.                                   *)
LEMMA StaysInvalidating ==
  ASSUME IInv, Next, ~InvalidateBlock, node' # "down", Invalidating'
  PROVE  node # "down" /\ Invalidating /\ job'.target = job.target /\ ~ReconsiderBlock
<1>1. job \in JobType /\ (job # Free => node # "down") /\ ~(job' = Free)
  BY FreeFields DEF IInv, TypeOK, Invalidating
<1>2. ~(job.phase = "free") => JobInv
  BY <1>1, FreeFields DEF IInv, UpInv
<1>3. ~(UNCHANGED job /\ job = Free)
  BY <1>1
<1>4. CASE AcceptBlockHeader \/ AcceptBlock \/ AcceptBlockAgain \/ ReconsiderBlock
           \/ EnterActivateBestChain
  <2>1. job' = [Free EXCEPT !.phase = "find", !.old = tip]
    BY <1>3, <1>4 DEF AcceptBlockHeader, AcceptBlock, AcceptBlockAgain, ReconsiderBlock,
       EnterActivateBestChain, Enter
  <2> QED BY <2>1, FreeFields DEF Invalidating, JobType
<1>5. CASE FindMostWorkChain
  <2>1. /\ job.phase = "find"
        /\ job' = job \/ \E b \in candidates : job' = [job EXCEPT !.phase = "step", !.target = b]
    BY <1>1, <1>5 DEF FindMostWorkChain
  <2> QED BY <1>1, <1>2, <2>1 DEF Invalidating, JobType, JobInv, Moving
<1>6. CASE StepDisconnect \/ ConnectTip \/ InvalidBlockFound \/ FailedToRead
  <2>1. \/ job' = [job EXCEPT !.phase = "update", !.move = "disconnect"]
        \/ job' = [job EXCEPT !.phase = "update", !.move = "connect"]
    BY <1>1, <1>6 DEF StepDisconnect, DisconnectTip, ConnectTip, InvalidBlockFound, FailedToRead,
       Leave, AbortNode
  <2> QED BY <1>1, <2>1 DEF Invalidating, JobType
<1>7. CASE UpdateTip
  <2>1. /\ job.phase = "update"
        /\ \/ job' = [job EXCEPT !.phase = "step", !.move = "none"]
           \/ job.move \notin {"connect", "disconnect"}
              /\ job' = [job EXCEPT !.phase = "invalidate", !.move = "none"]
    BY <1>1, <1>7 DEF UpdateTip, Leave
  <2>2. job # Free /\ (job'.phase = "invalidate" => job.move = "invalidate")
    BY <1>1, <1>2, <2>1, FreeFields DEF JobType, JobInv, Moving
  <2> QED BY <1>1, <1>7, <2>1, <2>2 DEF Invalidating, JobType, ReconsiderBlock, Enter
<1>8. CASE InvalidateTip \/ InvalidateDone
  <2>1. job.phase = "invalidate" /\ job' = [job EXCEPT !.phase = "update", !.move = "invalidate"]
    BY <1>1, <1>8 DEF InvalidateTip, InvalidateDone, DisconnectTip, AbortNode
  <2>2. job # Free
    BY <2>1, FreeFields
  <2> QED BY <1>1, <2>1, <2>2 DEF Invalidating, JobType, ReconsiderBlock, Enter
<1>9. CASE FlushStateToDisk
  <2>1. job' = job \/ job' = [job EXCEPT !.phase = "flush"]
    BY <1>9 DEF FlushStateToDisk
  <2>2. (job' # job => job.move = "invalidate" /\ job'.target = job.target) /\ Invalidating
    BY <1>1, <2>1 DEF Invalidating, JobType
  <2> QED BY <1>1, <2>2, FreeFields DEF Invalidating, ReconsiderBlock, Enter
<1>10. CASE FlushCoins
  <2>1. job.phase = "flush" /\ job' = [job EXCEPT !.phase = "update"]
    BY <1>1, <1>10 DEF FlushCoins
  <2> QED BY <1>1, <2>1, FreeFields DEF Invalidating, JobType, ReconsiderBlock, Enter
<1>11. ~(NoSpaceForIndex \/ CoinsNotFlushed \/ Crash \/ AssertionFails \/ Shutdown
          \/ LoadBlockIndexDB)
  BY <1>1 DEF NoSpaceForIndex, CoinsNotFlushed, Crash, AssertionFails, Shutdown,
     LoadBlockIndexDB, AbortNode, Stop
<1>12. ~StartFails
  BY DEF StartFails, vars
<1> QED BY <1>4, <1>5, <1>6, <1>7, <1>8, <1>9, <1>10, <1>11, <1>12 DEF Next, Activation, Rpc

LEMMA TargetMarkedStep == IInv /\ TargetMarkedInv /\ [Next]_vars => TargetMarkedInv'
<1> SUFFICES ASSUME IInv, TargetMarkedInv, [Next]_vars, node' # "down", Invalidating'
             PROVE  /\ "invalidate" \in Features
                    /\ job'.target \in Known' /\ index'[job'.target].failedValid
  BY DEF TargetMarkedInv, TargetMarked
<1>1. CASE UNCHANGED vars
  BY <1>1 DEF vars, Invalidating, TargetMarkedInv, TargetMarked, Known
<1>2. CASE InvalidateBlock
  <2>1. PICK b \in Known : /\ node # "down" /\ "invalidate" \in Features
                           /\ index' = [index EXCEPT ![b].failedValid = TRUE]
                           /\ job' = [Free EXCEPT !.phase = "invalidate", !.target = b]
    BY <1>2 DEF InvalidateBlock, Enter
  <2>2. b \in Blocks /\ index \in Index /\ index[b] \in Entry /\ EntryOK(index[b])
    BY <2>1, IndexValue DEF Known, IInv, UpInv, IndexInv, IndexOK
  <2>3. PICK r : r = [index[b] EXCEPT !.failedValid = TRUE]
    OBVIOUS
  <2>4. index' = [index EXCEPT ![b] = r]
    BY <2>1, <2>3, Zenon
  <2>5. r \in Entry /\ r.failedValid = TRUE
    BY <2>2, <2>3, InvalidEntry
  <2>6. index'[b] = r /\ index'[b] # Absent
    BY <2>2, <2>4, <2>5, EntryFields DEF Index
  <2>7. job'.target = b
    BY <2>1, FreeFields DEF JobType
  <2> QED BY <2>1, <2>2, <2>5, <2>6, <2>7 DEF Known
<1>3. CASE Next /\ ~InvalidateBlock
  <2>1. /\ node # "down" /\ Invalidating /\ job'.target = job.target /\ ~ReconsiderBlock
    BY <1>3, StaysInvalidating
  <2>2. Changed /\ TargetMarked
    BY <1>3, <2>1, EntriesChange DEF TargetMarkedInv
  <2>3. /\ "invalidate" \in Features /\ job.target \in Blocks
        /\ index[job.target] # Absent /\ index[job.target].failedValid
    BY <2>1, <2>2 DEF TargetMarked, Known
  <2>4. index'[job.target] # Absent
    BY <2>2, <2>3 DEF Changed
  <2>5. index'[job.target].failedValid
    BY <2>1, <2>2, <2>3, <2>4 DEF Changed, ChangedTo, Before
  <2> QED BY <2>1, <2>3, <2>4, <2>5 DEF Known
<1> QED BY <1>1, <1>2, <1>3
-----------------------------------------------------------------------------
(* What is true of every entry: one that breaks the rules of a block is never *)
(* stored, one whose scripts fail is never connected, the data stay until    *)
(* they are pruned, and without invalidateblock a mark has such a cause.     *)
BreaksRules(b) == \E x \in Chain[b] : x \in BadBlock \cup BadSpend
SoundEntry(b, e) ==
  /\ e.nTx => b \notin BadBlock
  /\ e.level = SCRIPTS => b \notin BadSpend
  /\ "prune" \in Features \/ ((e.nTx => e.data) /\ (e.level = SCRIPTS => e.undo))
  /\ Failed(e) => "invalidate" \in Features \/ BreaksRules(b)
  /\ b = Genesis => e.nTx /\ ~e.failedValid
Sound(idx) == \A b \in Blocks : idx[b] # Absent => SoundEntry(b, idx[b])

(* "The failed mask cannot be set for blocks without invalid parents."       *)
Marked(idx) == "reconsider" \in Features \/
  \A b \in Blocks : idx[b] # Absent /\ Failed(idx[b]) => \E x \in Chain[b] : idx[x].failedValid
(* A cause on disk is one in memory.                                         *)
MarksKept == "reconsider" \in Features \/
  \A b \in Blocks : diskIndex[b] # Absent /\ diskIndex[b].failedValid => index[b].failedValid

MarksInv == node # "down" => TargetMarked /\ Sound(index) /\ Marked(index) /\ MarksKept
DiskMarksInv == Sound(diskIndex) /\ Marked(diskIndex)
MInv == IInv /\ MarksInv /\ DiskMarksInv
-----------------------------------------------------------------------------
LEMMA NewEntrySound ==
  ASSUME NEW b \in Blocks \ {Genesis}
  PROVE  SoundEntry(b, NewEntry)
<1>1. NewEntry.nTx = FALSE /\ NewEntry.level = 2 /\ ~Failed(NewEntry)
  BY NewEntryType DEF NewEntry
<1> QED BY <1>1 DEF SoundEntry, SCRIPTS

LEMMA ChangedSound ==
  ASSUME IndexOK(index), Sound(index), Changed
  PROVE  Sound(index')
<1> SUFFICES ASSUME NEW b \in Blocks, index'[b] # Absent PROVE SoundEntry(b, index'[b])
  BY DEF Sound
<1> DEFINE e == Before(b)
           f == index'[b]
<1>1. SoundEntry(b, e)
  <2>1. CASE index[b] = Absent
    <3>1. b # Genesis
      BY <2>1 DEF IndexOK
    <3> QED BY <2>1, <3>1, NewEntrySound DEF Before
  <2>2. CASE index[b] # Absent
    BY <2>2 DEF Sound, Before
  <2> QED BY <2>1, <2>2
<1>2. ChangedTo(b, e, f)
  BY DEF Changed
<1> HIDE DEF e, f
<1>3. f.nTx => b \notin BadBlock
  BY <1>1, <1>2 DEF ChangedTo, SoundEntry
<1>4. f.level = SCRIPTS => b \notin BadSpend
  BY <1>1, <1>2 DEF ChangedTo, SoundEntry
<1>5. "prune" \in Features \/ ((f.nTx => f.data) /\ (f.level = SCRIPTS => f.undo))
  BY <1>1, <1>2 DEF ChangedTo, SoundEntry
<1>6. Failed(f) => "invalidate" \in Features \/ BreaksRules(b)
  <2>1. CASE Failed(e)
    BY <1>1, <2>1 DEF SoundEntry
  <2>2. CASE f.failedValid /\ ~Failed(e)
    BY <1>2, <2>2, OwnChain DEF ChangedTo, BreaksRules, Failed
  <2>3. CASE f.failedChild /\ ~Failed(e)
    <3>1. PICK m \in Chain[b] : m \in Known /\ Failed(index[m])
      BY <1>2, <2>3 DEF ChangedTo, Failed
    <3>2. m \in Blocks /\ ("invalidate" \in Features \/ BreaksRules(m))
      BY <3>1 DEF Sound, SoundEntry, Known
    <3> QED BY <3>1, <3>2, ChainOfAncestor DEF BreaksRules
  <2> QED BY <2>1, <2>2, <2>3 DEF Failed
<1>7. b = Genesis => f.nTx /\ ~f.failedValid
  <2>1. b = Genesis => e.nTx /\ ~e.failedValid
    BY <1>1 DEF SoundEntry
  <2> QED BY <1>2, <2>1, ChainStateAssumption DEF ChangedTo
<1> QED BY <1>3, <1>4, <1>5, <1>6, <1>7 DEF SoundEntry, f

LEMMA ChangedMarked ==
  ASSUME IndexOK(index), Marked(index), Changed
  PROVE  Marked(index')
<1> SUFFICES ASSUME "reconsider" \notin Features,
                    NEW b \in Blocks, index'[b] # Absent, Failed(index'[b])
             PROVE  \E x \in Chain[b] : index'[x].failedValid
  BY DEF Marked
<1>1. ChangedTo(b, Before(b), index'[b]) /\ ~ReconsiderBlock
  BY DEF Changed, ReconsiderBlock
<1>2. ASSUME NEW m \in Chain[b], index[m] # Absent, Failed(index[m])
      PROVE  \E x \in Chain[b] : index'[x].failedValid
  <2>1. m \in Blocks
    BY OwnChain
  <2>2. PICK x \in Chain[m] : index[x].failedValid
    BY <1>2, <2>1 DEF Marked
  <2>3. x \in Blocks /\ x \in Chain[b] /\ index[x] # Absent
    BY <1>2, <2>1, OwnChain, ChainOfAncestor, AncestorsKnown
  <2>4. index'[x].failedValid
    BY <1>1, <2>2, <2>3 DEF Changed, ChangedTo, Before
  <2> QED BY <2>3, <2>4
<1>3. CASE index'[b].failedValid
  BY <1>3, OwnChain
<1>4. CASE index'[b].failedChild
  <2>1. CASE index[b] # Absent /\ index[b].failedChild
    BY <1>2, <2>1, OwnChain DEF Failed
  <2>2. CASE ~(index[b] # Absent /\ index[b].failedChild)
    <3>1. ~Before(b).failedChild
      BY <2>2, NewEntryType DEF Before, Failed
    <3> QED BY <1>1, <1>2, <1>4, <3>1 DEF ChangedTo, Known
  <2> QED BY <2>1, <2>2
<1> QED BY <1>3, <1>4 DEF Failed

(* A mark on an entry that is a cause stays, unless reconsiderblock lifts it. *)
LEMMA CauseStays ==
  ASSUME Changed, "reconsider" \notin Features,
         NEW b \in Blocks, index[b] # Absent, index[b].failedValid
  PROVE  index'[b].failedValid
<1>1. ~ReconsiderBlock
  BY DEF ReconsiderBlock
<1> QED BY <1>1 DEF Changed, ChangedTo, Before

(* An index w that was just written from the index idx in memory.            *)
LEMMA WrittenMarks ==
  ASSUME IndexOK(diskIndex), Sound(diskIndex), Marked(diskIndex),
         NEW idx, IndexOK(idx), Sound(idx), Marked(idx),
         "reconsider" \in Features \/
            \A b \in Blocks : diskIndex[b] # Absent /\ diskIndex[b].failedValid => idx[b].failedValid,
         NEW w, IndexOK(w), Copied(idx, w, {}),
         \A b \in Blocks : w[b] = idx[b] \/ w[b] = diskIndex[b]
  PROVE  /\ Sound(w) /\ Marked(w)
         /\ "reconsider" \in Features \/
              \A b \in Blocks : w[b] # Absent /\ w[b].failedValid => idx[b].failedValid
<1>1. Sound(w)
  BY DEF Sound
<1>2. ASSUME NEW b \in Blocks
      PROVE  /\ w[b] = Absent <=> idx[b] = Absent
             /\ w[b] # Absent => w[b].failedValid = idx[b].failedValid
  <2>1. SameEntry(idx[b], w[b]) /\ idx \in Index /\ w \in Index
    BY DEF Copied, IndexOK
  <2>2. w[b] = Absent <=> idx[b] = Absent
    BY <2>1 DEF SameEntry
  <2> QED BY <2>1, <2>2, IndexValue, SameFields
<1>3. ASSUME "reconsider" \notin Features, NEW b \in Blocks, w[b] # Absent, Failed(w[b])
      PROVE  \E x \in Chain[b] : w[x].failedValid
  <2>1. \E x \in Chain[b] : idx[x].failedValid
    <3>1. CASE w[b] = idx[b]
      BY <1>3, <3>1 DEF Marked
    <3>2. CASE w[b] = diskIndex[b]
      <4>1. PICK x \in Chain[b] : diskIndex[x].failedValid
        BY <1>3, <3>2 DEF Marked
      <4>2. x \in Blocks /\ diskIndex[x] # Absent
        BY <1>3, <3>2, OwnChain, AncestorsKnown
      <4> QED BY <1>3, <4>1, <4>2
    <3> QED BY <3>1, <3>2
  <2>2. PICK x \in Chain[b] : idx[x].failedValid
    BY <2>1
  <2>3. x \in Blocks /\ w[x] # Absent
    BY <1>3, OwnChain, AncestorsKnown
  <2> QED BY <1>2, <2>2, <2>3
<1> QED BY <1>1, <1>2, <1>3 DEF Marked

LEMMA DownSteps ==
  ASSUME IInv, Next, node = "down" \/ node' = "down"
  PROVE  Crash \/ AssertionFails \/ Shutdown \/ LoadBlockIndexDB \/ UNCHANGED vars
<1>1. CASE node = "down"
  <2>1. job.phase = "free"
    BY <1>1, FreeFields DEF IInv
  <2>2. ~(AcceptBlockHeader \/ AcceptBlock \/ AcceptBlockAgain \/ Activation \/ Rpc)
    BY <1>1, <2>1 DEF AcceptBlockHeader, AcceptBlock, AcceptBlockAgain, Activation, Rpc,
       EnterActivateBestChain, FindMostWorkChain, StepDisconnect, ConnectTip,
       InvalidBlockFound, FailedToRead, UpdateTip, InvalidateBlock, InvalidateTip,
       InvalidateDone, ReconsiderBlock, Enter
  <2>3. ~(FlushStateToDisk \/ FlushCoins \/ NoSpaceForIndex \/ CoinsNotFlushed)
    BY <1>1, <2>1 DEF FlushStateToDisk, FlushCoins, NoSpaceForIndex, CoinsNotFlushed
  <2> QED BY <2>2, <2>3 DEF Next, StartFails
<1>2. CASE node # "down" /\ node' = "down"
  <2>1. node' # node /\ node' # "stopping"
    BY <1>2
  <2>2. ~(AcceptBlockHeader \/ AcceptBlock \/ AcceptBlockAgain \/ Activation \/ Rpc)
    BY <2>1 DEF AcceptBlockHeader, AcceptBlock, AcceptBlockAgain, Activation, Rpc,
       EnterActivateBestChain, FindMostWorkChain, StepDisconnect, ConnectTip,
       InvalidBlockFound, FailedToRead, UpdateTip, InvalidateBlock, InvalidateTip,
       InvalidateDone, ReconsiderBlock, DisconnectTip, AbortNode
  <2>3. ~(FlushStateToDisk \/ FlushCoins \/ NoSpaceForIndex \/ CoinsNotFlushed)
    BY <2>1 DEF FlushStateToDisk, FlushCoins, NoSpaceForIndex, CoinsNotFlushed, AbortNode
  <2> QED BY <2>2, <2>3 DEF Next, StartFails
<1> QED BY <1>1, <1>2

LEMMA RunningMarks ==
  ASSUME MInv, Next, node # "down", node' # "down"
  PROVE  MInv'
<1>1. /\ IInv /\ IInv' /\ TargetMarked /\ Sound(index) /\ Marked(index) /\ MarksKept
      /\ Sound(diskIndex) /\ Marked(diskIndex)
  BY Inductive DEF MInv, MarksInv, DiskMarksInv
<1>2. IndexInv /\ IndexInv' /\ DiskInv /\ DiskInv'
  BY <1>1 DEF IInv, UpInv
<1>3. Changed /\ Writes
  BY <1>1, EntriesChange, RunningWrites
<1>4. TargetMarked'
  BY <1>1, TargetMarkedStep DEF TargetMarkedInv
<1>5. Sound(index') /\ Marked(index')
  BY <1>1, <1>2, <1>3, ChangedSound, ChangedMarked DEF IndexInv
<1>6. "reconsider" \in Features \/
        \A b \in Blocks : diskIndex[b] # Absent /\ diskIndex[b].failedValid => index'[b].failedValid
  <2> SUFFICES ASSUME "reconsider" \notin Features, NEW b \in Blocks, diskIndex[b] # Absent,
                      diskIndex[b].failedValid
               PROVE  index'[b].failedValid
    OBVIOUS
  <2>1. index[b] # Absent /\ index[b].failedValid
    BY <1>1, <1>2 DEF MarksKept, IndexInv, Kept
  <2> QED BY <1>3, <2>1, CauseStays
<1>7. Sound(diskIndex') /\ Marked(diskIndex') /\ MarksKept'
  <2>1. CASE UNCHANGED diskIndex
    <3>1. Sound(diskIndex') /\ Marked(diskIndex')
      BY <1>1, <2>1
    <3>2. MarksKept'
      BY <1>6, <2>1 DEF MarksKept
    <3> QED BY <3>1, <3>2
  <2>2. CASE /\ Copied(index', diskIndex', {})
             /\ \A b \in Blocks : diskIndex'[b] = index'[b] \/ diskIndex'[b] = diskIndex[b]
    <3> QED BY <1>1, <1>2, <1>5, <1>6, <2>2, WrittenMarks DEF IndexInv, DiskInv, MarksKept
  <2> QED BY <1>3, <2>1, <2>2 DEF Writes
<1> QED BY <1>1, <1>4, <1>5, <1>7 DEF MInv, MarksInv, DiskMarksInv

LEMMA DyingMarks ==
  ASSUME MInv, Crash \/ AssertionFails \/ Shutdown
  PROVE  MInv'
<1>1. IInv /\ Sound(diskIndex) /\ Marked(diskIndex) /\ IndexOK(diskIndex)
  BY DEF MInv, DiskMarksInv, IInv, DiskInv
<1>2. IInv' /\ node' = "down"
  BY <1>1, DyingStep DEF Crash, AssertionFails, Shutdown, Stop
<1>3. CASE Crash \/ AssertionFails
  <2>1. UNCHANGED diskIndex
    BY <1>3 DEF Crash, AssertionFails, diskVars
  <2>2. DiskMarksInv'
    BY <1>1, <2>1 DEF DiskMarksInv
  <2> QED BY <1>2, <2>2 DEF MInv, MarksInv
<1>4. CASE Shutdown
  <2>1. /\ node # "down"
        /\ diskIndex' = [b \in Blocks |-> IF b \in dirty THEN index[b] ELSE diskIndex[b]]
    BY <1>4 DEF Shutdown, Enter, WriteBatchSync
  <2>2. /\ IndexOK(index) /\ Copied(index, diskIndex, dirty) /\ Kept(index, diskIndex)
        /\ Sound(index) /\ Marked(index) /\ MarksKept
    BY <1>1, <2>1 DEF MInv, MarksInv, IInv, UpInv, IndexInv
  <2>3. IndexOK(diskIndex') /\ Copied(index, diskIndex', {})
    BY <1>1, <2>1, <2>2, BatchWritten
  <2>4. \A b \in Blocks : diskIndex'[b] = index[b] \/ diskIndex'[b] = diskIndex[b]
    BY <2>1
  <2>5. Sound(diskIndex') /\ Marked(diskIndex')
    BY <1>1, <2>2, <2>3, <2>4, WrittenMarks DEF MarksKept
  <2> QED BY <1>2, <2>5 DEF MInv, MarksInv, DiskMarksInv
<1> QED BY <1>3, <1>4

LEMMA InitMarks == Init => MInv
<1> SUFFICES ASSUME Init PROVE MInv
  OBVIOUS
<1>1. /\ Genesis \in Blocks /\ index[Genesis] = GenesisEntry
      /\ \A b \in Blocks \ {Genesis} : index[b] = Absent
      /\ diskIndex = index /\ job = Free
  BY ChainStateAssumption DEF Init
<1>2. PICK e : e = GenesisEntry
  OBVIOUS
<1>3. e.nTx = TRUE /\ e.data = TRUE /\ e.level = 3 /\ ~Failed(e)
  <2>1. ASSUME NEW n \in Entry, n.failedValid = FALSE, n.failedChild = FALSE,
               NEW f, f = [n EXCEPT !.level = TRANSACTIONS, !.data = TRUE, !.nTx = TRUE]
        PROVE  f.nTx = TRUE /\ f.data = TRUE /\ f.level = 3 /\ ~Failed(f)
    BY <2>1 DEF Entry, TRANSACTIONS, Failed
  <2>2. NewEntry \in Entry /\ NewEntry.failedValid = FALSE /\ NewEntry.failedChild = FALSE
    BY NewEntryType DEF NewEntry
  <2> QED BY <1>2, <2>1, <2>2, Zenon DEF GenesisEntry
<1>4. SoundEntry(Genesis, e)
  BY <1>3, ChainStateAssumption DEF SoundEntry, SCRIPTS, Failed
<1>5. Sound(index) /\ Marked(index)
  BY <1>1, <1>2, <1>3, <1>4 DEF Sound, Marked
<1>6. MarksKept
  BY <1>1, <1>2, <1>3 DEF MarksKept, Failed
<1>7. TargetMarked
  BY <1>1, FreeFields DEF TargetMarked, Invalidating
<1> QED BY <1>1, <1>5, <1>6, <1>7, InitInv DEF MInv, MarksInv, DiskMarksInv

LEMMA MarksInductive == MInv /\ [Next]_vars => MInv'
<1> SUFFICES ASSUME MInv, [Next]_vars PROVE MInv'
  OBVIOUS
<1>1. IInv /\ IInv'
  BY Inductive DEF MInv
<1>2. CASE UNCHANGED vars
  BY <1>1, <1>2 DEF vars, MInv, MarksInv, DiskMarksInv, TargetMarked, MarksKept, Invalidating, Known
<1>3. CASE Crash \/ AssertionFails \/ Shutdown
  BY <1>3, DyingMarks
<1>4. CASE LoadBlockIndexDB
  <2>1. index' = diskIndex /\ diskIndex' = diskIndex /\ job' = Free
    BY <1>4 DEF LoadBlockIndexDB, diskVars
  <2>2. ~Invalidating'
    BY <2>1, FreeFields DEF Invalidating
  <2> QED BY <1>1, <2>1, <2>2 DEF MInv, MarksInv, DiskMarksInv, TargetMarked, MarksKept
<1>5. CASE Next /\ node # "down" /\ node' # "down"
  BY <1>5, RunningMarks
<1>6. ASSUME Next, node = "down" \/ node' = "down"
      PROVE  Crash \/ AssertionFails \/ Shutdown \/ LoadBlockIndexDB \/ UNCHANGED vars
  BY <1>1, <1>6, DownSteps
<1> QED BY <1>2, <1>3, <1>4, <1>5, <1>6

THEOREM MarksInvariant == Spec => []MInv
  BY InitMarks, MarksInductive, PTL DEF Spec
-----------------------------------------------------------------------------
(* "The failed mask cannot be set for blocks without invalid parents": true   *)
(* of a node on which reconsiderblock is never called.  That RPC lifts the    *)
(* mark of an ancestor for the sake of one of its branches only, and the      *)
(* marks derived from it in the other branches stay without a cause.          *)
THEOREM FailedHasInvalidAncestorAlways ==
  ASSUME "reconsider" \notin Features
  PROVE  Spec => []FailedHasInvalidAncestor
<1>1. MInv => FailedHasInvalidAncestor
  <2> SUFFICES ASSUME MInv, LockFree, NEW b \in Known, Failed(index[b]) PROVE Invalid(b)
    BY DEF FailedHasInvalidAncestor
  <2>1. Marked(index) /\ b \in Blocks /\ index[b] # Absent
    BY DEF MInv, MarksInv, LockFree, Known
  <2> QED BY <2>1 DEF Marked, Invalid
<1> QED BY <1>1, MarksInvariant, PTL

(* The assertion of PruneBlockIndexCandidates holds at every start: from      *)
(* whatever the process left on disk, in a flush that was cut short too, the  *)
(* block of the coins becomes a candidate.  invalidateblock is excluded: it   *)
(* marks blocks whose coins are still on disk.                                *)
THEOREM RestartSucceedsAlways ==
  ASSUME "invalidate" \notin Features
  PROVE  Spec => []RestartSucceeds
<1>1. MInv => RestartSucceeds
  <2> SUFFICES ASSUME MInv PROVE diskCoins \in StartCandidates
    BY DEF RestartSucceeds
  <2>1. /\ IndexOK(diskIndex) /\ Scripted(diskIndex, diskCoins) /\ Sound(diskIndex)
        /\ diskCoins \in Blocks
    BY DEF MInv, DiskMarksInv, IInv, DiskInv, TypeOK
  <2>2. ASSUME NEW x \in Chain[diskCoins]
        PROVE  /\ x \in Stored /\ x \in Blocks /\ diskIndex[x].nTx
               /\ x \notin BadBlock \cup BadSpend
    <3>1. x \in Blocks
      BY <2>1, OwnChain
    <3>2. CASE x = Genesis
      <4>1. diskIndex[x] # Absent /\ diskIndex[x].nTx
        BY <2>1, <3>1, <3>2 DEF IndexOK, Sound, SoundEntry
      <4> QED BY <3>1, <3>2, <4>1, ChainStateAssumption DEF Stored
    <3>3. CASE x # Genesis
      <4>1. diskIndex[x].level = SCRIPTS
        BY <2>1, <3>3 DEF Scripted
      <4>2. diskIndex[x] # Absent
        BY <4>1, AbsentLevel DEF SCRIPTS
      <4>3. diskIndex[x].nTx
        BY <2>1, <3>1, <4>1, <4>2 DEF IndexOK, EntryOK, SCRIPTS, TRANSACTIONS
      <4> QED BY <2>1, <3>1, <4>1, <4>2, <4>3 DEF Sound, SoundEntry, Stored
    <3> QED BY <3>2, <3>3
  <2>3. diskCoins \in StoredChainTx
    BY <2>1, <2>2, OwnChain DEF StoredChainTx
  <2>4. IsValid(diskIndex[diskCoins], TRANSACTIONS)
    <3>1. diskIndex[diskCoins] # Absent /\ diskIndex[diskCoins].nTx
      BY <2>1, <2>2, OwnChain DEF Stored
    <3>2. ~Failed(diskIndex[diskCoins])
      BY <2>1, <2>2, <3>1 DEF Sound, SoundEntry, BreaksRules
    <3>3. diskIndex[diskCoins].level >= TRANSACTIONS
      BY <2>1, <3>1 DEF IndexOK, EntryOK
    <3> QED BY <3>2, <3>3 DEF IsValid
  <2>5. ~WorseIn([x \in Blocks |-> 0], diskCoins, diskCoins)
    BY <2>1, ChainStateAssumption DEF WorseIn, WorseBySeq
  <2> QED BY <2>3, <2>4, <2>5 DEF StartCandidates
<1> QED BY <1>1, MarksInvariant, PTL
-----------------------------------------------------------------------------
(* The active chain and marked blocks.  invalidateblock marks blocks of it,   *)
(* and takes them back; other threads and a shutdown may come between.  What  *)
(* follows says that the marked blocks of the active chain are those that are *)
(* just being taken back, or those that cannot be because the undo data of a  *)
(* block above them was pruned.                                              *)
GapAbove(idx, t, c) == \E x \in Chain[t] : c \in Chain[x] /\ ~idx[x].undo
TakenBack(c) == Invalidating /\ job.target \in Chain[c]

(* Between the critical sections' steps coins and chainActive are together:   *)
(* no disk is full in the middle of a flush.                                 *)
Together == Moving \/ coins = tip
ActiveMarks == \A c \in Chain[coins] :
  Failed(index[c]) => TakenBack(c) \/ GapAbove(index, coins, c)
(* A derived mark on disk is in memory too, unless reconsiderblock lifted it. *)
ChildMarksKept == \A b \in Blocks \ dirty :
  diskIndex[b] # Absent /\ diskIndex[b].failedChild => index[b].failedChild
StoredMarks == \A c \in Chain[diskCoins] :
  Failed(diskIndex[c]) => GapAbove(diskIndex, diskCoins, c)
ActiveInv == IF node = "down" THEN StoredMarks ELSE Together /\ ActiveMarks /\ ChildMarksKept

LEMMA ActiveEntries ==
  ASSUME IInv, node # "down"
  PROVE  /\ coins \in Blocks /\ tip \in Blocks /\ index \in Index /\ job \in JobType
         /\ IndexOK(index) /\ JobInv
         /\ \A c \in Chain[coins] : c \in Blocks /\ index[c] \in Entry /\ EntryOK(index[c])
<1>1. /\ coins \in Blocks /\ tip \in Blocks /\ index \in Index /\ job \in JobType
      /\ IndexOK(index) /\ JobInv /\ Scripted(index, coins)
  BY DEF IInv, UpInv, JobInv, IndexInv, IndexOK, TypeOK
<1>2. ASSUME NEW c \in Chain[coins]
      PROVE  c \in Blocks /\ index[c] \in Entry /\ EntryOK(index[c])
  <2>1. c \in Blocks
    BY <1>1, OwnChain
  <2>2. index[c] # Absent
    BY <1>1, <2>1, IndexValue DEF Scripted, IndexOK, SCRIPTS
  <2> QED BY <1>1, <2>1, <2>2, IndexValue DEF IndexOK
<1> QED BY <1>1, <1>2

LEMMA FreeIsNotInvalidating ==
  ASSUME job = Free
  PROVE  ~Invalidating /\ ~Moving
BY FreeFields DEF Invalidating, Moving

(* A step that leaves the coins alone, adds no mark to their chain, gives     *)
(* back no undo data, and goes on with what it takes back.                   *)
LEMMA MarksStay ==
  ASSUME ActiveMarks, coins' = coins,
         \A c \in Chain[coins] : Failed(index'[c]) => Failed(index[c]),
         \A c \in Chain[coins] : index'[c].undo => index[c].undo,
         Invalidating => Invalidating' /\ job'.target = job.target
  PROVE  ActiveMarks'
<1> SUFFICES ASSUME NEW c \in Chain[coins], Failed(index'[c])
             PROVE  \/ Invalidating' /\ job'.target \in Chain[c]
                    \/ \E x \in Chain[coins] : c \in Chain[x] /\ ~index'[x].undo
  BY DEF ActiveMarks, TakenBack, GapAbove
<1> QED BY DEF ActiveMarks, TakenBack, GapAbove

(* AcceptBlockHeader and AcceptBlock: a block of the active chain is known,   *)
(* and was not refused by AcceptBlock.                                       *)
LEMMA HeaderActive ==
  ASSUME IInv, ActiveMarks, AcceptBlockHeader
  PROVE  ActiveMarks'
<1>1. PICK b \in Blocks \ Known : /\ Enter /\ index' = [index EXCEPT ![b] = NewEntry]
                                  /\ UNCHANGED <<coins, job>>
  BY DEF AcceptBlockHeader
<1>2. ASSUME NEW c \in Chain[coins] PROVE index'[c] = index[c]
  <2>1. c \in Blocks /\ index[c] # Absent /\ index \in Index
    BY <1>1, ActiveEntries, EntryFields DEF Enter
  <2> QED BY <1>1, <2>1 DEF Known, Index
<1>3. ~Invalidating
  BY <1>1, FreeIsNotInvalidating DEF Enter
<1> QED BY <1>1, <1>2, <1>3, MarksStay

LEMMA AcceptBlockActive ==
  ASSUME IInv, Sound(index), ActiveMarks, AcceptBlock
  PROVE  ActiveMarks'
<1>1. PICK b, e :
        /\ b \in Blocks \ {Genesis}
        /\ e = (IF b \in Known THEN index[b] ELSE NewEntry)
        /\ Enter /\ UNCHANGED <<coins, job>>
        /\ \/ /\ b \in BadBlock
              /\ index' = [index EXCEPT ![b] = [e EXCEPT !.failedValid = TRUE]]
           \/ b \notin BadBlock /\ ReceivedBlockTransactions(b, e)
  BY DEF AcceptBlock
<1>2. node # "down" /\ ~Invalidating
  BY <1>1, FreeIsNotInvalidating DEF Enter
<1>3. IndexInv /\ coins \in Blocks /\ index \in Index
  BY <1>2, ActiveEntries DEF IInv, UpInv
<1>4. ASSUME NEW c \in Chain[coins]
      PROVE  (Failed(index'[c]) => Failed(index[c])) /\ (index'[c].undo => index[c].undo)
  <2>1. c \in Blocks /\ index[c] \in Entry /\ EntryOK(index[c]) /\ index[c] # Absent
    BY <1>2, ActiveEntries, EntryFields
  <2>2. CASE c # b
    <3>1. \A r : index' = [index EXCEPT ![b] = r] => index'[c] = index[c]
      BY <1>3, <2>1, <2>2 DEF Index
    <3>2. index'[c] = index[c]
      BY <1>1, <3>1 DEF ReceivedBlockTransactions
    <3> QED BY <3>2
  <2>3. CASE c = b
    <3>1. e = index[c]
      BY <1>1, <2>1, <2>3 DEF Known
    <3>2. index[c].level = SCRIPTS
      BY <1>1, <1>3, <2>3 DEF IndexInv, Scripted
    <3>3. c \notin BadBlock
      BY <2>1, <3>2 DEF EntryOK, SCRIPTS, TRANSACTIONS, Sound, SoundEntry
    <3>4. PICK r : r = RaiseValidity([e EXCEPT !.nTx = TRUE, !.data = TRUE], TRANSACTIONS)
      OBVIOUS
    <3>5. index' = [index EXCEPT ![b] = r]
      BY <1>1, <2>3, <3>3, <3>4, Zenon DEF ReceivedBlockTransactions
    <3>6. /\ r.undo = e.undo
          /\ r.failedValid = e.failedValid /\ r.failedChild = e.failedChild
      BY <2>1, <3>1, <3>4, ReceivedFields
    <3>7. index'[c] = r
      BY <1>3, <2>1, <2>3, <3>5 DEF Index
    <3> QED BY <3>1, <3>6, <3>7 DEF Failed
  <2> QED BY <2>2, <2>3
<1> QED BY <1>1, <1>2, <1>4, MarksStay

(* FindMostWorkChain marks blocks that are not in the active chain.          *)
LEMMA FindMostWorkChainActive ==
  ASSUME IInv, Together, ActiveMarks, FindMostWorkChain
  PROVE  ActiveMarks'
<1>1. /\ job.phase = "find" /\ UNCHANGED coins
      /\ \/ UNCHANGED index
         \/ \E b \in candidates, m \in Blocks :
              /\ IsFirstUnusable(m, b)
              /\ LET above == Chain[b] \ Chain[m] IN
                 IF FailedChain(m)
                 THEN index' = [x \in Blocks |-> IF x \in above
                                  THEN [index[x] EXCEPT !.failedChild = TRUE] ELSE index[x]]
                 ELSE UNCHANGED index
  BY Zenon DEF FindMostWorkChain
<1>2. /\ node # "down" /\ coins = tip /\ tip \in Blocks /\ ~Invalidating
      /\ candidates \subseteq Blocks
  BY <1>1, InJob DEF Together, JobInv, Moving, Invalidating, TypeOK
<1>3. CASE UNCHANGED index
  BY <1>1, <1>2, <1>3, MarksStay
<1>4. ASSUME NEW b \in candidates, NEW m \in Blocks, m \in Chain[b], m \notin Chain[tip],
             index' = [x \in Blocks |-> IF x \in Chain[b] \ Chain[m]
                         THEN [index[x] EXCEPT !.failedChild = TRUE] ELSE index[x]]
      PROVE  ActiveMarks'
  <2>1. ASSUME NEW c \in Chain[coins] PROVE index'[c] = index[c]
    <3>1. c \in Blocks /\ b \in Blocks
      BY <1>2, OwnChain
    <3>2. c \notin Chain[b] \ Chain[m]
      <4>1. SUFFICES ASSUME c \in Chain[b], c \notin Chain[m] PROVE FALSE
        OBVIOUS
      <4>2. m \in Chain[c]
        BY <1>4, <3>1, <4>1, ChainsAreLines
      <4> QED BY <1>2, <1>4, <4>2, ChainOfAncestor
    <3> QED BY <1>4, <3>1, <3>2
  <2> QED BY <1>1, <1>2, <2>1, MarksStay
<1>5. \/ UNCHANGED index
      \/ \E b \in candidates, m \in Blocks :
           /\ m \in Chain[b] /\ m \notin Chain[tip]
           /\ index' = [x \in Blocks |-> IF x \in Chain[b] \ Chain[m]
                          THEN [index[x] EXCEPT !.failedChild = TRUE] ELSE index[x]]
  BY <1>1, Zenon DEF IsFirstUnusable, OffChain
<1> QED BY <1>3, <1>4, <1>5

(* A block that was disconnected had its undo data, so a gap is below it.    *)
LEMMA GapBelow ==
  ASSUME IInv, node # "down", coins = tip, tip # Genesis, index[tip].undo,
         NEW c \in Chain[Parent[tip]], GapAbove(index, tip, c)
  PROVE  GapAbove(index, Parent[tip], c)
<1>1. tip \in Blocks
  BY ActiveEntries
<1> QED BY <1>1, ParentOf DEF GapAbove

LEMMA StepDisconnectActive ==
  ASSUME IInv, Together, ActiveMarks, StepDisconnect
  PROVE  ActiveMarks' /\ Together'
<1>1. job.phase = "step" /\ tip \notin Chain[job.target] /\ DisconnectTip("disconnect")
      /\ UNCHANGED <<index, tip>>
  BY DEF StepDisconnect, memVars
<1>2. /\ node # "down" /\ coins = tip /\ tip \in Blocks /\ tip # Genesis /\ ~Invalidating
      /\ job \in JobType
  BY <1>1, InStep, GenesisInChain DEF Together, Moving, Invalidating, JobInv
<1>3. CASE index[tip].undo /\ coins' = Parent[tip]
           /\ job' = [job EXCEPT !.phase = "update", !.move = "disconnect"]
  <2>1. ASSUME NEW c \in Chain[Parent[tip]], Failed(index'[c])
        PROVE  \E x \in Chain[Parent[tip]] : c \in Chain[x] /\ ~index'[x].undo
    <3>1. c \in Chain[coins] /\ Failed(index[c])
      BY <1>1, <1>2, <2>1, ParentOf
    <3>2. GapAbove(index, tip, c)
      BY <1>2, <3>1 DEF ActiveMarks, TakenBack
    <3> QED BY <1>1, <1>2, <1>3, <3>2, GapBelow DEF GapAbove
  <2>2. ActiveMarks'
    BY <1>3, <2>1 DEF ActiveMarks, GapAbove
  <2>3. Together'
    BY <1>2, <1>3 DEF Together, Moving, JobType
  <2> QED BY <2>2, <2>3
<1>4. CASE UNCHANGED coins
  <2>1. ActiveMarks'
    BY <1>1, <1>2, <1>4, MarksStay
  <2> QED BY <1>1, <1>2, <1>4, <2>1 DEF Together
<1> QED BY <1>1, <1>3, <1>4 DEF DisconnectTip

(* ConnectTip: no block on the way to the target is marked.                  *)
LEMMA ConnectTipActive ==
  ASSUME IInv, Together, ActiveMarks, ConnectTip
  PROVE  ActiveMarks'
<1>1. PICK b \in Blocks :
        /\ job.phase = "step" /\ NextBlock(b) /\ coins' = b
        /\ IF index[b].undo /\ IsValid(index[b], SCRIPTS)
           THEN UNCHANGED <<index, dirty>>
           ELSE index' = [index EXCEPT ![b] = RaiseValidity([@ EXCEPT !.undo = TRUE], SCRIPTS)]
  BY DEF ConnectTip
<1>2. /\ node # "down" /\ coins = tip /\ tip \in Blocks /\ ~Invalidating /\ TargetInv /\ Stepping
      /\ index \in Index
  BY <1>1, InStep DEF Together, Moving, Invalidating, JobInv, IndexInv, IndexOK
<1>3. index[b] \in Entry /\ ~Failed(index[b])
  <2>1. index[b] # Absent /\ ~Failed(index[b])
    BY <1>1, <1>2 DEF NextBlock, TargetInv
  <2> QED BY <1>2, <2>1, IndexValue
<1>4. b # Genesis /\ Parent[b] = tip
  BY <1>1, <1>2, GenesisInChain DEF NextBlock, OffChain
<1>5. ~Failed(index'[b]) /\ \A c \in Chain[tip] : index'[c] = index[c]
  <2>1. CASE UNCHANGED index
    BY <1>3, <2>1
  <2>2. CASE index' = [index EXCEPT ![b] = RaiseValidity([@ EXCEPT !.undo = TRUE], SCRIPTS)]
    <3>1. PICK r : r = RaiseValidity([index[b] EXCEPT !.undo = TRUE], SCRIPTS)
      OBVIOUS
    <3>2. r.failedValid = index[b].failedValid /\ r.failedChild = index[b].failedChild
      BY <1>3, <3>1, ConnectedFields
    <3>3. index' = [index EXCEPT ![b] = r]
      BY <2>2, <3>1, Zenon
    <3>4. index'[b] = r /\ \A c \in Blocks \ {b} : index'[c] = index[c]
      BY <1>2, <3>3 DEF Index
    <3>5. \A c \in Chain[tip] : c \in Blocks \ {b}
      BY <1>2, <1>4, ParentOf, OwnChain
    <3> QED BY <1>3, <3>2, <3>4, <3>5 DEF Failed
  <2> QED BY <1>1, <2>1, <2>2
<1>6. ASSUME NEW c \in Chain[b], Failed(index'[c])
      PROVE  \E x \in Chain[b] : c \in Chain[x] /\ ~index'[x].undo
  <2>1. Chain[b] = {b} \cup Chain[tip]
    BY <1>4, ParentOf
  <2>2. c \in Chain[coins] /\ Failed(index[c])
    BY <1>2, <1>5, <1>6, <2>1
  <2>3. PICK x \in Chain[tip] : c \in Chain[x] /\ ~index[x].undo
    BY <1>2, <2>2 DEF ActiveMarks, TakenBack, GapAbove
  <2> QED BY <1>5, <2>1, <2>3
<1> QED BY <1>1, <1>6 DEF ActiveMarks, GapAbove

LEMMA InvalidBlockFoundActive ==
  ASSUME IInv, Together, ActiveMarks, InvalidBlockFound
  PROVE  ActiveMarks'
<1>1. PICK b \in Blocks :
        /\ job.phase = "step" /\ NextBlock(b) /\ UNCHANGED coins
        /\ index' = [index EXCEPT ![b].failedValid = TRUE]
  BY DEF InvalidBlockFound
<1>2. /\ node # "down" /\ coins = tip /\ ~Invalidating /\ tip \in Blocks /\ index \in Index
  BY <1>1, InStep DEF Together, Moving, Invalidating, JobInv, IndexInv, IndexOK
<1>3. \A c \in Chain[coins] : index'[c] = index[c]
  BY <1>1, <1>2, OwnChain DEF NextBlock, OffChain, Index
<1> QED BY <1>1, <1>2, <1>3, MarksStay

(* invalidateblock: the block it was called for, and what is above it in the  *)
(* active chain, is being taken back; a tip that cannot be is a gap itself.  *)
LEMMA InvalidateBlockActive ==
  ASSUME IInv, Together, ActiveMarks, InvalidateBlock
  PROVE  ActiveMarks' /\ Together'
<1>1. PICK b \in Known \ {Genesis} :
        /\ Enter /\ UNCHANGED <<tip, coins>>
        /\ index' = [index EXCEPT ![b].failedValid = TRUE]
        /\ job' = [Free EXCEPT !.phase = "invalidate", !.target = b]
  BY DEF InvalidateBlock
<1>2. node # "down" /\ ~Invalidating /\ coins = tip
  BY <1>1, FreeIsNotInvalidating DEF Enter, Together
<1>3. b \in Blocks /\ index \in Index /\ index[b] \in Entry /\ EntryOK(index[b])
  BY <1>1, <1>2, ActiveEntries, IndexValue DEF Known, IndexOK
<1>4. job'.phase = "invalidate" /\ job'.target = b
  BY <1>1, FreeFields DEF JobType
<1>5. PICK r : r = [index[b] EXCEPT !.failedValid = TRUE]
  OBVIOUS
<1>6. r.undo = index[b].undo
  BY <1>3, <1>5, InvalidEntry
<1>7. index' = [index EXCEPT ![b] = r]
  BY <1>1, <1>5, Zenon
<1>8. \A c \in Blocks : (c # b => index'[c] = index[c]) /\ (c = b => index'[c] = r)
  BY <1>3, <1>7 DEF Index
<1>9. ASSUME NEW c \in Chain[coins], Failed(index'[c])
      PROVE  \/ Invalidating' /\ job'.target \in Chain[c]
             \/ \E x \in Chain[coins] : c \in Chain[x] /\ ~index'[x].undo
  <2>1. c \in Blocks
    BY <1>2, ActiveEntries
  <2>2. CASE c = b
    BY <1>4, <2>1, <2>2, OwnChain DEF Invalidating
  <2>3. CASE c # b
    <3>1. PICK x \in Chain[coins] : c \in Chain[x] /\ ~index[x].undo
      BY <1>2, <1>8, <1>9, <2>1, <2>3 DEF ActiveMarks, TakenBack, GapAbove
    <3>2. x \in Blocks
      BY <1>2, ActiveEntries
    <3> QED BY <1>6, <1>8, <3>1, <3>2
  <2> QED BY <2>2, <2>3
<1>10. ActiveMarks'
  BY <1>1, <1>9 DEF ActiveMarks, TakenBack, GapAbove
<1> QED BY <1>1, <1>2, <1>10 DEF Together

LEMMA InvalidateTipActive ==
  ASSUME IInv, Together, ActiveMarks, InvalidateTip
  PROVE  ActiveMarks' /\ Together'
<1>1. /\ job.phase = "invalidate" /\ job.target \in Chain[tip] /\ UNCHANGED tip
      /\ index' = [index EXCEPT ![tip].failedChild = TRUE]
      /\ DisconnectTip("invalidate")
  BY DEF InvalidateTip
<1>2. /\ node # "down" /\ coins = tip /\ tip \in Blocks /\ Invalidating
      /\ job.target \in Blocks \ {Genesis} /\ job \in JobType
  BY <1>1, InJob DEF Together, JobInv, Moving, Invalidating
<1>3. tip # Genesis /\ index \in Index /\ index[tip] \in Entry /\ EntryOK(index[tip])
  BY <1>1, <1>2, ActiveEntries, OwnChain, ChainStateAssumption
<1>4. PICK r : r = [index[tip] EXCEPT !.failedChild = TRUE]
  OBVIOUS
<1>5. r.undo = index[tip].undo
  BY <1>3, <1>4, InvalidChildEntry
<1>6. index' = [index EXCEPT ![tip] = r]
  BY <1>1, <1>4, Zenon
<1>7. index'[tip] = r /\ \A c \in Blocks \ {tip} : index'[c] = index[c]
  BY <1>2, <1>3, <1>6 DEF Index
<1>8. CASE index[tip].undo /\ coins' = Parent[tip]
           /\ job' = [job EXCEPT !.phase = "update", !.move = "invalidate"]
  <2>1. job'.target = job.target /\ job'.move = "invalidate"
    BY <1>2, <1>8 DEF JobType
  <2>2. /\ Chain[Parent[tip]] \subseteq Blocks \ {tip} 
        /\ Chain[tip] = {tip} \cup Chain[Parent[tip]]
    BY <1>2, <1>3, ParentOf, OwnChain
  <2>3. ASSUME NEW c \in Chain[Parent[tip]], Failed(index'[c])
        PROVE  \/ Invalidating' /\ job'.target \in Chain[c]
               \/ \E x \in Chain[Parent[tip]] : c \in Chain[x] /\ ~index'[x].undo
    <3>1. c \in Chain[coins] /\ Failed(index[c])
      BY <1>2, <1>7, <2>2, <2>3
    <3>2. CASE TakenBack(c)
      BY <2>1, <3>2 DEF TakenBack, Invalidating
    <3>3. CASE GapAbove(index, tip, c)
      <4>1. PICK x \in Chain[Parent[tip]] : c \in Chain[x] /\ ~index[x].undo
        BY <1>2, <1>3, <1>8, <3>3, GapBelow DEF GapAbove
      <4> QED BY <1>7, <2>2, <4>1
    <3> QED BY <1>2, <3>1, <3>2, <3>3 DEF ActiveMarks
  <2>4. ActiveMarks'
    BY <1>8, <2>3 DEF ActiveMarks, TakenBack, GapAbove
  <2> QED BY <2>1, <2>4 DEF Together, Moving
<1>9. CASE ~index[tip].undo /\ UNCHANGED coins
  <2>1. tip \in Chain[coins] /\ ~index'[tip].undo
    BY <1>2, <1>5, <1>7, <1>9, OwnChain
  <2>2. ASSUME NEW c \in Chain[coins]
        PROVE  \E x \in Chain[coins] : c \in Chain[x] /\ ~index'[x].undo
    BY <1>2, <2>1
  <2>3. ActiveMarks'
    BY <1>9, <2>2 DEF ActiveMarks, GapAbove
  <2> QED BY <1>1, <1>2, <1>9, <2>3 DEF Together
<1>10. index[tip].undo => index[tip].data
  BY <1>3 DEF EntryOK
<1> QED BY <1>1, <1>8, <1>9, <1>10 DEF DisconnectTip

LEMMA InvalidateDoneActive ==
  ASSUME IInv, Together, ActiveMarks, InvalidateDone
  PROVE  ActiveMarks' /\ Together'
<1>1. /\ job.phase = "invalidate" /\ job.target \notin Chain[tip]
      /\ UNCHANGED <<index, tip, coins>>
  BY DEF InvalidateDone
<1>2. coins = tip /\ tip \in Blocks
  BY <1>1, InJob DEF Together, JobInv
<1>3. ASSUME NEW c \in Chain[coins], Failed(index[c]) PROVE GapAbove(index, coins, c)
  <2>1. job.target \notin Chain[c]
    BY <1>1, <1>2, ChainOfAncestor
  <2> QED BY <1>3, <2>1 DEF ActiveMarks, TakenBack
<1>4. ActiveMarks'
  BY <1>1, <1>3 DEF ActiveMarks, GapAbove
<1> QED BY <1>1, <1>2, <1>4 DEF Together

LEMMA ReconsiderBlockActive ==
  ASSUME IInv, ActiveMarks, ReconsiderBlock
  PROVE  ActiveMarks'
<1>1. PICK b \in Known :
        LET below == {x \in Known : b \in Chain[x] /\ ~IsValid(index[x], TRANSACTIONS)}
            above == {x \in Chain[b] : Failed(index[x])}
        IN
        /\ Enter /\ UNCHANGED <<coins, job>>
        /\ index' = [x \in Blocks |-> IF x \in below \cup above
                       THEN [index[x] EXCEPT !.failedValid = FALSE, !.failedChild = FALSE]
                       ELSE index[x]]
  BY Zenon DEF ReconsiderBlock
<1>2. PICK M : /\ Enter /\ UNCHANGED <<coins, job>>
               /\ index' = [x \in Blocks |-> IF x \in M
                       THEN [index[x] EXCEPT !.failedValid = FALSE, !.failedChild = FALSE]
                       ELSE index[x]]
  BY <1>1, Zenon
<1>3. ASSUME NEW c \in Chain[coins]
      PROVE  (Failed(index'[c]) => Failed(index[c])) /\ (index'[c].undo => index[c].undo)
  <2>1. c \in Blocks /\ index[c] \in Entry
    BY <1>2, ActiveEntries DEF Enter
  <2>2. CASE c \notin M
    BY <1>2, <2>1, <2>2
  <2>3. CASE c \in M
    <3>1. index'[c] = [index[c] EXCEPT !.failedValid = FALSE, !.failedChild = FALSE]
      BY <1>2, <2>1, <2>3
    <3> QED BY <2>1, <3>1, ClearedFields DEF Failed
  <2> QED BY <2>2, <2>3
<1>4. ~Invalidating
  BY <1>2, FreeIsNotInvalidating DEF Enter
<1> QED BY <1>2, <1>3, <1>4, MarksStay

(* UpdateTip and the two halves of a flush go on with the job they found.     *)
LEMMA UpdateTipActive ==
  ASSUME IInv, ActiveMarks, UpdateTip
  PROVE  ActiveMarks' /\ Together'
<1>1. /\ job.phase = "update" /\ tip' = coins /\ UNCHANGED <<index, coins>>
      /\ job.move # "connect" =>
           job' = [job EXCEPT !.phase = IF job.move = "disconnect" THEN "step" ELSE "invalidate",
                              !.move = "none"]
  BY DEF UpdateTip
<1>2. job \in JobType
  BY <1>1, InJob
<1>3. ASSUME Invalidating PROVE Invalidating' /\ job'.target = job.target
  <2>1. job.move = "invalidate"
    BY <1>1, <1>3 DEF Invalidating
  <2>2. job' = [job EXCEPT !.phase = "invalidate", !.move = "none"]
    BY <1>1, <2>1
  <2> QED BY <1>2, <2>2 DEF Invalidating, JobType
<1>4. ActiveMarks'
  BY <1>1, <1>3, MarksStay
<1> QED BY <1>1, <1>4 DEF Together

LEMMA FlushActive ==
  ASSUME IInv, Together, ActiveMarks, FlushStateToDisk, node # "down"
  PROVE  ActiveMarks' /\ Together'
<1>1. PICK S \in SUBSET Prunable, full \in BOOLEAN :
        /\ job = Free \/ job.phase = "update"
        /\ index' = PruneOneBlockFile(S) /\ UNCHANGED <<tip, coins>>
        /\ job' = IF full THEN [job EXCEPT !.phase = "flush"] ELSE job
  BY DEF FlushStateToDisk
<1>2. job'.move = job.move /\ job'.target = job.target
  BY <1>1, ActiveEntries DEF JobType
<1>3. ASSUME Invalidating PROVE Invalidating'
  <2>1. job.move = "invalidate"
    BY <1>1, <1>3, FreeFields DEF Invalidating
  <2> QED BY <1>2, <2>1 DEF Invalidating
<1>4. ASSUME NEW c \in Chain[coins]
      PROVE  (Failed(index'[c]) => Failed(index[c])) /\ (index'[c].undo => index[c].undo)
  <2>1. c \in Blocks /\ index[c] \in Entry
    BY ActiveEntries
  <2>2. CASE c \notin S
    BY <1>1, <2>1, <2>2 DEF PruneOneBlockFile
  <2>3. CASE c \in S
    <3>1. index'[c] = [index[c] EXCEPT !.data = FALSE, !.undo = FALSE]
      BY <1>1, <2>1, <2>3 DEF PruneOneBlockFile
    <3> QED BY <2>1, <3>1, PrunedFields DEF Failed
  <2> QED BY <2>2, <2>3
<1>5. ActiveMarks'
  BY <1>1, <1>2, <1>3, <1>4, MarksStay
<1> QED BY <1>1, <1>2, <1>5 DEF Together, Moving

LEMMA FlushCoinsActive ==
  ASSUME IInv, Together, ActiveMarks, FlushCoins
  PROVE  ActiveMarks' /\ Together'
<1>1. /\ job.phase = "flush" /\ UNCHANGED <<index, tip, coins>>
      /\ job' = IF job.move = "none" THEN Free ELSE [job EXCEPT !.phase = "update"]
  BY DEF FlushCoins, memVars
<1>2. job \in JobType /\ node # "down"
  BY <1>1, InJob
<1>3. CASE job.move = "none"
  <2>1. job' = Free /\ ~Invalidating /\ coins = tip
    BY <1>1, <1>3 DEF Invalidating, Together, Moving
  <2>2. ActiveMarks'
    BY <1>1, <2>1, MarksStay
  <2> QED BY <1>1, <2>1, <2>2 DEF Together
<1>4. CASE job.move # "none"
  <2>1. job'.move = job.move /\ job'.target = job.target
    BY <1>1, <1>2, <1>4 DEF JobType
  <2>2. ActiveMarks'
    BY <1>1, <2>1, MarksStay DEF Invalidating
  <2> QED BY <1>4, <2>1, <2>2 DEF Together, Moving
<1> QED BY <1>3, <1>4

(* Every step of a running node, if no disk is full and it does not die.     *)
LEMMA RunningActive ==
  ASSUME MInv, Next, node # "down", node' # "down", "diskFull" \notin Features,
         Together, ActiveMarks
  PROVE  Together' /\ ActiveMarks'
<1>1. IInv /\ Sound(index) /\ JobInv /\ job \in JobType
  BY ActiveEntries DEF MInv, MarksInv
<1>2. ASSUME job = Free \/ job.phase \in {"find", "step"}
      PROVE  coins = tip /\ ~Invalidating
  BY <1>1, <1>2, FreeFields DEF Together, JobInv, Moving, Invalidating
<1>3. CASE AcceptBlockHeader \/ AcceptBlock \/ AcceptBlockAgain
  <2>1. job = Free /\ UNCHANGED <<tip, coins>>
    BY <1>3 DEF AcceptBlockHeader, AcceptBlock, AcceptBlockAgain, Enter
  <2>2. CASE AcceptBlockAgain
    <3>1. UNCHANGED index
      BY <2>2 DEF AcceptBlockAgain, memVars
    <3> QED BY <1>2, <2>1, <3>1, MarksStay DEF Together
  <2> QED BY <1>1, <1>2, <1>3, <2>1, <2>2, HeaderActive, AcceptBlockActive DEF Together
<1>4. CASE EnterActivateBestChain \/ FailedToRead
  <2>1. UNCHANGED <<index, tip, coins>> /\ (job = Free \/ job.phase \in {"find", "step"})
    BY <1>4 DEF EnterActivateBestChain, FailedToRead, Enter, memVars
  <2> QED BY <1>2, <2>1, MarksStay DEF Together
<1>5. CASE FindMostWorkChain \/ InvalidBlockFound
  <2>1. UNCHANGED <<tip, coins>> /\ job.phase \in {"find", "step"}
    BY <1>5 DEF FindMostWorkChain, InvalidBlockFound
  <2> QED BY <1>1, <1>2, <1>5, <2>1, FindMostWorkChainActive, InvalidBlockFoundActive DEF Together
<1>6. CASE ConnectTip
  <2>1. job' = [job EXCEPT !.phase = "update", !.move = "connect"]
    BY <1>6 DEF ConnectTip
  <2>2. job'.move = "connect"
    BY <1>1, <2>1 DEF JobType
  <2> QED BY <1>1, <1>6, <2>2, ConnectTipActive DEF Together, Moving
<1>7. CASE StepDisconnect \/ UpdateTip
  BY <1>1, <1>7, StepDisconnectActive, UpdateTipActive
<1>8. CASE InvalidateBlock \/ InvalidateTip \/ InvalidateDone
  BY <1>1, <1>8, InvalidateBlockActive, InvalidateTipActive, InvalidateDoneActive
<1>9. CASE ReconsiderBlock
  <2>1. job = Free /\ UNCHANGED <<tip, coins>>
    BY <1>9 DEF ReconsiderBlock, Enter
  <2> QED BY <1>1, <1>2, <1>9, <2>1, ReconsiderBlockActive DEF Together
<1>10. CASE FlushStateToDisk \/ FlushCoins
  BY <1>1, <1>10, FlushActive, FlushCoinsActive
<1>11. ~(NoSpaceForIndex \/ CoinsNotFlushed)
  BY DEF NoSpaceForIndex, CoinsNotFlushed
<1>12. ~(AssertionFails \/ Crash \/ Shutdown \/ LoadBlockIndexDB \/ StartFails)
  BY DEF AssertionFails, Crash, Shutdown, LoadBlockIndexDB, StartFails, Stop
<1> QED BY <1>3, <1>4, <1>5, <1>6, <1>7, <1>8, <1>9, <1>10, <1>11, <1>12
        DEF Next, Activation, Rpc

(* Who lifts a mark has the entry written.                                   *)
LEMMA ChildMarksStep ==
  ASSUME MInv, Next, node # "down", node' # "down", ChildMarksKept
  PROVE  ChildMarksKept'
<1>1. IInv /\ TargetMarked /\ IndexOK(index) /\ IndexOK(diskIndex) /\ Kept(index, diskIndex)
  BY DEF MInv, MarksInv, IInv, UpInv, IndexInv, DiskInv
<1>2. Changed
  BY <1>1, EntriesChange
<1>3. CASE FlushStateToDisk
  <2>1. PICK S \in SUBSET Prunable :
          /\ index' = PruneOneBlockFile(S)
          /\ diskIndex' = WriteBatchSync(PruneOneBlockFile(S), S)
    BY <1>3 DEF FlushStateToDisk
  <2>2. ASSUME NEW b \in Blocks, diskIndex'[b].failedChild, diskIndex'[b] # Absent
        PROVE  index'[b].failedChild
    <3>1. CASE b \in dirty \cup S
      BY <2>1, <2>2, <3>1 DEF WriteBatchSync
    <3>2. CASE b \notin dirty \cup S
      <4>1. diskIndex'[b] = diskIndex[b] /\ index'[b] = index[b]
        BY <2>1, <3>2 DEF WriteBatchSync, PruneOneBlockFile
      <4> QED BY <2>2, <3>2, <4>1 DEF ChildMarksKept
    <3> QED BY <3>1, <3>2
  <2> QED BY <2>2 DEF ChildMarksKept
<1>4. CASE ReconsiderBlock
  <2>1. PICK b \in Known :
          LET below == {x \in Known : b \in Chain[x] /\ ~IsValid(index[x], TRANSACTIONS)}
              above == {x \in Chain[b] : Failed(index[x])}
          IN
          /\ UNCHANGED diskIndex
          /\ dirty' = dirty \cup below \cup above
          /\ index' = [x \in Blocks |-> IF x \in below \cup above
                         THEN [index[x] EXCEPT !.failedValid = FALSE, !.failedChild = FALSE]
                         ELSE index[x]]
    BY <1>4, Zenon DEF ReconsiderBlock, diskVars
  <2>2. PICK below, above :
          /\ UNCHANGED diskIndex
          /\ dirty' = dirty \cup below \cup above
          /\ index' = [x \in Blocks |-> IF x \in below \cup above
                         THEN [index[x] EXCEPT !.failedValid = FALSE, !.failedChild = FALSE]
                         ELSE index[x]]
    BY <2>1, Zenon
  <2>3. \A x \in Blocks \ dirty' : x \notin dirty /\ index'[x] = index[x]
    BY <2>2
  <2> QED BY <2>2, <2>3 DEF ChildMarksKept
<1>5. CASE ~FlushStateToDisk /\ ~ReconsiderBlock
  <2>1. UNCHANGED diskIndex /\ dirty \subseteq dirty'
    BY <1>5 DEF Next, Activation, Rpc, AcceptBlockHeader, AcceptBlock, AcceptBlockAgain,
       ReceivedBlockTransactions, EnterActivateBestChain, FindMostWorkChain, StepDisconnect,
       ConnectTip, InvalidBlockFound, FailedToRead, UpdateTip, InvalidateBlock, InvalidateTip,
       InvalidateDone, FlushCoins, NoSpaceForIndex, CoinsNotFlushed,
       AssertionFails, Crash, Shutdown, LoadBlockIndexDB, StartFails, Stop, memVars, diskVars,
       vars
  <2>2. ASSUME NEW b \in Blocks \ dirty', diskIndex[b] # Absent, diskIndex[b].failedChild
        PROVE  index'[b].failedChild
    <3>1. index[b] # Absent /\ index[b].failedChild
      BY <1>1, <2>1, <2>2 DEF ChildMarksKept, Kept
    <3> QED BY <1>2, <1>5, <3>1 DEF Changed, ChangedTo, Before
  <2> QED BY <2>1, <2>2 DEF ChildMarksKept
<1> QED BY <1>3, <1>4, <1>5

(* The flush of Shutdown writes the index and the coins of one moment.       *)
LEMMA ShutdownActive ==
  ASSUME IInv, Together, ActiveMarks, ChildMarksKept, Shutdown
  PROVE  StoredMarks'
<1>1. /\ node # "down" /\ job = Free /\ diskCoins' = coins
      /\ diskIndex' = [b \in Blocks |-> IF b \in dirty THEN index[b] ELSE diskIndex[b]]
  BY DEF Shutdown, Enter, WriteBatchSync
<1>2. /\ IndexOK(index) /\ IndexOK(diskIndex) /\ Copied(index, diskIndex, dirty)
      /\ Kept(index, diskIndex)
  BY <1>1 DEF IInv, UpInv, IndexInv, DiskInv
<1>3. IndexOK(diskIndex') /\ Copied(index, diskIndex', {})
  BY <1>1, <1>2, BatchWritten
<1>4. ASSUME NEW c \in Chain[coins]
      PROVE  /\ diskIndex'[c].undo = index[c].undo
             /\ Failed(diskIndex'[c]) => Failed(index[c])
  <2>1. c \in Blocks /\ index[c] \in Entry /\ index[c] # Absent
    BY <1>1, ActiveEntries, EntryFields
  <2>2. SameEntry(index[c], diskIndex'[c])
    BY <1>3, <2>1 DEF Copied
  <2>3. diskIndex'[c] \in Entry /\ diskIndex'[c] # Absent
    BY <1>3, <2>1, <2>2, IndexValue DEF SameEntry, IndexOK
  <2>4. /\ diskIndex'[c].undo = index[c].undo
        /\ diskIndex'[c].failedValid = index[c].failedValid
    BY <2>1, <2>2, <2>3, SameFields
  <2>5. diskIndex'[c] = index[c] \/ (c \notin dirty /\ diskIndex'[c] = diskIndex[c])
    BY <1>1, <2>1
  <2>6. diskIndex'[c].failedChild => index[c].failedChild
    BY <2>1, <2>3, <2>5 DEF ChildMarksKept
  <2> QED BY <2>4, <2>6 DEF Failed
<1>5. ASSUME NEW c \in Chain[coins], Failed(diskIndex'[c])
      PROVE  \E x \in Chain[coins] : c \in Chain[x] /\ ~diskIndex'[x].undo
  <2>1. ~Invalidating
    BY <1>1, FreeIsNotInvalidating
  <2>2. PICK x \in Chain[coins] : c \in Chain[x] /\ ~index[x].undo
    BY <1>4, <1>5, <2>1 DEF ActiveMarks, TakenBack, GapAbove
  <2> QED BY <1>4, <2>2
<1> QED BY <1>1, <1>5 DEF StoredMarks, GapAbove

LEMMA ActiveStep ==
  ASSUME MInv, ActiveInv, [Next]_vars, {"crash", "diskFull"} \cap Features = {}
  PROVE  ActiveInv'
<1>1. IInv
  BY DEF MInv
<1>2. CASE UNCHANGED vars
  BY <1>2 DEF vars, ActiveInv, StoredMarks, Together, ActiveMarks, ChildMarksKept, GapAbove,
     TakenBack, Invalidating, Moving
<1>3. CASE Next /\ node # "down" /\ node' # "down"
  <2>1. Together' /\ ActiveMarks' /\ ChildMarksKept'
    BY <1>3, RunningActive, ChildMarksStep DEF ActiveInv
  <2> QED BY <1>3, <2>1 DEF ActiveInv
<1>4. CASE Shutdown
  <2>1. node # "down" /\ node' = "down"
    BY <1>4 DEF Shutdown, Enter, Stop
  <2> QED BY <1>1, <1>4, <2>1, ShutdownActive DEF ActiveInv
<1>5. CASE LoadBlockIndexDB
  <2>1. /\ node = "down" /\ node' = "up" /\ index' = diskIndex /\ diskIndex' = diskIndex
        /\ tip' = diskCoins /\ coins' = diskCoins
    BY <1>5 DEF LoadBlockIndexDB, diskVars
  <2>2. StoredMarks
    BY <2>1 DEF ActiveInv
  <2>3. Together' /\ ActiveMarks' /\ ChildMarksKept'
    BY <2>1, <2>2 DEF Together, ActiveMarks, ChildMarksKept, StoredMarks, GapAbove
  <2> QED BY <2>1, <2>3 DEF ActiveInv
<1>6. ~Crash
  BY DEF Crash
<1>7. ~AssertionFails
  <2>1. SUFFICES ASSUME AssertionFails PROVE FALSE
    OBVIOUS
  <2>2. job.phase \in {"step", "invalidate"} /\ coins # tip
    BY <2>1 DEF AssertionFails, ViewIsAt
  <2>3. node # "down" /\ JobInv
    BY <1>1, <2>2, InJob
  <2> QED BY <2>2, <2>3 DEF ActiveInv, Together, JobInv
<1>8. ASSUME Next, node = "down" \/ node' = "down"
      PROVE  Crash \/ AssertionFails \/ Shutdown \/ LoadBlockIndexDB \/ UNCHANGED vars
  BY <1>1, <1>8, DownSteps
<1> QED BY <1>2, <1>3, <1>4, <1>5, <1>6, <1>7, <1>8

LEMMA InitActive == Init => ActiveInv
<1> SUFFICES ASSUME Init PROVE ActiveInv
  OBVIOUS
<1>1. /\ Genesis \in Blocks /\ index[Genesis] = GenesisEntry /\ coins = Genesis /\ tip = Genesis
      /\ diskIndex = index /\ node = "up" /\ Chain[Genesis] = {Genesis}
  BY ChainStateAssumption DEF Init
<1>2. GenesisEntry.undo = FALSE
  <2>1. NewEntry \in Entry /\ NewEntry.undo = FALSE
    BY NewEntryType DEF NewEntry
  <2>2. ASSUME NEW n \in Entry,
               NEW f, f = [n EXCEPT !.level = TRANSACTIONS, !.data = TRUE, !.nTx = TRUE]
        PROVE  f.undo = n.undo
    BY <2>2 DEF Entry
  <2> QED BY <2>1, <2>2, Zenon DEF GenesisEntry
<1>3. Together /\ ActiveMarks /\ ChildMarksKept
  BY <1>1, <1>2 DEF Together, ActiveMarks, ChildMarksKept, GapAbove
<1> QED BY <1>1, <1>3 DEF ActiveInv

(* Once every thread has left ActivateBestChain, no block that is marked      *)
(* invalid is in the active chain, unless it cannot be disconnected for want  *)
(* of undo data.  Without invalidateblock that is so whatever happens: a     *)
(* block that was connected breaks no rule.  With it, nothing but a death or  *)
(* a full disk between the two writes of a flush brings such a chain back.   *)
THEOREM ActiveChainNotFailedAlways ==
  ASSUME "invalidate" \notin Features \/ {"crash", "diskFull"} \cap Features = {}
  PROVE  Spec => []ActiveChainNotFailed
<1>1. CASE "invalidate" \notin Features
  <2>1. MInv => ActiveChainNotFailed
    <3> SUFFICES ASSUME MInv, node # "down", NEW c \in Chain[tip], Failed(index[c])
                 PROVE  FALSE
      BY DEF ActiveChainNotFailed, Quiescent
    <3>1. /\ IndexOK(index) /\ Sound(index) /\ Scripted(index, tip) /\ tip \in Blocks
      BY DEF MInv, MarksInv, IInv, UpInv, IndexInv, JobInv
    <3>2. c \in Blocks /\ index[c] # Absent
      BY <3>1, OwnChain, IndexValue DEF Scripted, IndexOK, SCRIPTS
    <3>3. PICK x \in Chain[c] : x \in BadBlock \cup BadSpend
      BY <1>1, <3>1, <3>2 DEF Sound, SoundEntry, BreaksRules
    <3>4. x \in Chain[tip] /\ x \in Blocks /\ x # Genesis
      BY <3>1, <3>2, <3>3, ChainOfAncestor, OwnChain, ChainStateAssumption
    <3>5. index[x].level = SCRIPTS /\ index[x] # Absent
      BY <3>1, <3>4, AbsentLevel DEF Scripted, SCRIPTS
    <3>6. index[x].nTx
      BY <3>1, <3>4, <3>5 DEF IndexOK, EntryOK, SCRIPTS, TRANSACTIONS
    <3> QED BY <3>1, <3>3, <3>4, <3>5, <3>6 DEF Sound, SoundEntry
  <2> QED BY <2>1, MarksInvariant, PTL
<1>2. CASE {"crash", "diskFull"} \cap Features = {}
  <2>1. MInv /\ ActiveInv => ActiveChainNotFailed
    <3> SUFFICES ASSUME MInv, ActiveInv, node = "up", job = Free,
                        NEW b \in Chain[tip], Failed(index[b])
                 PROVE  \E x \in Chain[tip] : b \in Chain[x] /\ ~index[x].undo
      BY DEF ActiveChainNotFailed, Quiescent
    <3> QED BY FreeIsNotInvalidating
            DEF ActiveInv, Together, ActiveMarks, TakenBack, GapAbove
  <2>2. MInv /\ ActiveInv /\ [Next]_vars => ActiveInv'
    BY <1>2, ActiveStep
  <2> QED BY <2>1, <2>2, InitActive, MarksInvariant, PTL DEF Spec
<1> QED BY <1>1, <1>2
=============================================================================
