--------------------------- MODULE ChainStateProofs ---------------------------
(***************************************************************************)
(* The block index on disk always has the chain of the coins on disk, no    *)
(* change of an entry is forgotten by a flush, the coins and chainActive    *)
(* stay together, and what CheckBlockIndex asserts of nStatus is true: for  *)
(* every block tree and every order of headers, blocks, flushes, deaths,    *)
(* full disks, prunings and RPCs.                                           *)
(***************************************************************************)
EXTENDS ChainState, FiniteSetTheorems, WellFoundedInduction, TLAPS

(* A nonempty set of numbers has a smallest element.                         *)
LEMMA LeastNumber ==
  ASSUME NEW T \in SUBSET Nat, T # {}
  PROVE  \E n \in T : \A m \in T : n <= m
<1> DEFINE R == OpToRel(<, Nat)
<1>1. \A n, m \in Nat : m < n => <<m, n>> \in R
  BY DEF OpToRel
<1>2. IsWellFoundedOn(R, Nat)
  BY NatLessThanWellFounded, Zenon
<1> HIDE DEF R
<1>3. PICK n \in T : \A m \in T : ~(<<m, n>> \in R)
  BY <1>2, WFMin, Zenon
<1>4. \A m \in T : ~(m < n)
  BY <1>1, <1>3
<1> QED BY <1>4

(* So a nonempty set of blocks without the genesis block has one whose       *)
(* parent is not in it: induction over the ancestors of a block.             *)
LEMMA FirstOfItsChain ==
  ASSUME NEW S \in SUBSET (Blocks \ {Genesis}), S # {}
  PROVE  \E b \in S : Parent[b] \in Blocks \ S
<1> DEFINE T == {Height[b] : b \in S}
<1>1. T \in SUBSET Nat /\ T # {}
  BY ChainStateAssumption
<1> HIDE DEF T
<1>2. PICK n \in T : \A m \in T : n <= m
  BY <1>1, LeastNumber
<1>3. PICK b \in S : Height[b] = n
  BY <1>2 DEF T
<1>4. Parent[b] \in Blocks /\ Height[Parent[b]] \in Nat /\ Height[b] = Height[Parent[b]] + 1
  BY ChainStateAssumption
<1>5. Parent[b] \notin S
  <2>1. SUFFICES ASSUME Parent[b] \in S PROVE FALSE
    OBVIOUS
  <2>2. Height[Parent[b]] \in T
    BY <2>1 DEF T
  <2> QED BY <1>2, <1>3, <1>4, <2>2
<1> QED BY <1>4, <1>5

(* A block that is not the genesis block has a parent.                       *)
LEMMA ParentOf ==
  ASSUME NEW b \in Blocks, b # Genesis
  PROVE  /\ Parent[b] \in Blocks
         /\ Chain[b] = {b} \cup Chain[Parent[b]] /\ b \notin Chain[Parent[b]]
         /\ Work[b] > Work[Parent[b]] /\ Height[b] = Height[Parent[b]] + 1
  BY ChainStateAssumption

(* A block is in its own chain, and the genesis block is in every one.       *)
LEMMA OwnChain ==
  ASSUME NEW b \in Blocks
  PROVE  b \in Chain[b] /\ Chain[b] \subseteq Blocks
  BY ChainStateAssumption

LEMMA GenesisInChain == \A b \in Blocks : Genesis \in Chain[b]
<1> DEFINE S == {b \in Blocks : Genesis \notin Chain[b]}
<1>1. SUFFICES ASSUME S # {} PROVE FALSE
  OBVIOUS
<1>2. S \in SUBSET (Blocks \ {Genesis})
  BY ChainStateAssumption
<1>3. PICK b \in S : Parent[b] \in Blocks \ S
  BY <1>1, <1>2, FirstOfItsChain
<1> QED BY <1>2, <1>3, ParentOf

(* The chain of a block holds the chains of all its blocks.                  *)
LEMMA ChainOfAncestor == \A b \in Blocks : \A x \in Chain[b] : Chain[x] \subseteq Chain[b]
<1> DEFINE S == {b \in Blocks : \E x \in Chain[b] : ~(Chain[x] \subseteq Chain[b])}
<1>1. SUFFICES ASSUME S # {} PROVE FALSE
  OBVIOUS
<1>2. S \in SUBSET (Blocks \ {Genesis})
  BY ChainStateAssumption
<1>3. PICK b \in S : Parent[b] \in Blocks \ S
  BY <1>1, <1>2, FirstOfItsChain
<1>4. \A x \in Chain[Parent[b]] : Chain[x] \subseteq Chain[Parent[b]]
  BY <1>3
<1> QED BY <1>2, <1>3, <1>4, ParentOf

(* An ancestor has less work, so no two blocks are ancestors of each other.  *)
LEMMA AncestorHasLessWork == \A b \in Blocks : \A x \in Chain[b] \ {b} : Work[x] < Work[b]
<1> DEFINE S == {b \in Blocks : \E x \in Chain[b] \ {b} : ~(Work[x] < Work[b])}
<1>1. SUFFICES ASSUME S # {} PROVE FALSE
  OBVIOUS
<1>2. S \in SUBSET (Blocks \ {Genesis})
  BY ChainStateAssumption
<1>3. PICK b \in S : Parent[b] \in Blocks \ S
  BY <1>1, <1>2, FirstOfItsChain
<1>4. PICK x \in Chain[b] \ {b} : ~(Work[x] < Work[b])
  BY <1>3
<1>5. x \in Chain[Parent[b]] /\ Work[Parent[b]] < Work[b]
  BY <1>2, <1>4, ParentOf
<1>6. x = Parent[b] \/ Work[x] < Work[Parent[b]]
  BY <1>3, <1>5
<1>7. Work[x] \in Nat /\ Work[Parent[b]] \in Nat /\ Work[b] \in Nat
  BY <1>3, <1>5, ChainStateAssumption
<1> QED BY <1>4, <1>5, <1>6, <1>7
-----------------------------------------------------------------------------
(* The inductive invariant.  First what is true of an index, the one in       *)
(* memory or the one on disk: every entry has its parent, the parts of its    *)
(* nStatus agree, and it is SCRIPTS valid only over a chain that is.          *)
EntryOK(e) ==
  /\ e.nTx <=> e.level >= TRANSACTIONS
  /\ e.data => e.nTx
  /\ e.undo => e.data
IndexOK(idx) ==
  /\ idx \in Index
  /\ idx[Genesis] # Absent
  /\ \A b \in Blocks : idx[b] # Absent => EntryOK(idx[b])
  /\ \A b \in Blocks \ {Genesis} : idx[b] # Absent => idx[Parent[b]] # Absent
  /\ \A b \in Blocks \ {Genesis} : idx[b].level = SCRIPTS =>
        Parent[b] = Genesis \/ idx[Parent[b]].level = SCRIPTS

(* Every block of the chain of b was connected.                              *)
Scripted(idx, b) == \A x \in Chain[b] \ {Genesis} : idx[x].level = SCRIPTS

(* An index and an older one, of which only the entries in d have changed.    *)
SameEntry(e, f) ==
  IF e = Absent \/ f = Absent THEN e = f
  ELSE [e EXCEPT !.failedChild = FALSE] = [f EXCEPT !.failedChild = FALSE]
Copied(idx, old, d) == \A b \in Blocks \ d : SameEntry(idx[b], old[b])
Kept(idx, old) == \A b \in Blocks :
  old[b] # Absent => idx[b] # Absent /\ idx[b].level >= old[b].level

(* What the holder of cs_main is doing, and how far the coins are from the tip. *)
Moving == job.move # "none"
Stepping == job.phase = "step" \/ job.move \in {"connect", "disconnect"}
Invalidating == job.phase = "invalidate" \/ job.move = "invalidate"
JobInv ==
  /\ tip \in Blocks /\ coins \in Blocks
  /\ job.phase = "free" => job = Free
  /\ job.phase \in {"find", "step", "invalidate"} => ~Moving
  /\ job.phase = "update" => Moving
  /\ Stepping => job.target \in Blocks
  /\ Invalidating => job.target \in Blocks \ {Genesis}
OneApart == Parent[coins] = tip \/ Parent[tip] = coins
PlaceInv ==
  /\ job.move = "connect" => coins \in OffChain(job.target) /\ Parent[coins] = tip
  /\ job.move = "disconnect" => tip \notin Chain[job.target] /\ Parent[tip] = coins
  /\ job.move = "invalidate" => job.target \in Chain[tip] /\ Parent[tip] = coins
  /\ ~Moving => coins = tip \/ (node = "stopping" /\ OneApart)

(* In a step no block between the chain and the target is marked invalid.    *)
TargetInv == Stepping =>
  \A x \in OffChain(job.target) : index[x] # Absent /\ ~Failed(index[x])

(* The index in memory, and how the one on disk relates to it.               *)
IndexInv ==
  /\ IndexOK(index)
  /\ Scripted(index, tip) /\ Scripted(index, coins)
  /\ Copied(index, diskIndex, dirty) /\ Kept(index, diskIndex)
SetsInv ==
  /\ candidates \subseteq Known /\ chainTx \subseteq Known /\ unlinked \subseteq Known
  /\ job.phase = "flush" => dirty = {}

UpInv == node # "down" => JobInv /\ PlaceInv /\ TargetInv /\ IndexInv /\ SetsInv
DiskInv == IndexOK(diskIndex) /\ Scripted(diskIndex, diskCoins)
IInv == TypeOK /\ (node = "down" => job = Free) /\ UpInv /\ DiskInv
-----------------------------------------------------------------------------
(* The fields of an entry, and that an entry is never taken for its absence. *)
LEMMA EntryFields ==
  ASSUME NEW e \in Entry
  PROVE  /\ e.level \in {2, 3, 5} /\ e.data \in BOOLEAN /\ e.undo \in BOOLEAN
         /\ e.failedValid \in BOOLEAN /\ e.failedChild \in BOOLEAN /\ e.nTx \in BOOLEAN
         /\ e # Absent
  BY DEF Entry, Absent, TREE, TRANSACTIONS, SCRIPTS

LEMMA AbsentLevel == Absent.level = 0 /\ Absent \notin Entry
  BY EntryFields DEF Absent

LEMMA NewEntryType ==
  /\ NewEntry \in Entry /\ EntryOK(NewEntry) /\ NewEntry.level = 2
  /\ ~NewEntry.data /\ ~Failed(NewEntry)
  /\ GenesisEntry \in Entry /\ EntryOK(GenesisEntry) /\ GenesisEntry.level = 3
<1>1. NewEntry \in Entry /\ EntryOK(NewEntry) /\ NewEntry.level = 2 /\ ~NewEntry.data
      /\ ~Failed(NewEntry)
  BY DEF NewEntry, Entry, EntryOK, Failed, TREE, TRANSACTIONS, SCRIPTS
<1>2. ASSUME NEW e \in Entry,
             NEW f, f = [e EXCEPT !.level = TRANSACTIONS, !.data = TRUE, !.nTx = TRUE]
      PROVE  f \in Entry /\ EntryOK(f) /\ f.level = 3
  <2>1. f \in Entry /\ f.level = 3 /\ f.data = TRUE /\ f.nTx = TRUE
    BY <1>2 DEF Entry, TREE, TRANSACTIONS, SCRIPTS
  <2> QED BY <2>1 DEF EntryOK, TRANSACTIONS
<1>3. GenesisEntry \in Entry /\ EntryOK(GenesisEntry) /\ GenesisEntry.level = 3
  BY <1>1, <1>2, Zenon DEF GenesisEntry
<1> QED BY <1>1, <1>3

LEMMA IndexValue ==
  ASSUME NEW idx \in Index, NEW b \in Blocks
  PROVE  /\ idx[b] \in Entry \/ idx[b] = Absent
         /\ idx[b] # Absent <=> idx[b] \in Entry
         /\ idx[b].level \in {0, 2, 3, 5}
         /\ idx[b].level # 0 <=> idx[b] # Absent
<1>1. idx[b] \in Entry \/ idx[b] = Absent
  BY DEF Index
<1> QED BY <1>1, AbsentLevel, EntryFields

(* Entries that agree in every field but failedChild.                        *)
LEMMA SameFields ==
  ASSUME NEW e \in Entry, NEW f \in Entry
  PROVE  SameEntry(e, f) <=> /\ e.level = f.level /\ e.data = f.data /\ e.undo = f.undo
                             /\ e.failedValid = f.failedValid /\ e.nTx = f.nTx
  BY EntryFields DEF SameEntry, Entry

LEMMA SameEntryTransitive ==
  ASSUME NEW idx \in Index, NEW i \in Index, NEW j \in Index, NEW b \in Blocks,
         SameEntry(idx[b], i[b]), SameEntry(i[b], j[b])
  PROVE  SameEntry(idx[b], j[b])
<1>1. CASE i[b] = Absent
  BY <1>1 DEF SameEntry
<1>2. CASE i[b] # Absent
  <2>1. idx[b] # Absent /\ j[b] # Absent
    BY <1>2 DEF SameEntry
  <2> QED BY <1>2, <2>1, IndexValue, SameFields
<1> QED BY <1>1, <1>2

(* An entry in the index has all its ancestors there.                        *)
LEMMA AncestorsKnown ==
  ASSUME NEW idx, IndexOK(idx)
  PROVE  \A b \in Blocks : idx[b] # Absent => \A x \in Chain[b] : idx[x] # Absent
<1> DEFINE S == {b \in Blocks : idx[b] # Absent /\ \E x \in Chain[b] : idx[x] = Absent}
<1>1. SUFFICES ASSUME S # {} PROVE FALSE
  OBVIOUS
<1>2. S \in SUBSET (Blocks \ {Genesis})
  BY ChainStateAssumption DEF IndexOK
<1>3. PICK b \in S : Parent[b] \in Blocks \ S
  BY <1>1, <1>2, FirstOfItsChain
<1>4. idx[Parent[b]] # Absent
  BY <1>2, <1>3 DEF IndexOK
<1> QED BY <1>2, <1>3, <1>4, ParentOf

(* A block that was connected has a chain of blocks that were.               *)
LEMMA AncestorsScripted ==
  ASSUME NEW idx, IndexOK(idx)
  PROVE  \A b \in Blocks : idx[b].level = SCRIPTS => Scripted(idx, b)
<1> DEFINE S == {b \in Blocks : idx[b].level = SCRIPTS /\ ~Scripted(idx, b)}
<1>1. SUFFICES ASSUME S # {} PROVE FALSE
  OBVIOUS
<1>2. S \in SUBSET (Blocks \ {Genesis})
  BY ChainStateAssumption DEF Scripted
<1>3. PICK b \in S : Parent[b] \in Blocks \ S
  BY <1>1, <1>2, FirstOfItsChain
<1>4. Parent[b] = Genesis \/ idx[Parent[b]].level = SCRIPTS
  BY <1>2, <1>3 DEF IndexOK
<1>5. Scripted(idx, Parent[b])
  BY <1>3, <1>4, ChainStateAssumption DEF Scripted
<1> QED BY <1>2, <1>3, <1>5, ParentOf DEF Scripted
-----------------------------------------------------------------------------
(* What every change of the index in memory keeps to; d are the dirty        *)
(* entries after it.                                                         *)
Grows(new, d) ==
  /\ new \in Index
  /\ \A b \in Blocks :
       /\ index[b] # Absent => new[b] # Absent /\ new[b].level >= index[b].level
       /\ new[b] # Absent => EntryOK(new[b])
       /\ index[b] = Absent /\ new[b] # Absent => b # Genesis /\ index[Parent[b]] # Absent
       /\ new[b].level = SCRIPTS =>
            index[b].level = SCRIPTS \/ (b # Genesis /\ Scripted(index, Parent[b]))
       /\ b \notin d => b \notin dirty /\ SameEntry(new[b], index[b])

LEMMA GrowsKeeps ==
  ASSUME IndexOK(index), IndexOK(diskIndex), Copied(index, diskIndex, dirty),
         Kept(index, diskIndex), NEW new, NEW d, Grows(new, d)
  PROVE  /\ IndexOK(new)
         /\ Copied(new, diskIndex, d) /\ Kept(new, diskIndex)
         /\ \A c \in Blocks : Scripted(index, c) => Scripted(new, c)
         /\ \A b \in Known : new[b] # Absent
<1>1. index \in Index /\ diskIndex \in Index /\ new \in Index
  BY DEF IndexOK, Grows
<1>2. \A b \in Blocks : index[b].level = SCRIPTS => new[b].level = SCRIPTS
  <2> SUFFICES ASSUME NEW b \in Blocks, index[b].level = SCRIPTS PROVE new[b].level = SCRIPTS
    OBVIOUS
  <2>1. index[b] # Absent
    BY <1>1, IndexValue DEF SCRIPTS
  <2>2. new[b] # Absent /\ new[b].level >= index[b].level
    BY <2>1 DEF Grows
  <2> QED BY <1>1, <2>2, IndexValue DEF SCRIPTS
<1>3. IndexOK(new)
  <2>1. new[Genesis] # Absent
    BY ChainStateAssumption DEF IndexOK, Grows
  <2>2. \A b \in Blocks : new[b] # Absent => EntryOK(new[b])
    BY DEF Grows
  <2>3. ASSUME NEW b \in Blocks \ {Genesis}, new[b] # Absent PROVE new[Parent[b]] # Absent
    <3>1. index[Parent[b]] # Absent
      BY <2>3 DEF IndexOK, Grows
    <3> QED BY <3>1, ParentOf DEF Grows
  <2>4. ASSUME NEW b \in Blocks \ {Genesis}, new[b].level = SCRIPTS
        PROVE  Parent[b] = Genesis \/ new[Parent[b]].level = SCRIPTS
    <3>1. Parent[b] \in Blocks /\ Parent[b] \in Chain[Parent[b]]
      BY ParentOf, OwnChain
    <3>2. Parent[b] = Genesis \/ index[Parent[b]].level = SCRIPTS
      BY <2>4, <3>1 DEF IndexOK, Grows, Scripted
    <3> QED BY <1>2, <3>1, <3>2
  <2> QED BY <1>1, <2>1, <2>2, <2>3, <2>4 DEF IndexOK
<1>4. Copied(new, diskIndex, d)
  <2> SUFFICES ASSUME NEW b \in Blocks \ d PROVE SameEntry(new[b], diskIndex[b])
    BY DEF Copied
  <2>1. SameEntry(new[b], index[b]) /\ SameEntry(index[b], diskIndex[b])
    BY DEF Grows, Copied
  <2> QED BY <1>1, <2>1, SameEntryTransitive
<1>5. Kept(new, diskIndex)
  <2> SUFFICES ASSUME NEW b \in Blocks, diskIndex[b] # Absent
               PROVE  new[b] # Absent /\ new[b].level >= diskIndex[b].level
    BY DEF Kept
  <2>1. index[b] # Absent /\ index[b].level >= diskIndex[b].level
    BY DEF Kept
  <2>2. new[b] # Absent /\ new[b].level >= index[b].level
    BY <2>1 DEF Grows
  <2> QED BY <1>1, <2>1, <2>2, IndexValue
<1>6. \A c \in Blocks : Scripted(index, c) => Scripted(new, c)
  BY <1>2, OwnChain DEF Scripted
<1>7. \A b \in Known : new[b] # Absent
  BY DEF Grows, Known
<1> QED BY <1>3, <1>4, <1>5, <1>6, <1>7

(* One entry is set to e.                                                    *)
LEMMA OneEntry ==
  ASSUME IndexOK(index), NEW b \in Blocks, NEW e \in Entry, EntryOK(e),
         index[b] # Absent => e.level >= index[b].level,
         index[b] = Absent => b # Genesis /\ Parent[b] \in Known,
         e.level = SCRIPTS =>
           index[b].level = SCRIPTS \/ (b # Genesis /\ Scripted(index, Parent[b]))
  PROVE  Grows([index EXCEPT ![b] = e], dirty \cup {b})
<1> DEFINE new == [index EXCEPT ![b] = e]
<1>1. index \in Index /\ new \in Index
  BY DEF IndexOK, Index
<1>2. new[b] = e /\ \A x \in Blocks \ {b} : new[x] = index[x]
  BY <1>1 DEF Index
<1> HIDE DEF new
<1>3. e # Absent /\ \A x \in Blocks : index[x].level \in {0, 2, 3, 5}
  BY <1>1, EntryFields, IndexValue
<1>4. \A x \in Blocks : index[x] # Absent => EntryOK(index[x])
  BY DEF IndexOK
<1>5. \A x \in Blocks : SameEntry(index[x], index[x])
  BY DEF SameEntry
<1> SUFFICES Grows(new, dirty \cup {b})
  BY DEF new
<1>6. ASSUME NEW x \in Blocks
      PROVE  /\ index[x] # Absent => new[x] # Absent /\ new[x].level >= index[x].level
             /\ new[x] # Absent => EntryOK(new[x])
             /\ index[x] = Absent /\ new[x] # Absent =>
                  x # Genesis /\ index[Parent[x]] # Absent
             /\ new[x].level = SCRIPTS =>
                  index[x].level = SCRIPTS \/ (x # Genesis /\ Scripted(index, Parent[x]))
             /\ x \notin dirty \cup {b} => x \notin dirty /\ SameEntry(new[x], index[x])
  <2>1. CASE x = b
    BY <1>2, <1>3, <2>1 DEF Known
  <2>2. CASE x # b
    BY <1>2, <1>3, <1>4, <1>5, <2>2
  <2> QED BY <2>1, <2>2
<1> QED BY <1>1, <1>6 DEF Grows

(* The entries in M get or lose marks, or the blocks of their files: nothing *)
(* else of an entry changes.                                                 *)
LEMMA ManyEntries ==
  ASSUME IndexOK(index), NEW new \in Index, NEW d, dirty \subseteq d,
         \A x \in Blocks :
           \/ new[x] = index[x]
           \/ /\ new[x] \in Entry /\ index[x] \in Entry
              /\ new[x].level = index[x].level /\ EntryOK(new[x])
              /\ x \in d \/ SameEntry(new[x], index[x])
  PROVE  Grows(new, d)
<1>1. index \in Index
  BY DEF IndexOK
<1>2. \A x \in Blocks : index[x].level \in {0, 2, 3, 5} /\ new[x].level \in {0, 2, 3, 5}
  BY <1>1, IndexValue
<1>3. \A x \in Blocks : index[x] # Absent => EntryOK(index[x])
  BY DEF IndexOK
<1>4. \A x \in Blocks : SameEntry(index[x], index[x])
  BY DEF SameEntry
<1>5. \A x \in Blocks : new[x] \in Entry => new[x] # Absent
  BY EntryFields
<1> QED BY <1>1, <1>2, <1>3, <1>4, <1>5, EntryFields DEF Grows
-----------------------------------------------------------------------------
(* What the operations make of an entry.                                     *)
LEMMA RaisedEntry ==
  ASSUME NEW e \in Entry, NEW n \in {TRANSACTIONS, SCRIPTS},
         NEW r, r = RaiseValidity(e, n)
  PROVE  /\ r \in Entry
         /\ r.data = e.data /\ r.undo = e.undo /\ r.nTx = e.nTx
         /\ r.failedValid = e.failedValid /\ r.failedChild = e.failedChild
         /\ r.level = IF ~Failed(e) /\ e.level < n THEN n ELSE e.level
  BY DEF RaiseValidity, Entry, TREE, TRANSACTIONS, SCRIPTS

LEMMA ReceivedEntry ==
  ASSUME NEW e \in Entry, EntryOK(e), ~Failed(e),
         NEW r, r = RaiseValidity([e EXCEPT !.nTx = TRUE, !.data = TRUE], TRANSACTIONS)
  PROVE  /\ r \in Entry /\ EntryOK(r) /\ ~Failed(r) /\ r.nTx /\ r.data
         /\ r.level >= e.level /\ (r.level = SCRIPTS => e.level = SCRIPTS)
<1>1. PICK f : f = [e EXCEPT !.nTx = TRUE, !.data = TRUE]
  OBVIOUS
<1>2. /\ f \in Entry /\ f.nTx = TRUE /\ f.data = TRUE /\ f.level = e.level
      /\ f.failedValid = e.failedValid /\ f.failedChild = e.failedChild
  BY <1>1 DEF Entry
<1>3. r = RaiseValidity(f, TRANSACTIONS)
  BY <1>1, Zenon
<1> QED BY <1>2, <1>3, RaisedEntry, EntryFields DEF EntryOK, Failed, TRANSACTIONS, SCRIPTS

LEMMA ConnectedEntry ==
  ASSUME NEW e \in Entry, EntryOK(e), ~Failed(e), e.data,
         NEW r, r = RaiseValidity([e EXCEPT !.undo = TRUE], SCRIPTS)
  PROVE  r \in Entry /\ EntryOK(r) /\ ~Failed(r) /\ r.data /\ r.nTx /\ r.level = SCRIPTS
<1>1. PICK f : f = [e EXCEPT !.undo = TRUE]
  OBVIOUS
<1>2. /\ f \in Entry /\ f.undo = TRUE /\ f.data = e.data /\ f.level = e.level
      /\ f.nTx = e.nTx /\ f.failedValid = e.failedValid /\ f.failedChild = e.failedChild
  BY <1>1 DEF Entry
<1>3. r = RaiseValidity(f, SCRIPTS)
  BY <1>1, Zenon
<1>4. /\ r \in Entry /\ r.data = e.data /\ r.undo = TRUE /\ r.nTx = e.nTx
      /\ r.failedValid = e.failedValid /\ r.failedChild = e.failedChild
      /\ r.level = IF ~Failed(f) /\ f.level < SCRIPTS THEN SCRIPTS ELSE f.level
  BY <1>2, <1>3, RaisedEntry
<1>5. r.level = SCRIPTS
  BY <1>2, <1>4, EntryFields DEF Failed, SCRIPTS
<1>6. r.data /\ r.nTx /\ ~Failed(r)
  BY <1>4 DEF EntryOK, Failed
<1> QED BY <1>4, <1>5, <1>6 DEF EntryOK, TRANSACTIONS, SCRIPTS

LEMMA InvalidEntry ==
  ASSUME NEW e \in Entry, EntryOK(e), NEW r, r = [e EXCEPT !.failedValid = TRUE]
  PROVE  /\ r \in Entry /\ EntryOK(r) /\ r.level = e.level
         /\ r.failedValid = TRUE /\ r.failedChild = e.failedChild
         /\ r.data = e.data /\ r.undo = e.undo /\ r.nTx = e.nTx
  BY DEF Entry, EntryOK

LEMMA InvalidChildEntry ==
  ASSUME NEW e \in Entry, EntryOK(e), NEW r, r = [e EXCEPT !.failedChild = TRUE]
  PROVE  /\ r \in Entry /\ EntryOK(r) /\ r.level = e.level
         /\ r.failedChild = TRUE /\ r.failedValid = e.failedValid
         /\ r.data = e.data /\ r.undo = e.undo /\ r.nTx = e.nTx
  BY DEF Entry, EntryOK

LEMMA ClearedEntry ==
  ASSUME NEW e \in Entry, EntryOK(e), NEW r,
         r = [e EXCEPT !.failedValid = FALSE, !.failedChild = FALSE]
  PROVE  r \in Entry /\ EntryOK(r) /\ r.level = e.level
  BY DEF Entry, EntryOK

LEMMA PrunedEntry ==
  ASSUME NEW e \in Entry, EntryOK(e), NEW r,
         r = [e EXCEPT !.data = FALSE, !.undo = FALSE]
  PROVE  /\ r \in Entry /\ EntryOK(r) /\ r.level = e.level /\ r.nTx = e.nTx
         /\ r.failedValid = e.failedValid /\ r.failedChild = e.failedChild
  BY DEF Entry, EntryOK
-----------------------------------------------------------------------------
(* A step that leaves the tip, the coins and the disk alone.                 *)
LEMMA IndexKept ==
  ASSUME IInv, node # "down", Grows(index', dirty'),
         UNCHANGED <<tip, coins, diskIndex, diskCoins>>
  PROVE  /\ IndexInv' /\ DiskInv' /\ index' \in Index /\ diskIndex' \in Index
         /\ Known \subseteq Known' /\ Known' \subseteq Blocks
<1>1. /\ IndexOK(index) /\ IndexOK(diskIndex) /\ Copied(index, diskIndex, dirty)
      /\ Kept(index, diskIndex) /\ Scripted(index, tip) /\ Scripted(index, coins)
      /\ tip \in Blocks /\ coins \in Blocks
  BY DEF IInv, UpInv, IndexInv, DiskInv, JobInv
<1>2. /\ IndexOK(index') /\ Copied(index', diskIndex, dirty') /\ Kept(index', diskIndex)
      /\ \A c \in Blocks : Scripted(index, c) => Scripted(index', c)
      /\ \A b \in Known : index'[b] # Absent
  BY <1>1, GrowsKeeps
<1>3. IndexInv'
  BY <1>1, <1>2 DEF IndexInv
<1>4. DiskInv'
  BY DEF IInv, DiskInv
<1> QED BY <1>2, <1>3, <1>4 DEF IndexOK, Known, DiskInv

LEMMA FreeFields ==
  /\ Free \in JobType /\ Free.phase = "free" /\ Free.move = "none"
  /\ Free.target = NoBlock /\ Free.old = NoBlock
  BY DEF Free, JobType

(* cs_main is released, or nobody held it.                                   *)
LEMMA Freed ==
  ASSUME IInv, node # "down", UNCHANGED <<tip, coins>>, job' = Free,
         (node' = node /\ ~Moving) \/ node' = "stopping"
  PROVE  /\ JobInv' /\ PlaceInv' /\ TargetInv' /\ job' \in JobType
         /\ node' \in {"up", "stopping"}
         /\ tip' \in Blocks /\ coins' \in Blocks
         /\ job'.phase = "flush" => dirty' = {}
<1>1. JobInv /\ PlaceInv /\ job \in JobType /\ node \in {"up", "stopping"}
  BY DEF IInv, UpInv, TypeOK
<1>2. JobInv' /\ ~Stepping'
  BY <1>1, FreeFields DEF JobInv, Moving, Stepping, Invalidating
<1>3. PlaceInv'
  <2>1. job.move \in {"none", "connect", "disconnect", "invalidate"}
    BY <1>1 DEF JobType
  <2> QED BY <1>1, <2>1, FreeFields DEF PlaceInv, Moving, OneApart
<1> QED BY <1>1, <1>2, <1>3, FreeFields DEF TargetInv, JobInv

LEMMA HeaderStep == IInv /\ AcceptBlockHeader => IInv'
<1> SUFFICES ASSUME IInv, AcceptBlockHeader PROVE IInv'
  OBVIOUS
<1>1. PICK b \in Blocks \ Known :
        /\ Enter /\ HeaderFits(b)
        /\ index' = [index EXCEPT ![b] = NewEntry]
        /\ dirty' = dirty \cup {b}
        /\ UNCHANGED <<chainTx, seq, candidates, unlinked, tip, coins, diskVars, job, pending, node>>
  BY DEF AcceptBlockHeader
<1>2. node # "down" /\ job = Free /\ ~Moving /\ IndexOK(index) /\ SetsInv /\ TypeOK
  BY <1>1, FreeFields DEF Enter, Moving, IInv, UpInv, IndexInv
<1>3. Grows(index', dirty')
  <2>1. index[b] = Absent /\ b # Genesis /\ Parent[b] \in Known
    BY <1>1, <1>2 DEF Known, HeaderFits, IndexOK
  <2>2. NewEntry \in Entry /\ EntryOK(NewEntry) /\ NewEntry.level # SCRIPTS
    BY NewEntryType DEF SCRIPTS
  <2>3. Grows([index EXCEPT ![b] = NewEntry], dirty \cup {b})
    BY <1>2, <2>1, <2>2, OneEntry
  <2> QED BY <1>1, <2>3
<1>4. /\ IndexInv' /\ DiskInv' /\ index' \in Index /\ diskIndex' \in Index
      /\ Known \subseteq Known' /\ Known' \subseteq Blocks
  BY <1>1, <1>2, <1>3, IndexKept DEF diskVars
<1>5. /\ JobInv' /\ PlaceInv' /\ TargetInv' /\ job' \in JobType
      /\ node' \in {"up", "stopping"} /\ tip' \in Blocks /\ coins' \in Blocks
      /\ job'.phase = "flush" => dirty' = {}
  BY <1>1, <1>2, Freed
<1>6. SetsInv'
  BY <1>1, <1>2, <1>4, <1>5 DEF SetsInv
<1>7. TypeOK'
  BY <1>1, <1>2, <1>4, <1>5 DEF TypeOK, diskVars
<1> QED BY <1>4, <1>5, <1>6, <1>7 DEF IInv, UpInv

(* The ranks are numbers.                                                    *)
LEMMA ResequencedType ==
  ASSUME NEW L \in SUBSET Blocks, NEW pos \in Orders(L)
  PROVE  Resequenced(L, pos) \in [Blocks -> Nat]
<1>1. \A S \in SUBSET Blocks : Cardinality(S) \in Nat
  BY ChainStateAssumption, FS_Subset, FS_CardinalityType
<1> QED BY <1>1 DEF Resequenced

LEMMA AcceptBlockStep == IInv /\ AcceptBlock => IInv'
<1> SUFFICES ASSUME IInv, AcceptBlock PROVE IInv'
  OBVIOUS
<1>1. PICK b, e :
        /\ b \in Blocks \ {Genesis}
        /\ e = (IF b \in Known THEN index[b] ELSE NewEntry)
        /\ Enter
        /\ IF b \in Known THEN ~Failed(index[b]) ELSE HeaderFits(b)
        /\ ~e.data
        /\ UNCHANGED <<tip, coins, diskVars, job, node>>
        /\ \/ /\ index' = [index EXCEPT ![b] = [e EXCEPT !.failedValid = TRUE]]
              /\ dirty' = dirty \cup {b}
              /\ UNCHANGED <<chainTx, seq, candidates, unlinked, pending>>
           \/ ReceivedBlockTransactions(b, e) /\ pending' = TRUE
  BY DEF AcceptBlock
<1>2. node # "down" /\ job = Free /\ ~Moving /\ IndexOK(index) /\ SetsInv /\ TypeOK
  BY <1>1, FreeFields DEF Enter, Moving, IInv, UpInv, IndexInv
<1>3. /\ e \in Entry /\ EntryOK(e) /\ ~Failed(e)
      /\ index[b] # Absent => e.level = index[b].level
      /\ index[b] = Absent => Parent[b] \in Known /\ e.level # SCRIPTS
  <2>1. CASE b \in Known
    BY <1>1, <1>2, <2>1, IndexValue DEF Known, IndexOK
  <2>2. CASE b \notin Known
    BY <1>1, <1>2, <2>2, NewEntryType DEF Known, HeaderFits, SCRIPTS
  <2> QED BY <2>1, <2>2
<1>4. ASSUME NEW r \in Entry, EntryOK(r), r.level >= e.level,
             r.level = SCRIPTS => e.level = SCRIPTS
      PROVE  Grows([index EXCEPT ![b] = r], dirty \cup {b})
  BY <1>1, <1>2, <1>3, <1>4, OneEntry
<1>5. CASE /\ index' = [index EXCEPT ![b] = [e EXCEPT !.failedValid = TRUE]]
           /\ dirty' = dirty \cup {b}
           /\ UNCHANGED <<chainTx, seq, candidates, unlinked, pending>>
  <2>1. PICK r : r = [e EXCEPT !.failedValid = TRUE]
    OBVIOUS
  <2>2. r \in Entry /\ EntryOK(r) /\ r.level = e.level /\ e.level \in {2, 3, 5}
    BY <1>3, <2>1, InvalidEntry, EntryFields
  <2>3. Grows(index', dirty')
    <3>1. index' = [index EXCEPT ![b] = r]
      BY <1>5, <2>1, Zenon
    <3>2. r.level >= e.level /\ dirty' = dirty \cup {b}
      BY <1>5, <2>2
    <3> QED BY <1>4, <2>2, <3>1, <3>2
  <2>4. /\ IndexInv' /\ DiskInv' /\ index' \in Index /\ diskIndex' \in Index
        /\ Known \subseteq Known' /\ Known' \subseteq Blocks
    BY <1>1, <1>2, <2>3, IndexKept DEF diskVars
  <2>5. /\ JobInv' /\ PlaceInv' /\ TargetInv' /\ job' \in JobType
        /\ node' \in {"up", "stopping"} /\ tip' \in Blocks /\ coins' \in Blocks
        /\ job'.phase = "flush" => dirty' = {}
    BY <1>1, <1>2, Freed
  <2>6. SetsInv'
    BY <1>5, <1>2, <2>4, <2>5 DEF SetsInv
  <2>7. TypeOK'
    BY <1>1, <1>5, <1>2, <2>4, <2>5 DEF TypeOK, diskVars
  <2> QED BY <2>4, <2>5, <2>6, <2>7 DEF IInv, UpInv
<1>6. CASE ReceivedBlockTransactions(b, e) /\ pending' = TRUE
  <2>1. PICK r : r = RaiseValidity([e EXCEPT !.nTx = TRUE, !.data = TRUE], TRANSACTIONS)
    OBVIOUS
  <2>2. /\ r \in Entry /\ EntryOK(r) /\ r.level >= e.level
        /\ r.level = SCRIPTS => e.level = SCRIPTS
    BY <1>3, <2>1, ReceivedEntry
  <2>3. index' = [index EXCEPT ![b] = r] /\ dirty' = dirty \cup {b}
    BY <1>6, <2>1, Zenon DEF ReceivedBlockTransactions
  <2>4. Grows(index', dirty')
    BY <1>4, <2>2, <2>3
  <2>5. /\ IndexInv' /\ DiskInv' /\ index' \in Index /\ diskIndex' \in Index
        /\ Known \subseteq Known' /\ Known' \subseteq Blocks
    BY <1>1, <1>2, <2>4, IndexKept DEF diskVars
  <2>6. /\ JobInv' /\ PlaceInv' /\ TargetInv' /\ job' \in JobType
        /\ node' \in {"up", "stopping"} /\ tip' \in Blocks /\ coins' \in Blocks
        /\ job'.phase = "flush" => dirty' = {}
    BY <1>1, <1>2, Freed
  <2>7. b \in Known' /\ unlinked \subseteq Blocks
    BY <1>1, <1>2, <2>2, <2>3, EntryFields DEF Known, IndexOK, Index, TypeOK
  <2>8. /\ seq' \in [Blocks -> Nat] /\ unlinked' \subseteq Known'
        /\ chainTx' \subseteq Known' /\ candidates' \subseteq Known'
    <3>1. CASE Parent[b] \in chainTx
      <4>1. PICK L : /\ L = Linked(b)
                     /\ \E pos \in Orders(L) : seq' = Resequenced(L, pos)
                     /\ chainTx' = chainTx \cup L
                     /\ candidates' = candidates \cup {x \in L : ~WorseIn(seq', x, tip)}
                     /\ unlinked' = unlinked \ (L \ {b})
        BY <1>6, <3>1 DEF ReceivedBlockTransactions
      <4>2. L \subseteq Known'
        BY <1>2, <2>5, <2>7, <4>1 DEF Linked, SetsInv
      <4>3. seq' \in [Blocks -> Nat]
        BY <2>5, <4>1, <4>2, ResequencedType
      <4> QED BY <1>2, <2>5, <4>1, <4>2, <4>3 DEF SetsInv
    <3>2. CASE Parent[b] \notin chainTx
      <4>1. /\ chainTx' = chainTx \ {b}
            /\ unlinked' = unlinked \cup {b} \/ unlinked' = unlinked
            /\ UNCHANGED <<seq, candidates>>
        BY <1>6, <3>2 DEF ReceivedBlockTransactions
      <4> QED BY <1>2, <2>5, <2>7, <4>1 DEF SetsInv, TypeOK
    <3> QED BY <3>1, <3>2
  <2>9. SetsInv'
    BY <2>6, <2>8 DEF SetsInv
  <2>10. TypeOK'
    BY <1>1, <1>2, <1>6, <2>3, <2>5, <2>6, <2>8 DEF TypeOK, diskVars
  <2> QED BY <2>5, <2>6, <2>9, <2>10 DEF IInv, UpInv
<1> QED BY <1>1, <1>5, <1>6

(* A step that changes neither the index nor the disk.                       *)
LEMMA IndexSame ==
  ASSUME IInv, node # "down", UNCHANGED <<index, dirty, diskIndex, diskCoins>>,
         UNCHANGED <<chainTx, seq, unlinked>>, candidates' \subseteq Known,
         JobInv', PlaceInv', TargetInv', Scripted(index, tip'), Scripted(index, coins'),
         job' \in JobType, job'.phase = "flush" => dirty = {},
         pending' \in BOOLEAN, node' \in {"up", "stopping"}
  PROVE  IInv'
<1>1. TypeOK /\ IndexInv /\ SetsInv /\ DiskInv
  BY DEF IInv, UpInv
<1>2. IndexInv'
  BY <1>1 DEF IndexInv
<1>3. SetsInv' /\ DiskInv'
  BY <1>1 DEF SetsInv, DiskInv, Known
<1>4. TypeOK'
  BY <1>1 DEF TypeOK, JobInv, Known
<1> QED BY <1>2, <1>3, <1>4 DEF IInv, UpInv

LEMMA AgainAndEnterStep == IInv /\ (AcceptBlockAgain \/ EnterActivateBestChain) => IInv'
<1> SUFFICES ASSUME IInv, AcceptBlockAgain \/ EnterActivateBestChain PROVE IInv'
  OBVIOUS
<1>1. /\ Enter /\ pending' \in BOOLEAN /\ job' \in {job, [Free EXCEPT !.phase = "find", !.old = tip]}
      /\ UNCHANGED <<index, chainTx, seq, candidates, unlinked, dirty, tip, coins,
                     diskIndex, diskCoins, node>>
  BY DEF AcceptBlockAgain, EnterActivateBestChain, memVars, diskVars, IInv, TypeOK
<1>2. /\ node # "down" /\ job = Free /\ ~Moving
      /\ JobInv /\ PlaceInv /\ TargetInv /\ IndexInv /\ SetsInv /\ TypeOK
  BY <1>1, FreeFields DEF Enter, Moving, IInv, UpInv
<1>3. /\ job' \in JobType /\ job'.phase \in {"free", "find"} /\ job'.move = "none"
      /\ job'.phase = "free" => job' = Free
  BY <1>1, <1>2, FreeFields DEF JobType, JobInv
<1>4. JobInv' /\ ~Stepping'
  BY <1>1, <1>2, <1>3 DEF JobInv, Moving, Stepping, Invalidating
<1>5. PlaceInv'
  BY <1>1, <1>2, <1>3 DEF PlaceInv, Moving, OneApart
<1>6. TargetInv'
  BY <1>4 DEF TargetInv
<1>7. /\ Scripted(index, tip') /\ Scripted(index, coins') /\ candidates' \subseteq Known
      /\ node' \in {"up", "stopping"}
  BY <1>1, <1>2 DEF IndexInv, SetsInv, TypeOK
<1> QED BY <1>1, <1>2, <1>3, <1>4, <1>5, <1>6, <1>7, IndexSame

(* A step that changes entries of the index in memory.                       *)
LEMMA IndexGrown ==
  ASSUME IInv, node # "down", Grows(index', dirty'), UNCHANGED <<diskIndex, diskCoins>>,
         Scripted(index', tip'), Scripted(index', coins'),
         JobInv', PlaceInv', TargetInv', job' \in JobType,
         candidates' \subseteq Known', chainTx' \subseteq Known', unlinked' \subseteq Known',
         job'.phase = "flush" => dirty' = {}, dirty' \subseteq Blocks,
         seq' \in [Blocks -> Nat], pending' \in BOOLEAN, node' \in {"up", "stopping"}
  PROVE  IInv'
<1>1. TypeOK /\ IndexInv /\ DiskInv
  BY DEF IInv, UpInv
<1>2. IndexOK(index') /\ Copied(index', diskIndex, dirty') /\ Kept(index', diskIndex)
  BY <1>1, GrowsKeeps DEF IndexInv, DiskInv
<1>3. IndexInv' /\ SetsInv' /\ DiskInv'
  BY <1>1, <1>2 DEF IndexInv, DiskInv, SetsInv
<1>4. TypeOK'
  BY <1>1, <1>2 DEF TypeOK, JobInv, Known, IndexOK
<1> QED BY <1>3, <1>4 DEF IInv, UpInv

LEMMA FindMostWorkChainStep == IInv /\ FindMostWorkChain => IInv'
<1> SUFFICES ASSUME IInv, FindMostWorkChain PROVE IInv'
  OBVIOUS
<1>1. /\ job.phase = "find"
      /\ UNCHANGED <<chainTx, seq, dirty, tip, coins, diskIndex, diskCoins, node>>
  BY DEF FindMostWorkChain, diskVars
<1>2. /\ node # "down" /\ ~Moving /\ ~Stepping /\ job \in JobType
      /\ JobInv /\ PlaceInv /\ TargetInv /\ IndexInv /\ SetsInv /\ TypeOK
  <2>1. node # "down"
    BY <1>1, FreeFields DEF IInv
  <2> QED BY <1>1, <2>1 DEF IInv, UpInv, JobInv, Moving, Stepping, TypeOK
<1>3. CASE /\ job' = Free /\ pending' = FALSE
           /\ UNCHANGED <<index, unlinked>> /\ candidates' \subseteq candidates
  <2>1. /\ JobInv' /\ PlaceInv' /\ TargetInv' /\ job' \in JobType
        /\ node' \in {"up", "stopping"} /\ job'.phase # "flush"
    BY <1>1, <1>2, <1>3, Freed, FreeFields
  <2> QED BY <1>1, <1>2, <1>3, <2>1, IndexSame DEF IndexInv, SetsInv
<1>4. ASSUME NEW b \in candidates, \A x \in OffChain(b) : ~Unusable(x),
             job' = [job EXCEPT !.phase = "step", !.target = b], UNCHANGED pending,
             UNCHANGED <<index, candidates, unlinked>>
      PROVE  IInv'
  <2>1. b \in Known /\ b \in Blocks
    BY <1>2 DEF SetsInv, Known
  <2>2. /\ job' \in JobType /\ job'.phase = "step" /\ job'.target = b
        /\ job'.move = "none"
    BY <1>2, <1>4, <2>1 DEF JobType, Moving
  <2>3. JobInv' /\ PlaceInv'
    BY <1>1, <1>2, <2>1, <2>2 DEF JobInv, PlaceInv, Moving, Stepping, Invalidating, OneApart
  <2>4. TargetInv'
    <3>1. \A x \in Chain[b] : index[x] # Absent
      BY <1>2, <2>1, AncestorsKnown DEF IndexInv, Known
    <3> QED BY <1>1, <1>4, <2>1, <2>2, <3>1 DEF TargetInv, OffChain, Unusable
  <2> QED BY <1>1, <1>2, <1>4, <2>2, <2>3, <2>4, IndexSame DEF IndexInv, SetsInv, TypeOK
<1>5. ASSUME NEW b \in candidates, NEW m \in Blocks, NEW above, above = Chain[b] \ Chain[m],
             candidates' = candidates \ (above \cup {m}), UNCHANGED <<job, pending>>,
             \/ /\ index' = [x \in Blocks |-> IF x \in above
                              THEN [index[x] EXCEPT !.failedChild = TRUE] ELSE index[x]]
                /\ UNCHANGED unlinked
             \/ unlinked' = AddedBack(above) /\ UNCHANGED index
      PROVE  IInv'
  <2>1. above \subseteq Known /\ index \in Index
    BY <1>2, <1>5, OwnChain, AncestorsKnown DEF IndexInv, SetsInv, Known, IndexOK
  <2>2. /\ index' \in Index
        /\ \A x \in Blocks :
             \/ index'[x] = index[x]
             \/ /\ index'[x] \in Entry /\ index[x] \in Entry
                /\ index'[x].level = index[x].level /\ EntryOK(index'[x])
                /\ SameEntry(index'[x], index[x])
    <3>1. CASE UNCHANGED index
      BY <2>1, <3>1
    <3>2. CASE index' = [x \in Blocks |-> IF x \in above
                           THEN [index[x] EXCEPT !.failedChild = TRUE] ELSE index[x]]
      <4>1. ASSUME NEW x \in above
            PROVE  /\ index'[x] \in Entry /\ index[x] \in Entry
                   /\ index'[x].level = index[x].level /\ EntryOK(index'[x])
                   /\ SameEntry(index'[x], index[x])
        <5>1. x \in Blocks /\ index[x] \in Entry /\ EntryOK(index[x])
          BY <1>2, <2>1, IndexValue DEF Known, IndexInv, IndexOK
        <5>2. index'[x] = [index[x] EXCEPT !.failedChild = TRUE]
          BY <3>2, <5>1
        <5>3. /\ index'[x] \in Entry /\ EntryOK(index'[x]) /\ index'[x].level = index[x].level
              /\ index'[x].failedValid = index[x].failedValid
              /\ index'[x].data = index[x].data /\ index'[x].undo = index[x].undo
              /\ index'[x].nTx = index[x].nTx
          BY <5>1, <5>2, InvalidChildEntry
        <5> QED BY <5>1, <5>3, SameFields
      <4>2. \A x \in Blocks \ above : index'[x] = index[x]
        BY <3>2
      <4>3. index' \in Index
        <5>1. \A x \in Blocks : index'[x] \in Entry \cup {Absent}
          BY <2>1, <4>1, <4>2, IndexValue
        <5> QED BY <3>2, <5>1 DEF Index
      <4> QED BY <4>1, <4>2, <4>3
    <3> QED BY <1>5, <3>1, <3>2
  <2>3. Grows(index', dirty')
    BY <1>1, <1>2, <2>2, ManyEntries DEF IndexInv
  <2>4. /\ IndexInv' /\ Known \subseteq Known'
    BY <1>1, <1>2, <2>3, IndexKept
  <2>5. JobInv' /\ PlaceInv' /\ TargetInv'
    BY <1>1, <1>2, <1>5
      DEF JobInv, PlaceInv, TargetInv, Moving, Stepping, Invalidating, OneApart
  <2>6. unlinked' \subseteq Known'
    BY <1>2, <1>5, <2>1, <2>4 DEF SetsInv, AddedBack
  <2> QED BY <1>1, <1>2, <1>5, <2>3, <2>4, <2>5, <2>6, IndexGrown
          DEF IndexInv, SetsInv, TypeOK
<1>6. \/ candidates = {} /\ job' = Free /\ pending' = FALSE
         /\ UNCHANGED <<index, candidates, unlinked>>
      \/ \E b \in candidates :
           /\ \A x \in OffChain(b) : ~Unusable(x)
           /\ IF b = tip THEN job' = Free /\ pending' = FALSE
              ELSE job' = [job EXCEPT !.phase = "step", !.target = b] /\ UNCHANGED pending
           /\ UNCHANGED <<index, candidates, unlinked>>
      \/ \E b \in candidates, m \in Blocks :
           /\ LET above == Chain[b] \ Chain[m] IN
                /\ candidates' = candidates \ (above \cup {m})
                /\ IF FailedChain(m)
                   THEN /\ index' = [x \in Blocks |-> IF x \in above
                                  THEN [index[x] EXCEPT !.failedChild = TRUE] ELSE index[x]]
                        /\ UNCHANGED unlinked
                   ELSE /\ unlinked' = AddedBack(above)
                        /\ UNCHANGED index
           /\ UNCHANGED <<job, pending>>
  BY Zenon DEF FindMostWorkChain
<1> QED
  <2>1. CASE candidates = {} /\ job' = Free /\ pending' = FALSE
             /\ UNCHANGED <<index, candidates, unlinked>>
    BY <1>3, <2>1
  <2>2. ASSUME NEW b \in candidates,
               /\ \A x \in OffChain(b) : ~Unusable(x)
               /\ IF b = tip THEN job' = Free /\ pending' = FALSE
                  ELSE job' = [job EXCEPT !.phase = "step", !.target = b] /\ UNCHANGED pending
               /\ UNCHANGED <<index, candidates, unlinked>>
        PROVE  IInv'
    <3>1. CASE b = tip
      BY <1>3, <2>2, <3>1
    <3>2. CASE b # tip
      BY <1>4, <2>2, <3>2
    <3> QED BY <3>1, <3>2
  <2>3. ASSUME NEW b \in candidates, NEW m \in Blocks,
               LET above == Chain[b] \ Chain[m] IN
                /\ candidates' = candidates \ (above \cup {m})
                /\ IF FailedChain(m)
                   THEN /\ index' = [x \in Blocks |-> IF x \in above
                                  THEN [index[x] EXCEPT !.failedChild = TRUE] ELSE index[x]]
                        /\ UNCHANGED unlinked
                   ELSE /\ unlinked' = AddedBack(above)
                        /\ UNCHANGED index,
               UNCHANGED <<job, pending>>
        PROVE  IInv'
    BY <1>5, <2>3, Zenon
  <2> QED BY <1>6, <2>1, <2>2, <2>3

LEMMA GrowsSelf == ASSUME IndexOK(index) PROVE Grows(index, dirty)
  BY ManyEntries DEF IndexOK

(* A chain loses its tip: what was connected is what remains, and one block. *)
LEMMA ParentScripted ==
  ASSUME NEW idx, NEW b \in Blocks \ {Genesis}
  PROVE  /\ Scripted(idx, b) => Scripted(idx, Parent[b])
         /\ Scripted(idx, Parent[b]) /\ idx[b].level = SCRIPTS => Scripted(idx, b)
  BY ParentOf DEF Scripted

(* DisconnectTip of a tip that is not the genesis block.                     *)
LEMMA DisconnectTipStep ==
  ASSUME IInv, node # "down", ~Moving, tip # Genesis,
         NEW move \in {"disconnect", "invalidate"},
         move = "disconnect" => job.phase = "step" /\ tip \notin Chain[job.target],
         move = "invalidate" => job.phase = "invalidate" /\ job.target \in Chain[tip],
         DisconnectTip(move), UNCHANGED <<tip, diskIndex, diskCoins>>,
         Grows(index', dirty'), move = "disconnect" => index' = index,
         candidates' \subseteq Known', chainTx' \subseteq Known', unlinked' \subseteq Known',
         dirty' \subseteq Blocks, seq' \in [Blocks -> Nat]
  PROVE  IInv'
<1>1. /\ JobInv /\ PlaceInv /\ TargetInv /\ IndexInv /\ SetsInv /\ TypeOK /\ DiskInv
      /\ tip \in Blocks /\ coins \in Blocks /\ job \in JobType
  BY DEF IInv, UpInv, JobInv, TypeOK
<1>2. \A c \in Blocks : Scripted(index, c) => Scripted(index', c)
  BY <1>1, GrowsKeeps DEF IndexInv, DiskInv
<1>3. CASE /\ ViewIsAt(tip) /\ coins' = Parent[tip]
           /\ job' = [job EXCEPT !.phase = "update", !.move = move]
           /\ UNCHANGED <<pending, node>>
  <2>1. /\ job' \in JobType /\ job'.phase = "update" /\ job'.move = move
        /\ job'.target = job.target
    BY <1>1, <1>3 DEF JobType
  <2>2. Parent[tip] \in Blocks /\ coins = tip
    BY <1>1, <1>3, ParentOf DEF ViewIsAt
  <2>3. JobInv'
    BY <1>1, <1>3, <2>1, <2>2 DEF JobInv, Moving, Stepping, Invalidating
  <2>4. PlaceInv'
    BY <1>1, <1>3, <2>1, <2>2 DEF PlaceInv, Moving
  <2>5. TargetInv'
    BY <1>1, <2>1 DEF TargetInv, Stepping, OffChain
  <2>6. Scripted(index', tip') /\ Scripted(index', coins')
    BY <1>1, <1>2, <1>3, <2>2, ParentScripted DEF IndexInv
  <2> QED BY <1>1, <1>3, <2>1, <2>3, <2>4, <2>5, <2>6, IndexGrown DEF TypeOK
<1>4. CASE AbortNode /\ UNCHANGED coins
  <2>1. /\ JobInv' /\ PlaceInv' /\ TargetInv' /\ job' \in JobType /\ job'.phase # "flush"
        /\ node' \in {"up", "stopping"} /\ pending' \in BOOLEAN
    BY <1>1, <1>4, Freed, FreeFields DEF AbortNode, TypeOK
  <2>2. Scripted(index', tip') /\ Scripted(index', coins')
    BY <1>1, <1>2, <1>4 DEF IndexInv
  <2> QED BY <2>1, <2>2, IndexGrown
<1>5. CASE job' = Free /\ pending' = (move = "invalidate") /\ UNCHANGED <<coins, node>>
  <2>1. /\ JobInv' /\ PlaceInv' /\ TargetInv' /\ job' \in JobType /\ job'.phase # "flush"
        /\ node' \in {"up", "stopping"} /\ pending' \in BOOLEAN
    BY <1>1, <1>5, Freed, FreeFields
  <2>2. Scripted(index', tip') /\ Scripted(index', coins')
    BY <1>1, <1>2, <1>5 DEF IndexInv
  <2> QED BY <2>1, <2>2, IndexGrown
<1> QED BY <1>3, <1>4, <1>5 DEF DisconnectTip

LEMMA StepDisconnectStep == IInv /\ StepDisconnect => IInv'
<1> SUFFICES ASSUME IInv, StepDisconnect PROVE IInv'
  OBVIOUS
<1>1. /\ job.phase = "step" /\ tip \notin Chain[job.target] /\ DisconnectTip("disconnect")
      /\ UNCHANGED <<index, chainTx, seq, candidates, unlinked, dirty, tip, diskIndex, diskCoins>>
  BY DEF StepDisconnect, memVars, diskVars
<1>2. /\ node # "down" /\ ~Moving /\ job.target \in Blocks
      /\ IndexOK(index) /\ SetsInv /\ TypeOK
  <2>1. node # "down"
    BY <1>1, FreeFields DEF IInv
  <2> QED BY <1>1, <2>1 DEF IInv, UpInv, JobInv, Stepping, IndexInv
<1>3. tip # Genesis
  BY <1>1, <1>2, GenesisInChain
<1>4. Grows(index', dirty') /\ index' = index
  BY <1>1, <1>2, GrowsSelf
<1>5. /\ candidates' \subseteq Known' /\ chainTx' \subseteq Known' /\ unlinked' \subseteq Known'
      /\ dirty' \subseteq Blocks /\ seq' \in [Blocks -> Nat]
  BY <1>1, <1>2 DEF SetsInv, TypeOK, Known
<1> QED BY <1>1, <1>2, <1>3, <1>4, <1>5, DisconnectTipStep

LEMMA InvalidateTipStep == IInv /\ InvalidateTip => IInv'
<1> SUFFICES ASSUME IInv, InvalidateTip PROVE IInv'
  OBVIOUS
<1>1. /\ job.phase = "invalidate" /\ job.target \in Chain[tip]
      /\ index' = [index EXCEPT ![tip].failedChild = TRUE]
      /\ dirty' = dirty \cup {tip} /\ candidates' = candidates \ {tip}
      /\ DisconnectTip("invalidate")
      /\ UNCHANGED <<chainTx, seq, unlinked, tip, diskIndex, diskCoins>>
  BY DEF InvalidateTip, diskVars
<1>2. /\ node # "down" /\ ~Moving /\ job.target \in Blocks \ {Genesis}
      /\ IndexOK(index) /\ SetsInv /\ TypeOK /\ tip \in Blocks /\ Scripted(index, tip)
  <2>1. node # "down"
    BY <1>1, FreeFields DEF IInv
  <2> QED BY <1>1, <2>1 DEF IInv, UpInv, JobInv, Invalidating, IndexInv
<1>3. tip # Genesis
  BY <1>1, <1>2, ChainStateAssumption
<1>4. Grows(index', dirty')
  <2>1. index[tip] \in Entry /\ EntryOK(index[tip]) /\ index[tip] # Absent
    <3>1. index[tip].level = SCRIPTS /\ index \in Index
      BY <1>2, <1>3, OwnChain DEF Scripted, IndexOK
    <3> QED BY <1>2, <3>1, IndexValue DEF SCRIPTS, IndexOK
  <2>2. PICK r : r = [index[tip] EXCEPT !.failedChild = TRUE]
    OBVIOUS
  <2>3. r \in Entry /\ EntryOK(r) /\ r.level = index[tip].level /\ r.level \in {2, 3, 5}
    BY <2>1, <2>2, InvalidChildEntry, EntryFields
  <2>4. index' = [index EXCEPT ![tip] = r]
    BY <1>1, <2>2, Zenon
  <2>5. r.level >= index[tip].level /\ dirty' = dirty \cup {tip}
    BY <1>1, <2>3
  <2> QED BY <1>2, <2>1, <2>3, <2>4, <2>5, OneEntry
<1>5. /\ candidates' \subseteq Known' /\ chainTx' \subseteq Known' /\ unlinked' \subseteq Known'
      /\ dirty' \subseteq Blocks /\ seq' \in [Blocks -> Nat]
  BY <1>1, <1>2, <1>4 DEF SetsInv, TypeOK, Known, Grows
<1> QED BY <1>1, <1>2, <1>3, <1>4, <1>5, DisconnectTipStep

(* In a step of ActivateBestChainStep the process is up and the target known. *)
LEMMA InStep ==
  ASSUME IInv, job.phase = "step"
  PROVE  /\ node # "down" /\ ~Moving /\ Stepping /\ job.target \in Blocks /\ job \in JobType
         /\ JobInv /\ PlaceInv /\ TargetInv /\ IndexInv /\ SetsInv /\ TypeOK /\ DiskInv
         /\ tip \in Blocks /\ coins \in Blocks
<1>1. node # "down"
  BY FreeFields DEF IInv
<1> QED BY <1>1 DEF IInv, UpInv, JobInv, Stepping, TypeOK

LEMMA ConnectTipStep == IInv /\ ConnectTip => IInv'
<1> SUFFICES ASSUME IInv, ConnectTip PROVE IInv'
  OBVIOUS
<1>1. PICK b \in Blocks :
        /\ job.phase = "step" /\ NextBlock(b) /\ index[b].data /\ ViewIsAt(tip)
        /\ IF index[b].undo /\ IsValid(index[b], SCRIPTS)
           THEN UNCHANGED <<index, dirty>>
           ELSE /\ index' = [index EXCEPT ![b] = RaiseValidity([@ EXCEPT !.undo = TRUE], SCRIPTS)]
                /\ dirty' = dirty \cup {b}
        /\ coins' = b
        /\ job' = [job EXCEPT !.phase = "update", !.move = "connect"]
        /\ UNCHANGED <<chainTx, seq, candidates, unlinked, tip, diskIndex, diskCoins, pending, node>>
  BY DEF ConnectTip, diskVars
<1>2. /\ node # "down" /\ ~Moving /\ Stepping /\ job.target \in Blocks /\ job \in JobType
      /\ JobInv /\ PlaceInv /\ TargetInv /\ IndexInv /\ SetsInv /\ TypeOK /\ DiskInv
      /\ tip \in Blocks /\ coins \in Blocks
  BY <1>1, InStep
<1>3. /\ b \in OffChain(job.target) /\ Parent[b] = tip /\ b # Genesis /\ coins = tip
      /\ index[b] \in Entry /\ EntryOK(index[b]) /\ ~Failed(index[b])
  <2>1. b \in OffChain(job.target) /\ Parent[b] = tip /\ coins = tip
    BY <1>1 DEF NextBlock, ViewIsAt
  <2>2. index[b] # Absent /\ ~Failed(index[b])
    BY <1>2, <2>1 DEF TargetInv
  <2>3. b # Genesis
    BY <1>2, <2>1, ChainStateAssumption
  <2> QED BY <1>2, <2>1, <2>2, <2>3, IndexValue DEF IndexInv, IndexOK
<1>4. /\ Grows(index', dirty') /\ dirty' \subseteq Blocks
      /\ index'[b] # Absent /\ index'[b].level = SCRIPTS /\ ~Failed(index'[b])
      /\ \A x \in Blocks \ {b} : index'[x] = index[x]
  <2>1. CASE index[b].undo /\ IsValid(index[b], SCRIPTS)
    <3>1. UNCHANGED <<index, dirty>>
      BY <1>1, <2>1
    <3>2. index[b].level = SCRIPTS
      BY <1>3, <2>1, EntryFields DEF IsValid, SCRIPTS
    <3>3. Grows(index', dirty')
      BY <1>2, <3>1, GrowsSelf DEF IndexInv
    <3> QED BY <1>2, <1>3, <3>1, <3>2, <3>3, EntryFields DEF TypeOK
  <2>2. CASE ~(index[b].undo /\ IsValid(index[b], SCRIPTS))
    <3>1. /\ index' = [index EXCEPT ![b] = RaiseValidity([@ EXCEPT !.undo = TRUE], SCRIPTS)]
          /\ dirty' = dirty \cup {b}
      BY <1>1, <2>2
    <3>2. PICK r : r = RaiseValidity([index[b] EXCEPT !.undo = TRUE], SCRIPTS)
      OBVIOUS
    <3>3. r \in Entry /\ EntryOK(r) /\ ~Failed(r) /\ r.level = SCRIPTS
      BY <1>1, <1>3, <3>2, ConnectedEntry
    <3>4. index' = [index EXCEPT ![b] = r]
      BY <3>1, <3>2, Zenon
    <3>5. index[b].level \in {2, 3, 5} /\ index[b] # Absent
      BY <1>3, EntryFields
    <3>6. r.level >= index[b].level
      BY <3>3, <3>5 DEF SCRIPTS
    <3>7. Scripted(index, Parent[b])
      BY <1>2, <1>3 DEF IndexInv
    <3>8. Grows(index', dirty')
      BY <1>2, <1>3, <3>1, <3>3, <3>4, <3>5, <3>6, <3>7, OneEntry DEF IndexInv
    <3>9. index'[b] = r /\ \A x \in Blocks \ {b} : index'[x] = index[x]
      BY <1>2, <3>4 DEF IndexInv, IndexOK, Index
    <3>10. dirty' \subseteq Blocks
      BY <1>2, <3>1 DEF TypeOK
    <3> QED BY <3>3, <3>8, <3>9, <3>10, EntryFields
  <2> QED BY <2>1, <2>2
<1>5. /\ IndexOK(index')
      /\ \A c \in Blocks : Scripted(index, c) => Scripted(index', c)
      /\ \A x \in Known : index'[x] # Absent
  BY <1>2, <1>4, GrowsKeeps DEF IndexInv, DiskInv
<1>6. Scripted(index', tip') /\ Scripted(index', coins')
  BY <1>1, <1>2, <1>3, <1>4, <1>5, ParentScripted DEF IndexInv
<1>7. /\ job' \in JobType /\ job'.phase = "update" /\ job'.move = "connect"
      /\ job'.target = job.target
  BY <1>1, <1>2 DEF JobType
<1>8. JobInv' /\ PlaceInv'
  BY <1>1, <1>2, <1>3, <1>7 DEF JobInv, PlaceInv, Moving, Stepping, Invalidating, OffChain
<1>9. TargetInv'
  BY <1>1, <1>2, <1>3, <1>4, <1>7, OwnChain DEF TargetInv, OffChain
<1>10. /\ candidates' \subseteq Known' /\ chainTx' \subseteq Known' /\ unlinked' \subseteq Known'
       /\ seq' \in [Blocks -> Nat] /\ pending' \in BOOLEAN /\ node' \in {"up", "stopping"}
  BY <1>1, <1>2, <1>5 DEF SetsInv, TypeOK, Known
<1>11. UNCHANGED <<diskIndex, diskCoins>> /\ job'.phase # "flush"
  BY <1>1, <1>7
<1> QED BY <1>2, <1>4, <1>6, <1>7, <1>8, <1>9, <1>10, <1>11, IndexGrown

LEMMA MarkInvalid ==
  ASSUME IndexOK(index), NEW b \in Known,
         index' = [index EXCEPT ![b].failedValid = TRUE], dirty' = dirty \cup {b}
  PROVE  Grows(index', dirty')
<1>1. b \in Blocks /\ index[b] \in Entry /\ EntryOK(index[b]) /\ index[b] # Absent
  BY IndexValue DEF Known, IndexOK
<1>2. PICK r : r = [index[b] EXCEPT !.failedValid = TRUE]
  OBVIOUS
<1>3. r \in Entry /\ EntryOK(r) /\ r.level = index[b].level /\ r.level \in {2, 3, 5}
  BY <1>1, <1>2, InvalidEntry, EntryFields
<1>4. index' = [index EXCEPT ![b] = r]
  BY <1>2, Zenon
<1>5. r.level >= index[b].level
  BY <1>3
<1>6. Grows([index EXCEPT ![b] = r], dirty \cup {b})
  BY <1>1, <1>3, <1>5, OneEntry
<1> QED BY <1>4, <1>6, Zenon

LEMMA InvalidBlockFoundStep == IInv /\ InvalidBlockFound => IInv'
<1> SUFFICES ASSUME IInv, InvalidBlockFound PROVE IInv'
  OBVIOUS
<1>1. PICK b \in Blocks :
        /\ job.phase = "step" /\ NextBlock(b)
        /\ index' = [index EXCEPT ![b].failedValid = TRUE]
        /\ dirty' = dirty \cup {b} /\ candidates' = candidates \ {b}
        /\ job' = Free /\ pending' = (tip # job.target)
        /\ UNCHANGED <<chainTx, seq, unlinked, tip, coins, diskIndex, diskCoins, node>>
  BY DEF InvalidBlockFound, Leave, diskVars
<1>2. /\ node # "down" /\ ~Moving /\ Stepping
      /\ TargetInv /\ IndexInv /\ SetsInv /\ TypeOK
  BY <1>1, InStep
<1>3. b \in Known
  BY <1>1, <1>2 DEF NextBlock, TargetInv, Known
<1>4. Grows(index', dirty')
  BY <1>1, <1>2, <1>3, MarkInvalid DEF IndexInv
<1>5. IndexInv' /\ Known \subseteq Known'
  BY <1>1, <1>2, <1>4, IndexKept
<1>6. /\ JobInv' /\ PlaceInv' /\ TargetInv' /\ job' \in JobType
      /\ node' \in {"up", "stopping"} /\ job'.phase # "flush" /\ pending' \in BOOLEAN
  BY <1>1, <1>2, Freed, FreeFields
<1>7. /\ candidates' \subseteq Known' /\ chainTx' \subseteq Known' /\ unlinked' \subseteq Known'
      /\ dirty' \subseteq Blocks /\ seq' \in [Blocks -> Nat]
  BY <1>1, <1>2, <1>5 DEF SetsInv, TypeOK
<1>8. Scripted(index', tip') /\ Scripted(index', coins') /\ UNCHANGED <<diskIndex, diskCoins>>
  BY <1>1, <1>5 DEF IndexInv
<1> QED BY <1>2, <1>4, <1>6, <1>7, <1>8, IndexGrown

LEMMA FailedToReadStep == IInv /\ FailedToRead => IInv'
<1> SUFFICES ASSUME IInv, FailedToRead PROVE IInv'
  OBVIOUS
<1>1. /\ job.phase = "step" /\ AbortNode
      /\ UNCHANGED <<index, chainTx, seq, candidates, unlinked, dirty, tip, coins,
                     diskIndex, diskCoins>>
  BY DEF FailedToRead, memVars, diskVars
<1>2. node # "down" /\ IndexInv /\ SetsInv /\ TypeOK
  BY <1>1, InStep
<1>3. /\ JobInv' /\ PlaceInv' /\ TargetInv' /\ job' \in JobType /\ job'.phase # "flush"
      /\ node' \in {"up", "stopping"} /\ pending' \in BOOLEAN
  BY <1>1, <1>2, Freed, FreeFields DEF AbortNode, TypeOK
<1> QED BY <1>1, <1>2, <1>3, IndexSame DEF IndexInv, SetsInv

(* While the process holds cs_main it is up.                                 *)
LEMMA InJob ==
  ASSUME IInv, job.phase # "free"
  PROVE  /\ node # "down" /\ job \in JobType
         /\ JobInv /\ PlaceInv /\ TargetInv /\ IndexInv /\ SetsInv /\ TypeOK /\ DiskInv
         /\ tip \in Blocks /\ coins \in Blocks
<1>1. node # "down"
  BY FreeFields DEF IInv
<1> QED BY <1>1 DEF IInv, UpInv, JobInv, TypeOK

LEMMA UpdateTipStep == IInv /\ UpdateTip => IInv'
<1> SUFFICES ASSUME IInv, UpdateTip PROVE IInv'
  OBVIOUS
<1>1. /\ job.phase = "update" /\ tip' = coins
      /\ UNCHANGED <<index, chainTx, seq, unlinked, dirty, coins, diskIndex, diskCoins, node>>
  BY DEF UpdateTip, diskVars
<1>2. /\ node # "down" /\ job \in JobType
      /\ JobInv /\ PlaceInv /\ TargetInv /\ IndexInv /\ SetsInv /\ TypeOK
      /\ tip \in Blocks /\ coins \in Blocks
  BY <1>1, InJob
<1>3. /\ candidates' \subseteq Known /\ pending' \in BOOLEAN
      /\ \/ job' = Free
         \/ job.move = "invalidate" /\ job' = [job EXCEPT !.phase = "invalidate", !.move = "none"]
         \/ job.move # "invalidate" /\ job' = [job EXCEPT !.phase = "step", !.move = "none"]
  <2>1. CASE job.move = "connect"
    BY <1>2, <2>1 DEF UpdateTip, Leave, NotWorse, SetsInv, TypeOK
  <2>2. CASE job.move = "disconnect"
    BY <1>2, <2>2 DEF UpdateTip, SetsInv, TypeOK
  <2>3. CASE job.move = "invalidate"
    BY <1>2, <2>3 DEF UpdateTip, SetsInv, TypeOK
  <2> QED BY <1>1, <1>2, <2>1, <2>2, <2>3 DEF JobType, JobInv, Moving
<1>4. /\ Scripted(index, tip') /\ Scripted(index, coins') /\ node' \in {"up", "stopping"}
      /\ tip' \in Blocks /\ coins' = tip'
  BY <1>1, <1>2 DEF IndexInv, TypeOK
<1>5. CASE job' = Free
  <2>1. JobInv' /\ PlaceInv' /\ TargetInv' /\ job' \in JobType /\ job'.phase # "flush"
    BY <1>4, <1>5, FreeFields
       DEF JobInv, PlaceInv, TargetInv, Moving, Stepping, Invalidating, OneApart
  <2> QED BY <1>1, <1>2, <1>3, <1>4, <2>1, IndexSame
<1>6. CASE job.move = "invalidate" /\ job' = [job EXCEPT !.phase = "invalidate", !.move = "none"]
  <2>1. /\ job' \in JobType /\ job'.phase = "invalidate" /\ job'.move = "none"
        /\ job'.target = job.target
    BY <1>2, <1>6 DEF JobType
  <2>2. JobInv' /\ PlaceInv' /\ TargetInv'
    BY <1>2, <1>4, <1>6, <2>1
       DEF JobInv, PlaceInv, TargetInv, Moving, Stepping, Invalidating, OneApart
  <2> QED BY <1>1, <1>2, <1>3, <1>4, <2>1, <2>2, IndexSame
<1>7. CASE job.move # "invalidate" /\ job' = [job EXCEPT !.phase = "step", !.move = "none"]
  <2>1. /\ job' \in JobType /\ job'.phase = "step" /\ job'.move = "none"
        /\ job'.target = job.target /\ job.move \in {"connect", "disconnect"}
    BY <1>1, <1>2, <1>7 DEF JobType, JobInv, Moving
  <2>2. JobInv' /\ PlaceInv'
    BY <1>2, <1>4, <2>1
       DEF JobInv, PlaceInv, Moving, Stepping, Invalidating, OneApart
  <2>3. Chain[job.target] \ Chain[coins] \subseteq OffChain(job.target)
    <3>1. job.target \in Blocks
      BY <1>2, <2>1 DEF JobInv, Stepping
    <3>2. CASE job.move = "connect"
      <4>1. coins # Genesis /\ Parent[coins] = tip
        BY <1>2, <3>2, ChainStateAssumption DEF PlaceInv
      <4> QED BY <1>2, <4>1, ParentOf DEF OffChain
    <3>3. CASE job.move = "disconnect"
      <4>1. tip # Genesis /\ Parent[tip] = coins /\ tip \notin Chain[job.target]
        BY <1>2, <3>1, <3>3, GenesisInChain DEF PlaceInv
      <4> QED BY <1>2, <4>1, ParentOf DEF OffChain
    <3> QED BY <2>1, <3>2, <3>3
  <2>4. TargetInv'
    BY <1>1, <1>2, <2>1, <2>3 DEF TargetInv, OffChain, Stepping
  <2> QED BY <1>1, <1>2, <1>3, <1>4, <2>1, <2>2, <2>4, IndexSame
<1> QED BY <1>3, <1>5, <1>6, <1>7

LEMMA InvalidateBlockStep == IInv /\ InvalidateBlock => IInv'
<1> SUFFICES ASSUME IInv, InvalidateBlock PROVE IInv'
  OBVIOUS
<1>1. PICK b \in Known \ {Genesis} :
        /\ Enter
        /\ index' = [index EXCEPT ![b].failedValid = TRUE]
        /\ dirty' = dirty \cup {b} /\ candidates' = candidates \ {b}
        /\ job' = [Free EXCEPT !.phase = "invalidate", !.target = b]
        /\ UNCHANGED <<chainTx, seq, unlinked, tip, coins, diskIndex, diskCoins, pending, node>>
  BY DEF InvalidateBlock, diskVars
<1>2. /\ node # "down" /\ job = Free /\ ~Moving /\ b \in Blocks
      /\ JobInv /\ PlaceInv /\ IndexInv /\ SetsInv /\ TypeOK
  BY <1>1, FreeFields DEF Enter, Moving, IInv, UpInv, Known
<1>3. Grows(index', dirty')
  <2>1. index' = [index EXCEPT ![b].failedValid = TRUE] /\ dirty' = dirty \cup {b}
    BY <1>1, Zenon
  <2> QED BY <1>2, <2>1, MarkInvalid, Zenon DEF IndexInv
<1>4. IndexInv' /\ Known \subseteq Known'
  BY <1>1, <1>2, <1>3, IndexKept
<1>5. /\ job' \in JobType /\ job'.phase = "invalidate" /\ job'.target = b
      /\ job'.move = "none"
  BY <1>1, <1>2, FreeFields DEF JobType
<1>6. JobInv' /\ ~Stepping'
  BY <1>1, <1>2, <1>5 DEF JobInv, Moving, Stepping, Invalidating
<1>7. PlaceInv' /\ TargetInv'
  BY <1>1, <1>2, <1>5, <1>6 DEF PlaceInv, TargetInv, Moving, OneApart
<1>8. /\ candidates' \subseteq Known' /\ chainTx' \subseteq Known' /\ unlinked' \subseteq Known'
      /\ dirty' \subseteq Blocks /\ seq' \in [Blocks -> Nat] /\ pending' \in BOOLEAN
      /\ node' \in {"up", "stopping"}
  BY <1>1, <1>2, <1>4 DEF SetsInv, TypeOK
<1>9. Scripted(index', tip') /\ Scripted(index', coins') /\ UNCHANGED <<diskIndex, diskCoins>>
  BY <1>1, <1>4 DEF IndexInv
<1> QED BY <1>2, <1>3, <1>5, <1>6, <1>7, <1>8, <1>9, IndexGrown

LEMMA InvalidateDoneStep == IInv /\ InvalidateDone => IInv'
<1> SUFFICES ASSUME IInv, InvalidateDone PROVE IInv'
  OBVIOUS
<1>1. /\ job.phase = "invalidate" /\ job' = Free /\ pending' = TRUE
      /\ candidates' = candidates \cup NotWorse(Linkable(index), tip)
      /\ UNCHANGED <<index, chainTx, seq, unlinked, dirty, tip, coins, diskIndex, diskCoins, node>>
  BY DEF InvalidateDone, diskVars
<1>2. node # "down" /\ IndexInv /\ SetsInv /\ TypeOK /\ ~Moving
  BY <1>1, InJob DEF JobInv
<1>3. /\ JobInv' /\ PlaceInv' /\ TargetInv' /\ job' \in JobType /\ job'.phase # "flush"
      /\ node' \in {"up", "stopping"}
  BY <1>1, <1>2, Freed, FreeFields
<1>4. candidates' \subseteq Known
  BY <1>1, <1>2 DEF SetsInv, NotWorse, Linkable
<1> QED BY <1>1, <1>2, <1>3, <1>4, IndexSame DEF IndexInv

LEMMA ReconsiderBlockStep == IInv /\ ReconsiderBlock => IInv'
<1> SUFFICES ASSUME IInv, ReconsiderBlock PROVE IInv'
  OBVIOUS
<1> PICK b \in Known :
      LET below == {x \in Known : b \in Chain[x] /\ ~IsValid(index[x], TRANSACTIONS)}
          above == {x \in Chain[b] : Failed(index[x])}
          cleared == [x \in Blocks |-> IF x \in below \cup above
                        THEN [index[x] EXCEPT !.failedValid = FALSE, !.failedChild = FALSE]
                        ELSE index[x]]
      IN
      /\ Enter
      /\ index' = cleared
      /\ dirty' = dirty \cup below \cup above
      /\ candidates' = candidates \cup Better(below \cap Linkable(cleared))
      /\ pending' = TRUE
      /\ UNCHANGED <<chainTx, seq, unlinked, tip, coins, diskVars, job, node>>
  BY DEF ReconsiderBlock
<1> DEFINE below == {x \in Known : b \in Chain[x] /\ ~IsValid(index[x], TRANSACTIONS)}
           above == {x \in Chain[b] : Failed(index[x])}
<1>1. /\ Enter
      /\ index' = [x \in Blocks |-> IF x \in below \cup above
                     THEN [index[x] EXCEPT !.failedValid = FALSE, !.failedChild = FALSE]
                     ELSE index[x]]
      /\ dirty' = dirty \cup below \cup above
      /\ candidates' = candidates \cup Better(below \cap Linkable(index'))
      /\ pending' = TRUE
      /\ UNCHANGED <<chainTx, seq, unlinked, tip, coins, diskIndex, diskCoins, job, node>>
  BY Zenon DEF diskVars
<1>2. /\ node # "down" /\ job = Free /\ ~Moving /\ IndexInv /\ IndexOK(index) /\ SetsInv
      /\ TypeOK
  BY <1>1, FreeFields DEF Enter, Moving, IInv, UpInv, IndexInv
<1>3. below \cup above \subseteq Known
  BY <1>2, AncestorsKnown, OwnChain DEF Known
<1> HIDE DEF below, above
<1>4. ASSUME NEW x \in below \cup above
      PROVE  /\ index'[x] \in Entry /\ index[x] \in Entry
             /\ index'[x].level = index[x].level /\ EntryOK(index'[x])
  <2>1. x \in Blocks /\ index[x] \in Entry /\ EntryOK(index[x])
    BY <1>2, <1>3, IndexValue DEF Known, IndexOK
  <2>2. index'[x] = [index[x] EXCEPT !.failedValid = FALSE, !.failedChild = FALSE]
    BY <1>1, <2>1
  <2> QED BY <2>1, <2>2, ClearedEntry
<1>5. \A x \in Blocks \ (below \cup above) : index'[x] = index[x]
  BY <1>1
<1>6. index' \in Index
  <2>1. \A x \in Blocks : index'[x] \in Entry \cup {Absent}
    BY <1>2, <1>4, <1>5, IndexValue DEF IndexOK
  <2> QED BY <1>1, <2>1 DEF Index
<1>7. Grows(index', dirty')
  <2>1. dirty \subseteq dirty' /\ below \cup above \subseteq dirty'
    BY <1>1
  <2> QED BY <1>2, <1>4, <1>5, <1>6, <2>1, ManyEntries
<1>8. IndexInv' /\ Known \subseteq Known'
  BY <1>1, <1>2, <1>7, IndexKept
<1>9. /\ JobInv' /\ PlaceInv' /\ TargetInv' /\ job' \in JobType
      /\ node' \in {"up", "stopping"} /\ job'.phase # "flush"
  BY <1>1, <1>2, Freed, FreeFields
<1>10. /\ candidates' \subseteq Known' /\ chainTx' \subseteq Known' /\ unlinked' \subseteq Known'
       /\ dirty' \subseteq Blocks /\ seq' \in [Blocks -> Nat] /\ pending' \in BOOLEAN
  BY <1>1, <1>2, <1>3, <1>8 DEF SetsInv, TypeOK, Better, Known
<1>11. Scripted(index', tip') /\ Scripted(index', coins') /\ UNCHANGED <<diskIndex, diskCoins>>
  BY <1>1, <1>8 DEF IndexInv
<1> QED BY <1>2, <1>7, <1>9, <1>10, <1>11, IndexGrown

(* Block files are deleted: S are the blocks in them.                        *)
LEMMA PruneGrows ==
  ASSUME IndexOK(index), NEW S \in SUBSET Prunable
  PROVE  Grows(PruneOneBlockFile(S), dirty \cup S) /\ S \subseteq Known
<1> DEFINE new == PruneOneBlockFile(S)
<1>1. S \subseteq Known
  BY DEF Prunable
<1>2. ASSUME NEW x \in S
      PROVE  /\ new[x] \in Entry /\ index[x] \in Entry
             /\ new[x].level = index[x].level /\ EntryOK(new[x])
  <2>1. x \in Blocks /\ index[x] \in Entry /\ EntryOK(index[x])
    BY <1>1, IndexValue DEF Known, IndexOK
  <2>2. new[x] = [index[x] EXCEPT !.data = FALSE, !.undo = FALSE]
    BY <2>1 DEF PruneOneBlockFile
  <2> QED BY <2>1, <2>2, PrunedEntry
<1>3. \A x \in Blocks \ S : new[x] = index[x]
  BY DEF PruneOneBlockFile
<1>4. new \in Index
  <2>1. \A x \in Blocks : new[x] \in Entry \cup {Absent}
    BY <1>2, <1>3, IndexValue DEF IndexOK
  <2> QED BY <2>1 DEF Index, PruneOneBlockFile
<1> HIDE DEF new
<1>5. Grows(new, dirty \cup S)
  BY <1>2, <1>3, <1>4, ManyEntries
<1> QED BY <1>1, <1>5 DEF new

(* The entries in d are written: the index on disk is then the one in memory, *)
(* and what was connected on disk still is.                                  *)
LEMMA BatchWritten ==
  ASSUME IndexOK(diskIndex), NEW idx, NEW d, IndexOK(idx), Copied(idx, diskIndex, d),
         Kept(idx, diskIndex),
         NEW w, w = [b \in Blocks |-> IF b \in d THEN idx[b] ELSE diskIndex[b]]
  PROVE  /\ IndexOK(w) /\ Copied(idx, w, {}) /\ Kept(idx, w)
         /\ \A c \in Blocks : Scripted(idx, c) \/ Scripted(diskIndex, c) => Scripted(w, c)
<1>1. idx \in Index /\ diskIndex \in Index
  BY DEF IndexOK
<1>2. w \in Index
  BY <1>1 DEF Index
<1>3. ASSUME NEW b \in Blocks PROVE SameEntry(idx[b], w[b])
  BY DEF Copied, SameEntry
<1>4. ASSUME NEW b \in Blocks
      PROVE  /\ w[b] = Absent <=> idx[b] = Absent
             /\ w[b].level = idx[b].level
             /\ w[b] # Absent => EntryOK(w[b])
  <2>1. w[b] = Absent <=> idx[b] = Absent
    BY <1>3 DEF SameEntry
  <2>2. w[b].level = idx[b].level
    BY <1>1, <1>2, <1>3, <2>1, IndexValue, SameFields
  <2>3. w[b] # Absent => EntryOK(w[b])
    BY DEF IndexOK
  <2> QED BY <2>1, <2>2, <2>3
<1>5. IndexOK(w)
  BY <1>2, <1>4, ParentOf, ChainStateAssumption DEF IndexOK
<1>6. Copied(idx, w, {})
  BY <1>3 DEF Copied
<1>7. Kept(idx, w)
  BY <1>1, <1>4, IndexValue DEF Kept
<1>8. \A b \in Blocks : diskIndex[b].level = SCRIPTS => idx[b].level = SCRIPTS
  <2> SUFFICES ASSUME NEW b \in Blocks, diskIndex[b].level = SCRIPTS
               PROVE  idx[b].level = SCRIPTS
    OBVIOUS
  <2>1. diskIndex[b] # Absent
    BY <1>1, IndexValue DEF SCRIPTS
  <2> QED BY <1>1, <2>1, IndexValue DEF Kept, SCRIPTS
<1>9. \A c \in Blocks : Scripted(idx, c) \/ Scripted(diskIndex, c) => Scripted(w, c)
  BY <1>4, <1>8, OwnChain DEF Scripted
<1> QED BY <1>5, <1>6, <1>7, <1>9

LEMMA FlushStateToDiskStep == IInv /\ FlushStateToDisk => IInv'
<1> SUFFICES ASSUME IInv, FlushStateToDisk PROVE IInv'
  OBVIOUS
<1>1. PICK S \in SUBSET Prunable, fDoFullFlush \in BOOLEAN :
        /\ node # "down" /\ (job = Free \/ job.phase = "update")
        /\ S # {} \/ job.phase = "update" => fDoFullFlush
        /\ index' = PruneOneBlockFile(S)
        /\ unlinked' = PruneUnlinked(S)
        /\ diskIndex' = WriteBatchSync(PruneOneBlockFile(S), S)
        /\ dirty' = {}
        /\ job' = IF fDoFullFlush THEN [job EXCEPT !.phase = "flush"] ELSE job
        /\ UNCHANGED <<chainTx, seq, candidates, tip, coins, diskCoins, pending, node>>
  BY DEF FlushStateToDisk
<1>2. /\ JobInv /\ PlaceInv /\ TargetInv /\ IndexInv /\ SetsInv /\ TypeOK /\ DiskInv
      /\ job \in JobType /\ tip \in Blocks /\ coins \in Blocks
  BY <1>1 DEF IInv, UpInv, JobInv, TypeOK
<1>3. Grows(index', dirty \cup S) /\ S \subseteq Known
  BY <1>1, <1>2, PruneGrows DEF IndexInv
<1>4. /\ IndexOK(index') /\ Copied(index', diskIndex, dirty \cup S) /\ Kept(index', diskIndex)
      /\ \A c \in Blocks : Scripted(index, c) => Scripted(index', c)
      /\ \A b \in Known : index'[b] # Absent
  BY <1>2, <1>3, GrowsKeeps DEF IndexInv, DiskInv
<1>5. diskIndex' = [b \in Blocks |-> IF b \in dirty \cup S THEN index'[b] ELSE diskIndex[b]]
  BY <1>1 DEF WriteBatchSync
<1>6. /\ IndexOK(diskIndex') /\ Copied(index', diskIndex', {}) /\ Kept(index', diskIndex')
      /\ \A c \in Blocks : Scripted(diskIndex, c) => Scripted(diskIndex', c)
  BY <1>2, <1>4, <1>5, BatchWritten DEF DiskInv
<1>7. IndexInv'
  BY <1>1, <1>2, <1>4, <1>6 DEF IndexInv
<1>8. DiskInv'
  BY <1>1, <1>2, <1>6 DEF DiskInv, TypeOK
<1>9. /\ job' \in JobType /\ job'.move = job.move /\ job'.target = job.target
      /\ job' = job \/ job'.phase = "flush"
  BY <1>1, <1>2 DEF JobType
<1>10. JobInv' /\ PlaceInv'
  BY <1>1, <1>2, <1>9, FreeFields
     DEF JobInv, PlaceInv, Moving, Stepping, Invalidating, OneApart, OffChain
<1>11. TargetInv'
  <2>1. Stepping' => Stepping
    BY <1>9 DEF Stepping
  <2>2. ASSUME Stepping, NEW x \in OffChain(job.target)
        PROVE  index'[x] # Absent /\ ~Failed(index'[x])
    <3>1. x \in Blocks /\ index[x] # Absent /\ ~Failed(index[x]) /\ index[x] \in Entry
      BY <1>2, <2>2, OwnChain, IndexValue DEF TargetInv, JobInv, OffChain, IndexInv, IndexOK
    <3>2. index'[x] = index[x] \/ index'[x] = [index[x] EXCEPT !.data = FALSE, !.undo = FALSE]
      BY <1>1, <3>1 DEF PruneOneBlockFile
    <3>3. EntryOK(index[x])
      BY <1>2, <3>1 DEF IndexInv, IndexOK
    <3>4. PICK e \in Entry : e = index[x] /\ EntryOK(e) /\ ~Failed(e)
      BY <3>1, <3>3
    <3>5. PICK r : r = index'[x] /\ (r = e \/ r = [e EXCEPT !.data = FALSE, !.undo = FALSE])
      BY <3>2, <3>4
    <3>6. r \in Entry /\ r.failedValid = e.failedValid /\ r.failedChild = e.failedChild
      BY <3>4, <3>5, PrunedEntry
    <3> QED BY <3>4, <3>5, <3>6, EntryFields DEF Failed
  <2> QED BY <1>1, <1>9, <2>1, <2>2 DEF TargetInv, OffChain
<1>12. SetsInv'
  BY <1>1, <1>2, <1>4 DEF SetsInv, Known, PruneUnlinked
<1>13. TypeOK'
  BY <1>1, <1>2, <1>4, <1>6, <1>9, <1>12 DEF TypeOK, SetsInv, Known, IndexOK
<1> QED BY <1>1, <1>7, <1>8, <1>10, <1>11, <1>12, <1>13 DEF IInv, UpInv

LEMMA NoSpaceForIndexStep == IInv /\ NoSpaceForIndex => IInv'
<1> SUFFICES ASSUME IInv, NoSpaceForIndex PROVE IInv'
  OBVIOUS
<1>1. PICK S \in SUBSET Prunable :
        /\ node # "down" /\ AbortNode
        /\ index' = PruneOneBlockFile(S) /\ unlinked' = PruneUnlinked(S) /\ dirty' = dirty \cup S
        /\ UNCHANGED <<chainTx, seq, candidates, tip, coins, diskIndex, diskCoins>>
  BY DEF NoSpaceForIndex, diskVars
<1>2. IndexInv /\ SetsInv /\ TypeOK
  BY <1>1 DEF IInv, UpInv
<1>3. Grows(index', dirty') /\ S \subseteq Known
  BY <1>1, <1>2, PruneGrows DEF IndexInv
<1>4. IndexInv' /\ Known \subseteq Known'
  BY <1>1, <1>2, <1>3, IndexKept
<1>5. /\ JobInv' /\ PlaceInv' /\ TargetInv' /\ job' \in JobType /\ job'.phase # "flush"
      /\ node' \in {"up", "stopping"} /\ pending' \in BOOLEAN
  BY <1>1, <1>2, Freed, FreeFields DEF AbortNode, TypeOK
<1>6. /\ candidates' \subseteq Known' /\ chainTx' \subseteq Known' /\ unlinked' \subseteq Known'
      /\ dirty' \subseteq Blocks /\ seq' \in [Blocks -> Nat]
  BY <1>1, <1>2, <1>3, <1>4 DEF SetsInv, TypeOK, PruneUnlinked, Known
<1>7. Scripted(index', tip') /\ Scripted(index', coins') /\ UNCHANGED <<diskIndex, diskCoins>>
  BY <1>1, <1>4 DEF IndexInv
<1> QED BY <1>1, <1>3, <1>5, <1>6, <1>7, IndexGrown

LEMMA CoinsNotFlushedStep == IInv /\ CoinsNotFlushed => IInv'
<1> SUFFICES ASSUME IInv, CoinsNotFlushed PROVE IInv'
  OBVIOUS
<1>1. /\ job.phase = "flush" /\ AbortNode
      /\ UNCHANGED <<index, chainTx, seq, candidates, unlinked, dirty, tip, coins,
                     diskIndex, diskCoins>>
  BY DEF CoinsNotFlushed, memVars, diskVars
<1>2. node # "down" /\ IndexInv /\ SetsInv /\ TypeOK
  BY <1>1, InJob
<1>3. /\ JobInv' /\ PlaceInv' /\ TargetInv' /\ job' \in JobType /\ job'.phase # "flush"
      /\ node' \in {"up", "stopping"} /\ pending' \in BOOLEAN
  BY <1>1, <1>2, Freed, FreeFields DEF AbortNode, TypeOK
<1> QED BY <1>1, <1>2, <1>3, IndexSame DEF IndexInv, SetsInv

(* The coins are written once the index is: their chain is on disk.          *)
LEMMA FlushCoinsStep == IInv /\ FlushCoins => IInv'
<1> SUFFICES ASSUME IInv, FlushCoins PROVE IInv'
  OBVIOUS
<1>1. /\ job.phase = "flush" /\ diskCoins' = coins
      /\ job' = IF job.move = "none" THEN Free ELSE [job EXCEPT !.phase = "update"]
      /\ UNCHANGED <<index, chainTx, seq, candidates, unlinked, dirty, tip, coins, diskIndex,
                     pending, node>>
  BY DEF FlushCoins, memVars
<1>2. /\ node # "down" /\ job \in JobType
      /\ JobInv /\ PlaceInv /\ TargetInv /\ IndexInv /\ SetsInv /\ TypeOK /\ DiskInv
      /\ tip \in Blocks /\ coins \in Blocks
  BY <1>1, InJob
<1>3. DiskInv'
  <2>1. ASSUME NEW x \in Chain[coins] \ {Genesis} PROVE diskIndex[x].level = SCRIPTS
    <3>1. x \in Blocks /\ index[x].level = SCRIPTS /\ index \in Index /\ diskIndex \in Index
      BY <1>2, OwnChain DEF IndexInv, Scripted, IndexOK, DiskInv
    <3>2. index[x] # Absent /\ SameEntry(index[x], diskIndex[x])
      BY <1>1, <1>2, <3>1, IndexValue DEF SetsInv, IndexInv, Copied, SCRIPTS
    <3>3. diskIndex[x] # Absent
      BY <3>2 DEF SameEntry
    <3> QED BY <3>1, <3>2, <3>3, IndexValue, SameFields
  <2> QED BY <1>1, <1>2, <2>1 DEF DiskInv, Scripted
<1>4. /\ job' \in JobType /\ job'.move = job.move /\ job'.phase # "flush"
      /\ job' = Free \/ (job'.phase = "update" /\ job'.target = job.target /\ Moving)
  BY <1>1, <1>2, FreeFields DEF JobType, Moving
<1>5. JobInv' /\ PlaceInv'
  BY <1>1, <1>2, <1>4, FreeFields
     DEF JobInv, PlaceInv, Moving, Stepping, Invalidating, OneApart, OffChain
<1>6. TargetInv'
  BY <1>1, <1>2, <1>4, FreeFields DEF TargetInv, Stepping, OffChain
<1>7. IndexInv' /\ SetsInv'
  BY <1>1, <1>2, <1>4 DEF IndexInv, SetsInv, Known
<1>8. TypeOK'
  BY <1>1, <1>2, <1>4 DEF TypeOK
<1> QED BY <1>1, <1>2, <1>3, <1>5, <1>6, <1>7, <1>8 DEF IInv, UpInv

(* The process ends: what is on disk is as it was, or was written whole.     *)
LEMMA Stopped ==
  ASSUME IInv, Stop, DiskInv', diskCoins' \in Blocks
  PROVE  IInv'
<1>1. TypeOK
  BY DEF IInv
<1>2. node' = "down" /\ job' = Free
  BY DEF Stop
<1>3. TypeOK'
  BY <1>1, FreeFields DEF TypeOK, Stop, Nothing, Index, DiskInv, IndexOK
<1> QED BY <1>2, <1>3 DEF IInv, UpInv

LEMMA DyingStep == IInv /\ (Crash \/ AssertionFails \/ Shutdown) => IInv'
<1> SUFFICES ASSUME IInv, Crash \/ AssertionFails \/ Shutdown PROVE IInv'
  OBVIOUS
<1>1. DiskInv /\ diskCoins \in Blocks
  BY DEF IInv, TypeOK
<1>2. CASE Crash \/ AssertionFails
  <2>1. Stop /\ UNCHANGED <<diskIndex, diskCoins>>
    BY <1>2 DEF Crash, AssertionFails, diskVars
  <2> QED BY <1>1, <2>1, Stopped DEF DiskInv
<1>3. CASE Shutdown
  <2>1. /\ node # "down" /\ Stop /\ diskCoins' = coins
        /\ diskIndex' = [b \in Blocks |-> IF b \in dirty THEN index[b] ELSE diskIndex[b]]
    BY <1>3 DEF Shutdown, Enter, WriteBatchSync
  <2>2. IndexInv /\ coins \in Blocks
    BY <2>1 DEF IInv, UpInv, JobInv
  <2>3. DiskInv'
    BY <1>1, <2>1, <2>2, BatchWritten DEF IndexInv, DiskInv
  <2> QED BY <2>1, <2>2, <2>3, Stopped
<1> QED BY <1>2, <1>3

LEMMA LoadBlockIndexDBStep == IInv /\ LoadBlockIndexDB => IInv'
<1> SUFFICES ASSUME IInv, LoadBlockIndexDB PROVE IInv'
  OBVIOUS
<1>1. /\ index' = diskIndex /\ chainTx' = StoredChainTx /\ seq' = [b \in Blocks |-> 0]
      /\ unlinked' \subseteq Stored /\ candidates' = StartCandidates /\ dirty' = {}
      /\ tip' = diskCoins /\ coins' = diskCoins
      /\ job' = Free /\ pending' = TRUE /\ node' = "up"
      /\ UNCHANGED <<diskIndex, diskCoins>>
  BY DEF LoadBlockIndexDB, diskVars
<1>2. DiskInv /\ diskCoins \in Blocks
  BY DEF IInv, TypeOK
<1>3. DiskInv'
  BY <1>1, <1>2 DEF DiskInv
<1>4. Known' = Stored
  BY <1>1 DEF Known, Stored
<1>5. SetsInv'
  BY <1>1, <1>4, FreeFields DEF SetsInv, StoredChainTx, StartCandidates
<1>6. IndexInv'
  <2>1. Copied(index', diskIndex', dirty')
    BY <1>1 DEF Copied, SameEntry
  <2>2. Kept(index', diskIndex')
    BY <1>1, <1>2, IndexValue DEF Kept, DiskInv, IndexOK
  <2> QED BY <1>1, <1>2, <2>1, <2>2 DEF IndexInv, DiskInv
<1>7. JobInv' /\ PlaceInv' /\ TargetInv'
  BY <1>1, <1>2, FreeFields
     DEF JobInv, PlaceInv, TargetInv, Moving, Stepping, Invalidating, OneApart
<1>8. TypeOK'
  <2>1. seq' \in [Blocks -> Nat]
    BY <1>1
  <2>2. chainTx' \subseteq Blocks /\ candidates' \subseteq Blocks /\ unlinked' \subseteq Blocks
    BY <1>1 DEF StoredChainTx, StartCandidates, Stored
  <2>3. index' \in Index /\ diskIndex' \in Index
    BY <1>1, <1>2 DEF DiskInv, IndexOK
  <2>4. /\ job' \in JobType /\ pending' \in BOOLEAN /\ node' \in {"up", "stopping", "down"}
        /\ dirty' \subseteq Blocks
    BY <1>1, FreeFields
  <2>5. tip' \in Blocks /\ coins' \in Blocks /\ diskCoins' \in Blocks
    BY <1>1, <1>2
  <2> QED BY <2>1, <2>2, <2>3, <2>4, <2>5 DEF TypeOK
<1>9. node' # "down"
  BY <1>1
<1> QED BY <1>3, <1>5, <1>6, <1>7, <1>8, <1>9 DEF IInv, UpInv

LEMMA InitInv == Init => IInv
<1> SUFFICES ASSUME Init PROVE IInv
  OBVIOUS
<1>1. /\ Genesis \in Blocks /\ index \in Index
      /\ index[Genesis] = GenesisEntry /\ index[Genesis] # Absent
      /\ \A b \in Blocks \ {Genesis} : index[b] = Absent
      /\ GenesisEntry \in Entry /\ EntryOK(GenesisEntry)
  BY ChainStateAssumption, NewEntryType, EntryFields DEF Init, Index
<1>2. IndexOK(index)
  BY <1>1, AbsentLevel DEF IndexOK, SCRIPTS
<1>3. Scripted(index, Genesis)
  BY ChainStateAssumption DEF Scripted
<1>4. DiskInv
  BY <1>2, <1>3 DEF DiskInv, Init
<1>5. IndexInv
  BY <1>1, <1>2, <1>3, IndexValue DEF IndexInv, Init, Copied, SameEntry, Kept
<1>6. SetsInv
  <2>1. Genesis \in Known /\ job.phase = "free"
    BY <1>1, FreeFields DEF Init, Known
  <2> QED BY <2>1 DEF SetsInv, Init
<1>7. JobInv /\ PlaceInv /\ TargetInv
  BY <1>1, FreeFields
     DEF Init, JobInv, PlaceInv, TargetInv, Moving, Stepping, Invalidating, OneApart
<1>8. TypeOK
  BY <1>1, FreeFields DEF Init, TypeOK
<1> QED BY <1>4, <1>5, <1>6, <1>7, <1>8 DEF IInv, UpInv, Init

(* A stutter, and a start that fails, change nothing.                        *)
LEMMA StutterStep == IInv /\ UNCHANGED vars => IInv'
  BY DEF vars, IInv, TypeOK, UpInv, DiskInv, JobInv, PlaceInv, TargetInv, IndexInv, SetsInv,
         Known, Moving, Stepping, Invalidating, OneApart, OffChain

LEMMA Inductive == IInv /\ [Next]_vars => IInv'
<1> SUFFICES ASSUME IInv, [Next]_vars PROVE IInv'
  OBVIOUS
<1>1. CASE AcceptBlockHeader
  BY <1>1, HeaderStep
<1>2. CASE AcceptBlock
  BY <1>2, AcceptBlockStep
<1>3. CASE AcceptBlockAgain \/ EnterActivateBestChain
  BY <1>3, AgainAndEnterStep
<1>4. CASE FindMostWorkChain
  BY <1>4, FindMostWorkChainStep
<1>5. CASE StepDisconnect
  BY <1>5, StepDisconnectStep
<1>6. CASE ConnectTip
  BY <1>6, ConnectTipStep
<1>7. CASE InvalidBlockFound
  BY <1>7, InvalidBlockFoundStep
<1>8. CASE FailedToRead
  BY <1>8, FailedToReadStep
<1>9. CASE UpdateTip
  BY <1>9, UpdateTipStep
<1>10. CASE InvalidateBlock
  BY <1>10, InvalidateBlockStep
<1>11. CASE InvalidateTip
  BY <1>11, InvalidateTipStep
<1>12. CASE InvalidateDone
  BY <1>12, InvalidateDoneStep
<1>13. CASE ReconsiderBlock
  BY <1>13, ReconsiderBlockStep
<1>14. CASE FlushStateToDisk
  BY <1>14, FlushStateToDiskStep
<1>15. CASE FlushCoins
  BY <1>15, FlushCoinsStep
<1>16. CASE NoSpaceForIndex
  BY <1>16, NoSpaceForIndexStep
<1>17. CASE CoinsNotFlushed
  BY <1>17, CoinsNotFlushedStep
<1>18. CASE Crash \/ AssertionFails \/ Shutdown
  BY <1>18, DyingStep
<1>19. CASE LoadBlockIndexDB
  BY <1>19, LoadBlockIndexDBStep
<1>20. CASE StartFails \/ UNCHANGED vars
  BY <1>20, StutterStep DEF StartFails
<1> QED BY <1>1, <1>2, <1>3, <1>4, <1>5, <1>6, <1>7, <1>8, <1>9, <1>10, <1>11, <1>12, <1>13,
           <1>14, <1>15, <1>16, <1>17, <1>18, <1>19, <1>20 DEF Next, Activation, Rpc

(* The inductive invariant holds whatever happens.                           *)
THEOREM Invariant == Spec => []IInv
  BY InitInv, Inductive, PTL DEF Spec
-----------------------------------------------------------------------------
(* Types, of the state of AcceptBlock, ActivateBestChain, FlushStateToDisk,   *)
(* LoadBlockIndexDB and the two RPCs.                                        *)
THEOREM TypesOK == Spec => []TypeOK
<1>1. IInv => TypeOK
  BY DEF IInv
<1> QED BY <1>1, Invariant, PTL

(* The assertion of ConnectBlock and DisconnectBlock that the coins are at    *)
(* the block they start from: between ConnectTip or DisconnectTip and        *)
(* UpdateTip chainActive and the coins are one block apart, else they agree,  *)
(* until a flush fails and the node stops.                                   *)
THEOREM CoinsFollowChainAlways == Spec => []CoinsFollowChain
<1>1. IInv => CoinsFollowChain
  <2> SUFFICES ASSUME IInv, node # "down" PROVE CoinsFollowChain
    BY DEF CoinsFollowChain
  <2>1. JobInv /\ PlaceInv /\ job \in JobType
    BY DEF IInv, UpInv, TypeOK
  <2>2. CASE Moving
    <3>1. job.phase \in {"update", "flush"} /\ OneApart
      BY <2>1, <2>2, FreeFields DEF JobType, JobInv, PlaceInv, Moving, OneApart
    <3> QED BY <3>1 DEF CoinsFollowChain, OneApart
  <2>3. CASE ~Moving
    BY <2>1, <2>3 DEF PlaceInv, CoinsFollowChain, OneApart
  <2> QED BY <2>2, <2>3
<1> QED BY <1>1, Invariant, PTL

(* "Flush the chainstate (which may refer to block index entries)": however  *)
(* FlushStateToDisk, a death and a full disk interleave, the index on disk   *)
(* has the whole chain of the coins on disk, connected, and no orphans.      *)
THEOREM DiskChainIsIndexedAlways == Spec => []DiskChainIsIndexed
<1>1. IInv => DiskChainIsIndexed
  <2> SUFFICES ASSUME IInv PROVE DiskChainIsIndexed
    OBVIOUS
  <2>1. IndexOK(diskIndex) /\ Scripted(diskIndex, diskCoins) /\ diskCoins \in Blocks
    BY DEF IInv, DiskInv, TypeOK
  <2>2. ASSUME NEW b \in Chain[diskCoins] \ {Genesis}
        PROVE  diskIndex[b] # Absent /\ diskIndex[b].level = SCRIPTS
    BY <2>1, AbsentLevel DEF Scripted, SCRIPTS
  <2> QED BY <2>1, <2>2 DEF DiskChainIsIndexed, IndexOK
<1> QED BY <1>1, Invariant, PTL

(* setDirtyBlockIndex is complete: what a flush does not write is on disk as  *)
(* it is in memory, but for the marks FindMostWorkChain derives.             *)
THEOREM DirtyIsCompleteAlways == Spec => []DirtyIsComplete
<1>1. IInv => DirtyIsComplete
  BY DEF IInv, UpInv, IndexInv, Copied, SameEntry, SameOnDisk, DirtyIsComplete
<1> QED BY <1>1, Invariant, PTL

(* What CheckBlockIndex asserts of nStatus and nTx of an entry, and that a   *)
(* block is SCRIPTS valid only over a chain that is.                         *)
THEOREM StatusConsistentAlways == Spec => []StatusConsistent
<1>1. IInv => StatusConsistent
  <2> SUFFICES ASSUME IInv, LockFree, NEW b \in Known
               PROVE  /\ index[b].nTx <=> index[b].level >= TRANSACTIONS
                      /\ index[b].data => index[b].nTx
                      /\ index[b].undo => index[b].data
                      /\ index[b].level = SCRIPTS =>
                           \A x \in Chain[b] \ {Genesis} : index[x].level = SCRIPTS
    BY DEF StatusConsistent
  <2>1. IndexOK(index) /\ b \in Blocks /\ index[b] # Absent
    BY DEF IInv, UpInv, IndexInv, LockFree, Known
  <2> QED BY <2>1, AncestorsScripted DEF IndexOK, EntryOK, Scripted
<1> QED BY <1>1, Invariant, PTL
=============================================================================
