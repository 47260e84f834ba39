------------------------- MODULE BlockDownloadProofs -------------------------
(***************************************************************************)
(* mapBlocksInFlight, the lists in the CNodeStates and their counters agree   *)
(* in every reachable state, no block is taken from the peer it is asked of, *)
(* the search for blocks starts from one that is here, and a peer that       *)
(* answers with a valid chain is not punished: for every block tree, any     *)
(* peers, windows and limits, and every order of messages, time-outs,        *)
(* connections and disconnections.                                          *)
(***************************************************************************)
EXTENDS BlockDownload, FiniteSetTheorems, WellFoundedInduction, TLAPS

(* A nonempty set of numbers has a smallest element.                         *)
LEMMA LeastNumber ==
  ASSUME NEW T \in SUBSET Nat, T # {}
  PROVE  \E n \in T : \A m \in T : n <= m
<1> DEFINE R == OpToRel(<, Nat)
<1>1. \A n, m \in Nat : m < n => <<m, n>> \in R
  BY DEF OpToRel
<1>2. IsWellFoundedOn(R, Nat)
  BY NatLessThanWellFounded, Zenon
<1> HIDE DEF R
<1>3. PICK n \in T : \A m \in T : ~(<<m, n>> \in R)
  BY <1>2, WFMin, Zenon
<1>4. \A m \in T : ~(m < n)
  BY <1>1, <1>3
<1> QED BY <1>4

(* Some block of a nonempty set of blocks is lowest.                         *)
LEMMA LowestBlock ==
  ASSUME NEW S \in SUBSET Blocks, S # {}
  PROVE  \E b \in S : \A c \in S : Height[b] <= Height[c]
<1> DEFINE T == {Height[b] : b \in S}
<1>1. T \in SUBSET Nat /\ T # {}
  BY BlockDownloadAssumption
<1>2. \A c \in S : Height[c] \in T
  OBVIOUS
<1>3. \A n \in T : \E b \in S : Height[b] = n
  OBVIOUS
<1> HIDE DEF T
<1>4. PICK n \in T : \A m \in T : n <= m
  BY <1>1, LeastNumber
<1> QED BY <1>2, <1>3, <1>4

(* And some block is highest: the set is finite, so the heights are bounded,  *)
(* and one has the least distance to the bound.                              *)
LEMMA HighestBlock ==
  ASSUME NEW S \in SUBSET Blocks, S # {}
  PROVE  Highest(S) \in S /\ \A c \in S : Height[c] <= Height[Highest(S)]
<1> DEFINE Below(b) == {c \in S : Height[c] > Height[b]}
           T == {Cardinality(Below(b)) : b \in S}
<1>1. IsFiniteSet(S)
  BY FS_Subset, BlockDownloadAssumption
<1>2. \A b \in S : IsFiniteSet(Below(b)) /\ Cardinality(Below(b)) \in Nat
  <2>1. TAKE b \in S
  <2>2. Below(b) \in SUBSET S
    OBVIOUS
  <2> HIDE DEF Below
  <2> QED BY <1>1, <2>2, FS_Subset, FS_CardinalityType
<1>3. T \in SUBSET Nat /\ T # {}
  BY <1>2
<1>4. /\ \A c \in S : Cardinality(Below(c)) \in T
      /\ \A n \in T : \E b \in S : Cardinality(Below(b)) = n
  OBVIOUS
<1> HIDE DEF T
<1>5. PICK n \in T : \A m \in T : n <= m
  BY <1>3, LeastNumber
<1>6. PICK b \in S : Cardinality(Below(b)) = n
  BY <1>4, <1>5
<1>7. Below(b) = {}
  <2>1. SUFFICES ASSUME NEW c \in Below(b) PROVE FALSE
    OBVIOUS
  <2>2. c \in S /\ Height[c] \in Nat /\ Height[b] \in Nat /\ Height[c] > Height[b]
    BY BlockDownloadAssumption
  <2>3. Below(c) \in SUBSET Below(b) /\ c \notin Below(c)
    BY <2>2, BlockDownloadAssumption
  <2>4. Cardinality(Below(c)) <= Cardinality(Below(b)) /\ Cardinality(Below(c)) # Cardinality(Below(b))
    <3> HIDE DEF Below
    <3> QED BY <1>2, <2>1, <2>3, FS_Subset
  <2>5. Cardinality(Below(c)) \in T /\ Cardinality(Below(c)) \in Nat
    BY <1>2, <1>4, <2>2
  <2> HIDE DEF Below
  <2> QED BY <1>2, <1>5, <1>6, <2>4, <2>5
<1>8. \E h \in S : \A c \in S : Height[c] <= Height[h]
  <2>1. \A c \in S : Height[c] \in Nat
    BY BlockDownloadAssumption
  <2> QED BY <1>6, <1>7, <2>1
<1> QED BY <1>8 DEF Highest

(* A nonempty set of blocks without the genesis block has one whose parent is *)
(* not in it: induction over the ancestors of a block.                       *)
LEMMA FirstOfItsChain ==
  ASSUME NEW S \in SUBSET (Blocks \ {Genesis}), S # {}
  PROVE  \E b \in S : Parent[b] \in Blocks \ S
<1>1. PICK b \in S : \A c \in S : Height[b] <= Height[c]
  BY LowestBlock
<1>2. Parent[b] \in Blocks /\ Height[Parent[b]] \in Nat /\ Height[b] = Height[Parent[b]] + 1
  BY BlockDownloadAssumption
<1> QED BY <1>1, <1>2

LEMMA ParentOf ==
  ASSUME NEW b \in Blocks \ {Genesis}
  PROVE  /\ Parent[b] \in Blocks /\ Chain[b] = {b} \cup Chain[Parent[b]]
         /\ Height[b] = Height[Parent[b]] + 1 /\ Work[b] > Work[Parent[b]]
  BY BlockDownloadAssumption

LEMMA OwnChain ==
  ASSUME NEW b \in Blocks
  PROVE  b \in Chain[b] /\ Chain[b] \subseteq Blocks
<1>1. Chain[b] \subseteq Blocks /\ Chain[Genesis] = {Genesis}
  BY BlockDownloadAssumption
<1> QED BY <1>1, ParentOf

LEMMA GenesisInChain == \A b \in Blocks : Genesis \in Chain[b]
<1> DEFINE S == {b \in Blocks : Genesis \notin Chain[b]}
<1>1. SUFFICES ASSUME S # {} PROVE FALSE
  OBVIOUS
<1>2. S \in SUBSET (Blocks \ {Genesis})
  BY BlockDownloadAssumption
<1>3. PICK b \in S : Parent[b] \in Blocks \ S
  BY <1>1, <1>2, FirstOfItsChain
<1> QED BY <1>2, <1>3, ParentOf

(* The chain of a block holds the chains of all its blocks.                  *)
LEMMA ChainOfAncestor == \A b \in Blocks : \A x \in Chain[b] : Chain[x] \subseteq Chain[b]
<1> DEFINE S == {b \in Blocks : \E x \in Chain[b] : ~(Chain[x] \subseteq Chain[b])}
<1>1. SUFFICES ASSUME S # {} PROVE FALSE
  OBVIOUS
<1>2. S \in SUBSET (Blocks \ {Genesis})
  BY BlockDownloadAssumption
<1>3. PICK b \in S : Parent[b] \in Blocks \ S
  BY <1>1, <1>2, FirstOfItsChain
<1>4. \A x \in Chain[Parent[b]] : Chain[x] \subseteq Chain[Parent[b]]
  BY <1>3
<1> QED BY <1>2, <1>3, <1>4, ParentOf

(* An ancestor is lower, so a chain has one block of each height.            *)
LEMMA AncestorIsLower == \A b \in Blocks : \A x \in Chain[b] \ {b} : Height[x] < Height[b]
<1> DEFINE S == {b \in Blocks : \E x \in Chain[b] \ {b} : ~(Height[x] < Height[b])}
<1>1. SUFFICES ASSUME S # {} PROVE FALSE
  OBVIOUS
<1>2. S \in SUBSET (Blocks \ {Genesis})
  BY BlockDownloadAssumption
<1>3. PICK b \in S : Parent[b] \in Blocks \ S
  BY <1>1, <1>2, FirstOfItsChain
<1>4. PICK x \in Chain[b] \ {b} : ~(Height[x] < Height[b])
  BY <1>3
<1>5. x \in Chain[Parent[b]] /\ Height[b] = Height[Parent[b]] + 1
  BY <1>2, <1>4, ParentOf
<1>6. x = Parent[b] \/ Height[x] < Height[Parent[b]]
  BY <1>3, <1>5
<1>7. Height[x] \in Nat /\ Height[Parent[b]] \in Nat
  BY <1>3, <1>5, BlockDownloadAssumption
<1> QED BY <1>4, <1>5, <1>6, <1>7

LEMMA OneOfEachHeight ==
  \A b \in Blocks : \A x, y \in Chain[b] : Height[x] = Height[y] => x = y
<1> DEFINE S == {b \in Blocks : \E x, y \in Chain[b] : Height[x] = Height[y] /\ x # y}
<1>1. SUFFICES ASSUME S # {} PROVE FALSE
  OBVIOUS
<1>2. S \in SUBSET (Blocks \ {Genesis})
  BY BlockDownloadAssumption
<1>3. PICK b \in S : Parent[b] \in Blocks \ S
  BY <1>1, <1>2, FirstOfItsChain
<1>4. PICK x \in Chain[b], y \in Chain[b] : Height[x] = Height[y] /\ x # y
  BY <1>3
<1>5. x \in Chain[Parent[b]] /\ y \in Chain[Parent[b]]
  <2>1. x # b
    <3>1. SUFFICES ASSUME x = b PROVE FALSE
      OBVIOUS
    <3>2. Height[y] < Height[b]
      BY <1>4, <3>1, AncestorIsLower
    <3> QED BY <1>4, <3>1, <3>2, BlockDownloadAssumption
  <2>2. y # b
    <3>1. SUFFICES ASSUME y = b PROVE FALSE
      OBVIOUS
    <3>2. Height[x] < Height[b]
      BY <1>4, <3>1, AncestorIsLower
    <3> QED BY <1>4, <3>1, <3>2, BlockDownloadAssumption
  <2> QED BY <1>2, <1>4, <2>1, <2>2, ParentOf
<1> QED BY <1>3, <1>4, <1>5
-----------------------------------------------------------------------------
(* What mapBlocksInFlight, the CNodeStates and nQueuedValidatedHeaders have to *)
(* do with each other, for the values N, m and k of the three.               *)
OwedBy(m, q) == {b \in DOMAIN m : m[b] = q}
Asking(m, p, S) == [c \in DOMAIN m \cup S |-> IF c \in S THEN p ELSE m[c]]
Without(m, S) == [c \in DOMAIN m \ S |-> m[c]]
Valid(s) == {e \in s.blocks : e.valid}
Validated(N, m) == {b \in DOMAIN m : ValidOf(N[m[b]], {b}) # {}}

ListOK(s, S) ==
  /\ s \in CNodeStateType
  /\ {e.hash : e \in s.blocks} = S
  /\ \A e, f \in s.blocks : e.hash = f.hash => e = f
  /\ s.n = Cardinality(s.blocks) /\ s.nValid = Cardinality(Valid(s))
  /\ s.stalling => S # {}
FlightInv(N, m, k) ==
  /\ N \in [Peers -> CNodeStateType]
  /\ DOMAIN m \subseteq Blocks /\ m \in [DOMAIN m -> Peers]
  /\ \A q \in Peers : ListOK(N[q], OwedBy(m, q))
  /\ k \in Nat /\ k >= Cardinality(Validated(N, m))

LEMMA FiniteBlocks == \A S \in SUBSET Blocks : IsFiniteSet(S) /\ Cardinality(S) \in Nat
  BY FS_Subset, FS_CardinalityType, BlockDownloadAssumption

LEMMA FinitePeers == \A S \in SUBSET Peers : IsFiniteSet(S) /\ Cardinality(S) \in Nat
  BY FS_Subset, FS_CardinalityType, BlockDownloadAssumption

(* A list has as many entries as blocks: one each.                           *)
LEMMA OneEntryEach ==
  ASSUME NEW L \in SUBSET [hash : Blocks, valid : BOOLEAN],
         \A e, f \in L : e.hash = f.hash => e = f
  PROVE  /\ IsFiniteSet(L) /\ Cardinality(L) \in Nat
         /\ Cardinality(L) = Cardinality({e.hash : e \in L})
<1> DEFINE H == {e.hash : e \in L}
           hash == [e \in L |-> e.hash]
<1>1. H \in SUBSET Blocks
  OBVIOUS
<1>2. IsFiniteSet(H) /\ Cardinality(H) \in Nat
  BY <1>1, FiniteBlocks
<1>3. hash \in Bijection(L, H)
  BY DEF Bijection, Injection, Surjection, IsInjective
<1>4. hash \in Injection(L, H) /\ hash \in Surjection(L, H)
  BY <1>3 DEF Bijection
<1> HIDE DEF H, hash
<1>5. IsFiniteSet(L) /\ (Cardinality(L) = Cardinality(H) <=> hash \in Surjection(L, H))
  BY <1>2, <1>4, FS_Injection
<1> QED BY <1>2, <1>4, <1>5 DEF H

LEMMA ListFacts ==
  ASSUME NEW s, NEW S, ListOK(s, S)
  PROVE  /\ s.blocks \in SUBSET [hash : Blocks, valid : BOOLEAN]
         /\ IsFiniteSet(s.blocks) /\ Cardinality(s.blocks) \in Nat
         /\ IsFiniteSet(Valid(s)) /\ Cardinality(Valid(s)) \in Nat
         /\ S \in SUBSET Blocks /\ Cardinality(S) = s.n
         /\ s.n \in Nat /\ s.nValid \in Nat
         /\ \A b \in S : \E e \in s.blocks : e.hash = b
         /\ \A e \in s.blocks : e.hash \in S
<1>1. /\ s.blocks \in SUBSET [hash : Blocks, valid : BOOLEAN]
      /\ \A e, f \in s.blocks : e.hash = f.hash => e = f
      /\ s.n \in Nat /\ s.nValid \in Nat
  BY DEF ListOK, CNodeStateType
<1>2. /\ IsFiniteSet(s.blocks) /\ Cardinality(s.blocks) \in Nat
      /\ Cardinality(s.blocks) = Cardinality({e.hash : e \in s.blocks})
  BY <1>1, OneEntryEach
<1>3. Valid(s) \in SUBSET s.blocks
  BY DEF Valid
<1>4. IsFiniteSet(Valid(s)) /\ Cardinality(Valid(s)) \in Nat
  BY <1>2, <1>3, FS_Subset, FS_CardinalityType
<1>5. S \in SUBSET Blocks
  BY <1>1 DEF ListOK
<1> QED BY <1>1, <1>2, <1>4, <1>5 DEF ListOK

(* MarkBlockAsReceived for one block: the list of its peer loses one entry,   *)
(* which is counted as validated or not.                                     *)
LEMMA DeliveredList ==
  ASSUME NEW s, NEW S, ListOK(s, S), NEW b \in S
  PROVE  /\ ListOK(Delivered(s, {b}), S \ {b})
         /\ \A c \in S \ {b} : ValidOf(Delivered(s, {b}), {c}) = ValidOf(s, {c})
<1> DEFINE t == Delivered(s, {b})
<1>1. PICK x \in s.blocks : x.hash = b
  BY ListFacts
<1>2. /\ s \in CNodeStateType /\ s.n = Cardinality(s.blocks) /\ s.nValid = Cardinality(Valid(s))
      /\ \A e, f \in s.blocks : e.hash = f.hash => e = f
      /\ {e.hash : e \in s.blocks} = S
  BY DEF ListOK
<1>3. {e \in s.blocks : e.hash \notin {b}} = s.blocks \ {x}
  BY <1>1, <1>2
<1>4. /\ t.blocks = s.blocks \ {x} /\ t.stalling = FALSE
      /\ t.n = s.n - Cardinality({b}) /\ t.nValid = s.nValid - Cardinality(ValidOf(s, {b}))
      /\ t.best = s.best /\ t.unknown = s.unknown /\ t.common = s.common /\ t.sync = s.sync
      /\ t.preferred = s.preferred /\ t.shouldBan = s.shouldBan
      /\ t = [best |-> t.best, unknown |-> t.unknown, common |-> t.common, sync |-> t.sync,
              stalling |-> t.stalling, blocks |-> t.blocks, n |-> t.n, nValid |-> t.nValid,
              preferred |-> t.preferred, shouldBan |-> t.shouldBan]
  <2>1. PICK f : f = Fewer(s, {b})
    OBVIOUS
  <2>2. /\ f.blocks = s.blocks \ {x}
        /\ f.n = s.n - Cardinality({b}) /\ f.nValid = s.nValid - Cardinality(ValidOf(s, {b}))
        /\ f.best = s.best /\ f.unknown = s.unknown /\ f.common = s.common /\ f.sync = s.sync
        /\ f.preferred = s.preferred /\ f.shouldBan = s.shouldBan
    BY <1>2, <1>3, <2>1 DEF Fewer, CNodeStateType
  <2>3. f = [best |-> f.best, unknown |-> f.unknown, common |-> f.common, sync |-> f.sync,
             stalling |-> f.stalling, blocks |-> f.blocks, n |-> f.n, nValid |-> f.nValid,
             preferred |-> f.preferred, shouldBan |-> f.shouldBan]
    BY <1>2, <2>1 DEF Fewer, CNodeStateType
  <2>4. t = [f EXCEPT !.stalling = FALSE]
    BY <2>1, Zenon DEF Delivered
  <2> HIDE DEF t
  <2> QED BY <2>2, <2>3, <2>4
<1> HIDE DEF t
<1>5. t.n = Cardinality(t.blocks) /\ t.n \in Nat
  <2>1. Cardinality({b}) = 1
    BY FS_Singleton
  <2>2. Cardinality(s.blocks \ {x}) = Cardinality(s.blocks) - 1 /\ IsFiniteSet(s.blocks \ {x})
    BY <1>1, ListFacts, FS_RemoveElement
  <2>3. Cardinality(s.blocks \ {x}) \in Nat
    BY <2>2, FS_CardinalityType
  <2> QED BY <1>2, <1>4, <2>1, <2>2, <2>3
<1>6. Valid(t) = Valid(s) \ {x} /\ ValidOf(s, {b}) = {x} \cap Valid(s)
  BY <1>1, <1>2, <1>4 DEF Valid, ValidOf
<1>7. t.nValid = Cardinality(Valid(t)) /\ t.nValid \in Nat
  <2>1. /\ IsFiniteSet(Valid(s) \ {x})
        /\ Cardinality(Valid(s) \ {x}) =
             IF x \in Valid(s) THEN Cardinality(Valid(s)) - 1 ELSE Cardinality(Valid(s))
    BY ListFacts, FS_RemoveElement
  <2>2. Cardinality(Valid(s) \ {x}) \in Nat /\ Cardinality(Valid(s)) \in Nat
    BY <2>1, ListFacts, FS_CardinalityType
  <2>3. CASE x \in Valid(s)
    <3>1. ValidOf(s, {b}) = {x}
      BY <1>6, <2>3
    <3>2. Cardinality(ValidOf(s, {b})) = 1
      BY <3>1, FS_Singleton
    <3> QED BY <1>2, <1>4, <1>6, <2>1, <2>2, <2>3, <3>2
  <2>4. CASE x \notin Valid(s)
    <3>1. ValidOf(s, {b}) = {}
      BY <1>6, <2>4
    <3>2. Cardinality(ValidOf(s, {b})) = 0
      BY <3>1, FS_EmptySet
    <3> QED BY <1>2, <1>4, <1>6, <2>1, <2>2, <2>4, <3>2
  <2> QED BY <2>3, <2>4
<1>8. {e.hash : e \in t.blocks} = S \ {b}
  BY <1>1, <1>2, <1>4
<1>9. t \in CNodeStateType
  <2>1. t.blocks \in SUBSET [hash : Blocks, valid : BOOLEAN]
    BY <1>4, ListFacts
  <2> QED BY <1>2, <1>4, <1>5, <1>7, <2>1 DEF CNodeStateType
<1>10. \A c \in S \ {b} : ValidOf(t, {c}) = ValidOf(s, {c})
  BY <1>1, <1>4 DEF ValidOf
<1> QED BY <1>2, <1>4, <1>5, <1>7, <1>8, <1>9, <1>10 DEF ListOK, t

(* What is not about blocks in flight stays; a mark as stalling may go.       *)
KeepsRest(s, t) ==
  /\ t.best = s.best /\ t.unknown = s.unknown /\ t.common = s.common
  /\ t.sync = s.sync /\ t.preferred = s.preferred /\ t.shouldBan = s.shouldBan

LEMMA DeliveredRest ==
  ASSUME NEW s \in CNodeStateType, NEW S
  PROVE  KeepsRest(s, Delivered(s, S))
<1>1. PICK f : f = Fewer(s, S)
  OBVIOUS
<1>2. KeepsRest(s, f)
  BY <1>1 DEF Fewer, KeepsRest, CNodeStateType
<1>3. f = [best |-> f.best, unknown |-> f.unknown, common |-> f.common, sync |-> f.sync,
           stalling |-> f.stalling, blocks |-> f.blocks, n |-> f.n, nValid |-> f.nValid,
           preferred |-> f.preferred, shouldBan |-> f.shouldBan]
  BY <1>1 DEF Fewer, CNodeStateType
<1>4. KeepsRest(f, [f EXCEPT !.stalling = FALSE])
  BY <1>3 DEF KeepsRest
<1>5. Delivered(s, S) = [f EXCEPT !.stalling = FALSE]
  BY <1>1, Zenon DEF Delivered
<1> QED BY <1>2, <1>4, <1>5 DEF KeepsRest

(* MarkBlockAsReceived, whether or not the block is in flight.               *)
LEMMA ReceivedFlight ==
  ASSUME NEW N, NEW m, NEW k, FlightInv(N, m, k), NEW b \in Blocks, NEW r,
         r = MarkBlockAsReceived([node |-> N, map |-> m, queued |-> k], {b})
  PROVE  /\ FlightInv(r.node, r.map, r.queued)
         /\ r.map = Without(m, {b})
         /\ \A q \in Peers : KeepsRest(N[q], r.node[q])
<1>0. Without(m, {b}) = [c \in DOMAIN m \ {b} |-> m[c]]
  BY DEF Without
<1> DEFINE listed == {b} \cap DOMAIN m
           mine(q) == {c \in listed : m[c] = q}
           heard == {c \in listed : ValidOf(N[m[c]], {c}) # {}}
<1>1. /\ r.node = [q \in Peers |-> IF mine(q) = {} THEN N[q] ELSE Delivered(N[q], mine(q))]
      /\ r.map = [c \in DOMAIN m \ {b} |-> m[c]]
      /\ r.queued = k - Cardinality(heard)
  BY DEF MarkBlockAsReceived
<1>2. /\ N \in [Peers -> CNodeStateType]
      /\ DOMAIN m \subseteq Blocks /\ m \in [DOMAIN m -> Peers]
      /\ \A q \in Peers : ListOK(N[q], OwedBy(m, q))
      /\ k \in Nat /\ k >= Cardinality(Validated(N, m))
  BY DEF FlightInv
<1>3. \A q \in Peers : KeepsRest(N[q], r.node[q])
  <2>1. TAKE q \in Peers
  <2>2. N[q] \in CNodeStateType /\ r.node[q] = IF mine(q) = {} THEN N[q] ELSE Delivered(N[q], mine(q))
    BY <1>1, <1>2
  <2> HIDE DEF mine
  <2>3. KeepsRest(N[q], Delivered(N[q], mine(q))) /\ KeepsRest(N[q], N[q])
    BY <2>2, DeliveredRest DEF KeepsRest
  <2> QED BY <2>2, <2>3
<1>4. \A q \in Peers : OwedBy(r.map, q) = OwedBy(m, q) \ {b}
  BY <1>1 DEF OwedBy
<1>5. CASE b \notin DOMAIN m
  <2>1. \A q \in Peers : mine(q) = {}
    BY <1>5
  <2>2. r.node = N
    <3> HIDE DEF mine
    <3>1. r.node = [q \in Peers |-> N[q]]
      BY <1>1, <2>1
    <3>2. N = [q \in Peers |-> N[q]]
      BY <1>2
    <3> QED BY <3>1, <3>2
  <2>3. r.map = m
    BY <1>1, <1>5, <1>2
  <2>4. r.queued = k
    <3>1. heard = {}
      BY <1>5
    <3>2. r.queued = k - Cardinality(heard)
      BY <1>1
    <3> HIDE DEF heard
    <3> QED BY <1>2, <3>1, <3>2, FS_EmptySet
  <2> QED BY <1>0, <1>1, <1>3, <2>2, <2>3, <2>4
<1>6. CASE b \in DOMAIN m
  <2> DEFINE p == m[b]
  <2>1. p \in Peers /\ b \in OwedBy(m, p)
    BY <1>2, <1>6 DEF OwedBy
  <2>2. \A q \in Peers : mine(q) = IF q = p THEN {b} ELSE {}
    BY <1>6
  <2>3. \A q \in Peers : r.node[q] = IF q = p THEN Delivered(N[p], {b}) ELSE N[q]
    <3>1. TAKE q \in Peers
    <3>2. r.node[q] = IF mine(q) = {} THEN N[q] ELSE Delivered(N[q], mine(q))
      BY <1>1
    <3>3. mine(q) = IF q = p THEN {b} ELSE {}
      BY <2>2
    <3> HIDE DEF mine, p
    <3> QED BY <3>2, <3>3
  <2>4. /\ ListOK(r.node[p], OwedBy(r.map, p))
        /\ \A c \in OwedBy(m, p) \ {b} : ValidOf(r.node[p], {c}) = ValidOf(N[p], {c})
    <3>1. ListOK(N[p], OwedBy(m, p))
      BY <1>2, <2>1
    <3>2. /\ ListOK(Delivered(N[p], {b}), OwedBy(m, p) \ {b})
          /\ \A c \in OwedBy(m, p) \ {b} : ValidOf(Delivered(N[p], {b}), {c}) = ValidOf(N[p], {c})
      BY <2>1, <3>1, DeliveredList
    <3> QED BY <1>4, <2>1, <2>3, <3>2
  <2>5. \A q \in Peers : ListOK(r.node[q], OwedBy(r.map, q))
    <3>1. ASSUME NEW q \in Peers, q # p PROVE ListOK(r.node[q], OwedBy(r.map, q))
      <4>1. OwedBy(r.map, q) = OwedBy(m, q)
        BY <1>4, <3>1 DEF OwedBy
      <4> QED BY <1>2, <2>3, <3>1, <4>1
    <3> QED BY <2>4, <3>1
  <2>6. r.node \in [Peers -> CNodeStateType]
    <3>1. \A q \in Peers : r.node[q] \in CNodeStateType
      BY <2>5 DEF ListOK
    <3> QED BY <1>1, <3>1
  <2>7. Validated(r.node, r.map) = Validated(N, m) \ {b}
    <3>1. ASSUME NEW c \in DOMAIN m \ {b}
          PROVE  ValidOf(r.node[m[c]], {c}) = ValidOf(N[m[c]], {c})
      <4>1. m[c] \in Peers /\ c \in OwedBy(m, m[c])
        BY <1>2 DEF OwedBy
      <4> QED BY <2>3, <2>4, <4>1
    <3>2. DOMAIN r.map = DOMAIN m \ {b} /\ \A c \in DOMAIN m \ {b} : r.map[c] = m[c]
      BY <1>1
    <3> QED BY <3>1, <3>2 DEF Validated
  <2>8. r.queued \in Nat /\ r.queued >= Cardinality(Validated(r.node, r.map))
    <3>1. heard = {b} \cap Validated(N, m)
      BY <1>6 DEF Validated
    <3>2. /\ IsFiniteSet(Validated(N, m)) /\ Cardinality(Validated(N, m)) \in Nat
          /\ Cardinality(Validated(N, m) \ {b}) \in Nat
      BY <1>2, FiniteBlocks DEF Validated
    <3>3. Cardinality(Validated(N, m) \ {b}) =
            IF b \in Validated(N, m) THEN Cardinality(Validated(N, m)) - 1
            ELSE Cardinality(Validated(N, m))
      BY <3>2, FS_RemoveElement
    <3>4. Cardinality(heard) = IF b \in Validated(N, m) THEN 1 ELSE 0
      <4> HIDE DEF heard
      <4>1. heard = IF b \in Validated(N, m) THEN {b} ELSE {}
        BY <3>1
      <4> QED BY <4>1, FS_EmptySet, FS_Singleton
    <3>5. r.queued = k - Cardinality(heard)
      BY <1>1
    <3> HIDE DEF heard
    <3>6. k \in Nat /\ k >= Cardinality(Validated(N, m))
      BY <1>2
    <3>7. CASE b \in Validated(N, m)
      <4>1. Cardinality(Validated(r.node, r.map)) = Cardinality(Validated(N, m)) - 1
        BY <2>7, <3>3, <3>7
      <4>2. Cardinality(Validated(r.node, r.map)) \in Nat
        BY <2>7, <3>2
      <4>3. r.queued = k - 1
        BY <3>4, <3>5, <3>7
      <4> QED BY <3>2, <3>6, <4>1, <4>2, <4>3
    <3>8. CASE b \notin Validated(N, m)
      BY <2>7, <3>2, <3>3, <3>4, <3>5, <3>6, <3>8
    <3> QED BY <3>7, <3>8
  <2>9. DOMAIN r.map \subseteq Blocks /\ r.map \in [DOMAIN r.map -> Peers]
    BY <1>1, <1>2
  <2> QED BY <1>0, <1>1, <1>3, <2>5, <2>6, <2>8, <2>9 DEF FlightInv
<1> QED BY <1>5, <1>6

(* Nothing is delivered by MarkBlockAsReceived when nothing is in flight.     *)
LEMMA NothingReceived ==
  ASSUME NEW N, NEW m, NEW k, FlightInv(N, m, k), NEW S, S \cap DOMAIN m = {}
  PROVE  MarkBlockAsReceived([node |-> N, map |-> m, queued |-> k], S)
           = [node |-> N, map |-> m, queued |-> k]
<1>1. N \in [Peers -> CNodeStateType] /\ m \in [DOMAIN m -> Peers] /\ k \in Nat
  BY DEF FlightInv
<1>2. N = [q \in Peers |-> IF {c \in S \cap DOMAIN m : m[c] = q} = {} THEN N[q]
                           ELSE Delivered(N[q], {c \in S \cap DOMAIN m : m[c] = q})]
  BY <1>1
<1>3. m = [c \in DOMAIN m \ S |-> m[c]]
  <2>1. DOMAIN m \ S = DOMAIN m
    OBVIOUS
  <2> QED BY <1>1, <2>1
<1>4. k = k - Cardinality({c \in S \cap DOMAIN m : ValidOf(N[m[c]], {c}) # {}})
  <2>1. {c \in S \cap DOMAIN m : ValidOf(N[m[c]], {c}) # {}} = {}
    OBVIOUS
  <2>2. Cardinality({c \in S \cap DOMAIN m : ValidOf(N[m[c]], {c}) # {}}) = 0
    BY <2>1, FS_EmptySet, Zenon
  <2>3. k = k - 0
    BY <1>1
  <2> QED BY <2>2, <2>3, Zenon
<1>5. PICK r : r = MarkBlockAsReceived([node |-> N, map |-> m, queued |-> k], S)
  OBVIOUS
<1>6. /\ r.node = [q \in Peers |-> IF {c \in S \cap DOMAIN m : m[c] = q} = {} THEN N[q]
                           ELSE Delivered(N[q], {c \in S \cap DOMAIN m : m[c] = q})]
      /\ r.map = [c \in DOMAIN m \ S |-> m[c]]
      /\ r.queued = k - Cardinality({c \in S \cap DOMAIN m : ValidOf(N[m[c]], {c}) # {}})
      /\ r = [node |-> r.node, map |-> r.map, queued |-> r.queued]
  BY <1>5 DEF MarkBlockAsReceived
<1>7. r.node = N
  BY <1>2, <1>6
<1>8. r.map = m
  BY <1>3, <1>6
<1>9. r.queued = k
  BY <1>4, <1>6
<1> QED BY <1>5, <1>6, <1>7, <1>8, <1>9

(* What MarkBlockAsInFlight adds to the list of p and to the counters.        *)
Entries(S, v) == [hash : S, valid : {v}]
Counted(S, v) == IF v THEN Cardinality(S) ELSE 0
Added(N, p, A, x, y) ==
  [N EXCEPT ![p].blocks = @ \cup A, ![p].n = @ + x, ![p].nValid = @ + y]

LEMMA MoreFields ==
  ASSUME NEW N \in [Peers -> CNodeStateType], NEW p \in Peers, NEW A, NEW x, NEW y, NEW M,
         M = Added(N, p, A, x, y)
  PROVE  /\ M \in [Peers -> {M[q] : q \in Peers}] /\ \A q \in Peers \ {p} : M[q] = N[q]
         /\ M[p].blocks = N[p].blocks \cup A /\ M[p].n = N[p].n + x /\ M[p].nValid = N[p].nValid + y
         /\ KeepsRest(N[p], M[p]) /\ M[p].stalling = N[p].stalling
         /\ M[p] = [best |-> M[p].best, unknown |-> M[p].unknown, common |-> M[p].common,
                    sync |-> M[p].sync, stalling |-> M[p].stalling, blocks |-> M[p].blocks,
                    n |-> M[p].n, nValid |-> M[p].nValid, preferred |-> M[p].preferred,
                    shouldBan |-> M[p].shouldBan]
<1>1. PICK s : s = N[p] /\ s \in CNodeStateType
  OBVIOUS
<1>2. PICK t : t = [s EXCEPT !.blocks = @ \cup A, !.n = @ + x, !.nValid = @ + y]
  OBVIOUS
<1>3. M = [N EXCEPT ![p] = t]
  BY <1>1, <1>2 DEF Added
<1>4. /\ t.blocks = s.blocks \cup A /\ t.n = s.n + x /\ t.nValid = s.nValid + y
      /\ KeepsRest(s, t) /\ t.stalling = s.stalling
  BY <1>1, <1>2 DEF KeepsRest, CNodeStateType
<1>5. t = [best |-> t.best, unknown |-> t.unknown, common |-> t.common,
           sync |-> t.sync, stalling |-> t.stalling, blocks |-> t.blocks,
           n |-> t.n, nValid |-> t.nValid, preferred |-> t.preferred, shouldBan |-> t.shouldBan]
  BY <1>1, <1>2 DEF CNodeStateType
<1>6. M[p] = t /\ (\A q \in Peers \ {p} : M[q] = N[q])
  BY <1>3
<1>7. M \in [Peers -> {M[q] : q \in Peers}]
  BY <1>3
<1> QED BY <1>1, <1>4, <1>5, <1>6, <1>7

LEMMA SpreadFlight ==
  ASSUME NEW N, NEW m, NEW k, NEW p, NEW S, NEW v, NEW r,
         MarkBlockAsReceived([node |-> N, map |-> m, queued |-> k], S)
           = [node |-> N, map |-> m, queued |-> k],
         r = MarkBlockAsInFlight([node |-> N, map |-> m, queued |-> k], p, S, v)
  PROVE  /\ r.node = Added(N, p, Entries(S, v), Cardinality(S), Counted(S, v))
         /\ r.map = [c \in DOMAIN m \cup S |-> IF c \in S THEN p ELSE m[c]]
         /\ r.queued = k + Counted(S, v)
<1>1. PICK f : f = [node |-> N, map |-> m, queued |-> k]
  OBVIOUS
<1>2. f.node = N /\ f.map = m /\ f.queued = k
  BY <1>1
<1>3. MarkBlockAsReceived(f, S) = f /\ r = MarkBlockAsInFlight(f, p, S, v)
  BY <1>1
<1> DEFINE A == Added(f.node, p, Entries(S, v), Cardinality(S), Counted(S, v))
           B == [c \in DOMAIN f.map \cup S |-> IF c \in S THEN p ELSE f.map[c]]
           C == f.queued + Counted(S, v)
<1>4. r = [node |-> A, map |-> B, queued |-> C]
  BY <1>3, Zenon DEF MarkBlockAsInFlight, Added, Counted, Entries
<1> HIDE DEF A, B, C
<1>5. r.node = A /\ r.map = B /\ r.queued = C
  BY <1>4
<1> QED BY <1>2, <1>5, Zenon DEF A, B, C

LEMMA DisjointUnion ==
  ASSUME NEW S, NEW T, IsFiniteSet(S), IsFiniteSet(T), S \cap T = {}
  PROVE  IsFiniteSet(S \cup T) /\ Cardinality(S \cup T) = Cardinality(S) + Cardinality(T)
<1>1. /\ IsFiniteSet(S \cup T)
      /\ Cardinality(S \cup T) = Cardinality(S) + Cardinality(T) - Cardinality(S \cap T)
  BY FS_Union
<1>2. Cardinality(S) \in Nat /\ Cardinality(T) \in Nat /\ Cardinality(S \cap T) = 0
  BY FS_CardinalityType, FS_EmptySet
<1> QED BY <1>1, <1>2

(* MarkBlockAsInFlight for some blocks: the list of its peer has one entry    *)
(* more for each.                                                           *)
LEMMA AskedList ==
  ASSUME NEW s, NEW O, ListOK(s, O), NEW S \in SUBSET (Blocks \ O), NEW v \in BOOLEAN, NEW t,
         t.blocks = s.blocks \cup Entries(S, v), t.n = s.n + Cardinality(S),
         t.nValid = s.nValid + Counted(S, v),
         KeepsRest(s, t), t.stalling = s.stalling,
         t = [best |-> t.best, unknown |-> t.unknown, common |-> t.common, sync |-> t.sync,
              stalling |-> t.stalling, blocks |-> t.blocks, n |-> t.n, nValid |-> t.nValid,
              preferred |-> t.preferred, shouldBan |-> t.shouldBan]
  PROVE  /\ ListOK(t, O \cup S)
         /\ \A c \in O : ValidOf(t, {c}) = ValidOf(s, {c})
         /\ \A c \in S : ValidOf(t, {c}) # {} => v
<1> DEFINE E == Entries(S, v)
<1> USE DEF Entries
<1>1. /\ s \in CNodeStateType /\ s.n = Cardinality(s.blocks) /\ s.nValid = Cardinality(Valid(s))
      /\ \A e, f \in s.blocks : e.hash = f.hash => e = f
      /\ {e.hash : e \in s.blocks} = O /\ (s.stalling => O # {})
  BY DEF ListOK
<1>2. /\ IsFiniteSet(S) /\ Cardinality(S) \in Nat
      /\ s.blocks \in SUBSET [hash : Blocks, valid : BOOLEAN]
      /\ IsFiniteSet(s.blocks) /\ IsFiniteSet(Valid(s)) /\ s.n \in Nat /\ s.nValid \in Nat
      /\ \A e \in s.blocks : e.hash \in O
  BY ListFacts, FiniteBlocks
<1>3. /\ E \in SUBSET [hash : Blocks, valid : BOOLEAN] /\ E \cap s.blocks = {}
      /\ \A e \in E : e.hash \in S /\ e.valid = v
      /\ \A e, f \in E : e.hash = f.hash => e = f
      /\ {e.hash : e \in E} = S
  <2>1. \A e \in E : e.hash \in S /\ e.valid = v /\ e = [hash |-> e.hash, valid |-> v]
    OBVIOUS
  <2>2. \A c \in S : [hash |-> c, valid |-> v] \in E
    OBVIOUS
  <2>3. E \in SUBSET [hash : Blocks, valid : BOOLEAN]
    OBVIOUS
  <2> HIDE DEF E
  <2>4. E \cap s.blocks = {}
    BY <1>2, <2>1
  <2>5. \A e, f \in E : e.hash = f.hash => e = f
    BY <2>1
  <2>6. {e.hash : e \in E} = S
    BY <2>1, <2>2
  <2> QED BY <2>1, <2>3, <2>4, <2>5, <2>6
<1>4. t.blocks = s.blocks \cup E
  OBVIOUS
<1> HIDE DEF E
<1>5. IsFiniteSet(E) /\ Cardinality(E) = Cardinality(S)
  BY <1>3, OneEntryEach
<1>6. t.n = Cardinality(t.blocks) /\ t.n \in Nat
  <2>1. IsFiniteSet(s.blocks) /\ IsFiniteSet(E) /\ s.blocks \cap E = {}
    BY <1>2, <1>3, <1>5
  <2>2. Cardinality(t.blocks) = Cardinality(s.blocks) + Cardinality(E)
    BY <1>4, <2>1, DisjointUnion
  <2> QED BY <1>1, <1>2, <1>5, <2>2
<1>7. t.nValid = Cardinality(Valid(t)) /\ t.nValid \in Nat
  <2>1. CASE v
    <3>1. Valid(t) = Valid(s) \cup E /\ Valid(s) \cap E = {}
      BY <1>3, <1>4, <2>1 DEF Valid
    <3>2. Cardinality(Valid(t)) = Cardinality(Valid(s)) + Cardinality(E)
      BY <1>2, <1>5, <3>1, DisjointUnion
    <3>3. t.nValid = s.nValid + Cardinality(S)
      BY <2>1 DEF Counted
    <3> QED BY <1>1, <1>2, <1>5, <3>2, <3>3
  <2>2. CASE ~v
    <3>1. Valid(t) = Valid(s)
      BY <1>3, <1>4, <2>2 DEF Valid
    <3>2. t.nValid = s.nValid + 0
      BY <2>2 DEF Counted
    <3> QED BY <1>1, <1>2, <3>1, <3>2
  <2> QED BY <2>1, <2>2
<1>8. {e.hash : e \in t.blocks} = O \cup S
  BY <1>1, <1>3, <1>4
<1>9. \A e, f \in t.blocks : e.hash = f.hash => e = f
  BY <1>1, <1>2, <1>3, <1>4
<1>10. t \in CNodeStateType
  <2>1. t.blocks \in SUBSET [hash : Blocks, valid : BOOLEAN]
    BY <1>2, <1>3, <1>4
  <2> QED BY <1>1, <1>6, <1>7, <2>1 DEF CNodeStateType, KeepsRest
<1>11. \A c \in O : ValidOf(t, {c}) = ValidOf(s, {c})
  BY <1>3, <1>4 DEF ValidOf
<1>12. \A c \in S : ValidOf(t, {c}) # {} => v
  BY <1>2, <1>3, <1>4 DEF ValidOf
<1> QED BY <1>1, <1>6, <1>7, <1>8, <1>9, <1>10, <1>11, <1>12 DEF ListOK

KeepsMost(s, t) == KeepsRest(s, t) /\ t.stalling = s.stalling
LEMMA AskedFlight ==
  ASSUME NEW N, NEW m, NEW k, FlightInv(N, m, k), NEW p \in Peers,
         NEW S \in SUBSET (Blocks \ DOMAIN m), NEW v \in BOOLEAN, NEW r,
         r = MarkBlockAsInFlight([node |-> N, map |-> m, queued |-> k], p, S, v)
  PROVE  /\ FlightInv(r.node, r.map, r.queued)
         /\ r.map = Asking(m, p, S)
         /\ \A q \in Peers : KeepsMost(N[q], r.node[q])
         /\ r.node[p].n = N[p].n + Cardinality(S)
<1>2. S \cap DOMAIN m = {}
  OBVIOUS
<1>3. /\ r.node = Added(N, p, Entries(S, v), Cardinality(S), Counted(S, v))
      /\ r.map = [c \in DOMAIN m \cup S |-> IF c \in S THEN p ELSE m[c]]
      /\ r.queued = k + Counted(S, v)
  <2>1. MarkBlockAsReceived([node |-> N, map |-> m, queued |-> k], S)
          = [node |-> N, map |-> m, queued |-> k]
    BY <1>2, NothingReceived, Zenon
  <2> QED BY <2>1, SpreadFlight
<1>4. /\ N \in [Peers -> CNodeStateType]
      /\ DOMAIN m \subseteq Blocks /\ m \in [DOMAIN m -> Peers]
      /\ \A q \in Peers : ListOK(N[q], OwedBy(m, q))
      /\ k \in Nat /\ k >= Cardinality(Validated(N, m))
  BY DEF FlightInv
<1>5. PICK M : M = r.node
  OBVIOUS
<1>6. /\ M \in [Peers -> {M[q] : q \in Peers}] /\ \A q \in Peers \ {p} : M[q] = N[q]
      /\ M[p].blocks = N[p].blocks \cup Entries(S, v)
      /\ M[p].n = N[p].n + Cardinality(S) /\ M[p].nValid = N[p].nValid + Counted(S, v)
      /\ KeepsRest(N[p], M[p]) /\ M[p].stalling = N[p].stalling
      /\ M[p] = [best |-> M[p].best, unknown |-> M[p].unknown, common |-> M[p].common,
                 sync |-> M[p].sync, stalling |-> M[p].stalling, blocks |-> M[p].blocks,
                 n |-> M[p].n, nValid |-> M[p].nValid, preferred |-> M[p].preferred,
                 shouldBan |-> M[p].shouldBan]
  <2>1. M = Added(N, p, Entries(S, v), Cardinality(S), Counted(S, v))
    BY <1>3, <1>5, Zenon
  <2>2. N \in [Peers -> CNodeStateType]
    BY <1>4
  <2>3. PICK A, x, y : A = Entries(S, v) /\ x = Cardinality(S) /\ y = Counted(S, v)
    OBVIOUS
  <2>4. M = Added(N, p, A, x, y)
    BY <2>1, <2>3, Zenon
  <2>5. /\ M \in [Peers -> {M[q] : q \in Peers}] /\ \A q \in Peers \ {p} : M[q] = N[q]
        /\ M[p].blocks = N[p].blocks \cup A /\ M[p].n = N[p].n + x /\ M[p].nValid = N[p].nValid + y
        /\ KeepsRest(N[p], M[p]) /\ M[p].stalling = N[p].stalling
        /\ M[p] = [best |-> M[p].best, unknown |-> M[p].unknown, common |-> M[p].common,
                   sync |-> M[p].sync, stalling |-> M[p].stalling, blocks |-> M[p].blocks,
                   n |-> M[p].n, nValid |-> M[p].nValid, preferred |-> M[p].preferred,
                   shouldBan |-> M[p].shouldBan]
    BY <2>2, <2>4, MoreFields
  <2> QED BY <2>3, <2>5
<1>7. /\ OwedBy(r.map, p) = OwedBy(m, p) \cup S
      /\ \A q \in Peers \ {p} : OwedBy(r.map, q) = OwedBy(m, q)
  <2>1. DOMAIN r.map = DOMAIN m \cup S /\ \A c \in DOMAIN r.map : r.map[c] = IF c \in S THEN p ELSE m[c]
    BY <1>3
  <2> QED BY <2>1 DEF OwedBy
<1>8. S \in SUBSET (Blocks \ OwedBy(m, p))
  BY DEF OwedBy
<1>9. /\ ListOK(M[p], OwedBy(m, p) \cup S)
      /\ \A c \in OwedBy(m, p) : ValidOf(M[p], {c}) = ValidOf(N[p], {c})
      /\ \A c \in S : ValidOf(M[p], {c}) # {} => v
  <2>1. ListOK(N[p], OwedBy(m, p))
    BY <1>4
  <2>2. PICK s, t, O : s = N[p] /\ t = M[p] /\ O = OwedBy(m, p)
    OBVIOUS
  <2>3. /\ t.blocks = s.blocks \cup Entries(S, v) /\ t.n = s.n + Cardinality(S)
        /\ t.nValid = s.nValid + Counted(S, v)
        /\ KeepsRest(s, t) /\ t.stalling = s.stalling
        /\ t = [best |-> t.best, unknown |-> t.unknown, common |-> t.common, sync |-> t.sync,
                stalling |-> t.stalling, blocks |-> t.blocks, n |-> t.n, nValid |-> t.nValid,
                preferred |-> t.preferred, shouldBan |-> t.shouldBan]
    BY <1>6, <2>2, Zenon
  <2>4. ListOK(s, O) /\ S \in SUBSET (Blocks \ O)
    BY <1>8, <2>1, <2>2
  <2>5. /\ ListOK(t, O \cup S)
        /\ \A c \in O : ValidOf(t, {c}) = ValidOf(s, {c})
        /\ \A c \in S : ValidOf(t, {c}) # {} => v
    BY <2>3, <2>4, AskedList
  <2> QED BY <2>2, <2>5, Zenon
<1>10. \A q \in Peers : ListOK(M[q], OwedBy(r.map, q))
  BY <1>4, <1>6, <1>7, <1>9
<1>11. M \in [Peers -> CNodeStateType]
  <2>1. \A q \in Peers : M[q] \in CNodeStateType
    BY <1>10 DEF ListOK
  <2> QED BY <1>6, <2>1
<1>12. DOMAIN r.map \subseteq Blocks /\ r.map \in [DOMAIN r.map -> Peers]
  BY <1>3, <1>4
<1>13. r.queued \in Nat /\ r.queued >= Cardinality(Validated(M, r.map))
  <2>1. Validated(M, r.map) \subseteq Validated(N, m) \cup (IF v THEN S ELSE {})
    <3>1. ASSUME NEW c \in Validated(M, r.map) PROVE c \in Validated(N, m) \/ (c \in S /\ v)
      <4>1. c \in DOMAIN m \cup S /\ r.map[c] = (IF c \in S THEN p ELSE m[c])
            /\ ValidOf(M[r.map[c]], {c}) # {}
        BY <1>3, <3>1 DEF Validated
      <4>2. CASE c \in S
        BY <1>9, <4>1, <4>2
      <4>3. CASE c \notin S
        <5>1. c \in DOMAIN m /\ m[c] \in Peers /\ c \in OwedBy(m, m[c])
          BY <1>4, <4>1, <4>3 DEF OwedBy
        <5>2. ValidOf(M[m[c]], {c}) = ValidOf(N[m[c]], {c})
          BY <1>6, <1>9, <5>1
        <5> QED BY <4>1, <4>3, <5>1, <5>2 DEF Validated
      <4> QED BY <4>2, <4>3
    <3> QED BY <3>1
  <2>2. /\ IsFiniteSet(Validated(N, m)) /\ Cardinality(Validated(N, m)) \in Nat
        /\ IsFiniteSet(S) /\ Cardinality(S) \in Nat
        /\ Cardinality(Validated(M, r.map)) \in Nat
        /\ Validated(N, m) \cap S = {}
    BY <1>4, <1>12, FiniteBlocks DEF Validated
  <2>3. k \in Nat /\ k >= Cardinality(Validated(N, m)) /\ r.queued = k + Counted(S, v)
    BY <1>3, <1>4
  <2>4. CASE v
    <3>1. /\ IsFiniteSet(Validated(N, m) \cup S)
          /\ Cardinality(Validated(N, m) \cup S) = Cardinality(Validated(N, m)) + Cardinality(S)
      BY <2>2, DisjointUnion
    <3>2. Validated(M, r.map) \in SUBSET (Validated(N, m) \cup S)
      BY <2>1
    <3>3. Cardinality(Validated(M, r.map)) <= Cardinality(Validated(N, m) \cup S)
      BY <3>1, <3>2, FS_Subset
    <3>4. Counted(S, v) = Cardinality(S)
      BY <2>4 DEF Counted
    <3> QED BY <2>2, <2>3, <3>1, <3>3, <3>4
  <2>5. CASE ~v
    <3>1. Validated(M, r.map) \in SUBSET Validated(N, m)
      BY <2>1, <2>5
    <3>2. Cardinality(Validated(M, r.map)) <= Cardinality(Validated(N, m))
      BY <2>2, <3>1, FS_Subset
    <3>3. Counted(S, v) = 0
      BY <2>5 DEF Counted
    <3> QED BY <2>2, <2>3, <3>2, <3>3
  <2> QED BY <2>4, <2>5
<1>14. FlightInv(r.node, r.map, r.queued)
  BY <1>5, <1>10, <1>11, <1>12, <1>13 DEF FlightInv
<1>15. \A q \in Peers : KeepsMost(N[q], M[q])
  BY <1>6 DEF KeepsRest, KeepsMost
<1>16. r.map = Asking(m, p, S)
  BY <1>3 DEF Asking
<1> QED BY <1>5, <1>6, <1>14, <1>15, <1>16

(* A new CNodeState has an empty list.                                       *)
LEMMA NewList ==
  ASSUME NEW s, s = CNodeState \/ \E x \in BOOLEAN : s = [CNodeState EXCEPT !.preferred = x]
  PROVE  ListOK(s, {}) /\ s.sync = FALSE /\ s.common = NoBlock /\ s.shouldBan = FALSE
         /\ s.best = NoBlock /\ s.unknown = NoBlock
<1>1. /\ s.blocks = {} /\ s.n = 0 /\ s.nValid = 0 /\ s.stalling = FALSE /\ s.sync = FALSE
      /\ s.common = NoBlock /\ s.best = NoBlock /\ s.unknown = NoBlock /\ s.shouldBan = FALSE
      /\ s \in CNodeStateType
  <2>1. PICK e : e = CNodeState
    OBVIOUS
  <2>2. /\ e.blocks = {} /\ e.n = 0 /\ e.nValid = 0 /\ e.stalling = FALSE /\ e.sync = FALSE
        /\ e.common = NoBlock /\ e.best = NoBlock /\ e.unknown = NoBlock /\ e.shouldBan = FALSE
        /\ e \in CNodeStateType
    BY <2>1 DEF CNodeState, CNodeStateType
  <2>3. s = e \/ \E x \in BOOLEAN : s = [e EXCEPT !.preferred = x]
    BY <2>1
  <2> QED BY <2>2, <2>3 DEF CNodeStateType
<1>2. Valid(s) = {}
  BY <1>1 DEF Valid
<1> QED BY <1>1, <1>2, FS_EmptySet DEF ListOK

(* FinalizeNode: what was asked of p is asked of nobody, and the counter of   *)
(* validated ones keeps what it had.                                         *)
Hashes(s) == {e.hash : e \in s.blocks}
Reset(N, p) == [N EXCEPT ![p] = CNodeState]
LEMMA ErasedFlight ==
  ASSUME NEW N, NEW m, NEW k, FlightInv(N, m, k), NEW p \in Peers,
         NEW M, M = Reset(N, p), NEW w, w = Without(m, Hashes(N[p]))
  PROVE  FlightInv(M, w, k) /\ w = Without(m, OwedBy(m, p))
<1>1. /\ N \in [Peers -> CNodeStateType]
      /\ DOMAIN m \subseteq Blocks /\ m \in [DOMAIN m -> Peers]
      /\ \A q \in Peers : ListOK(N[q], OwedBy(m, q))
      /\ k \in Nat /\ k >= Cardinality(Validated(N, m))
  BY DEF FlightInv
<1>2. Hashes(N[p]) = OwedBy(m, p)
  BY <1>1 DEF ListOK, Hashes
<1>3. w = [b \in DOMAIN m \ OwedBy(m, p) |-> m[b]]
  BY <1>2 DEF Without
<1>4. /\ DOMAIN w = {b \in DOMAIN m : m[b] # p} /\ \A b \in DOMAIN w : w[b] = m[b]
      /\ DOMAIN w \subseteq Blocks /\ w \in [DOMAIN w -> Peers]
  BY <1>1, <1>3 DEF OwedBy
<1>5. OwedBy(w, p) = {} /\ \A q \in Peers \ {p} : OwedBy(w, q) = OwedBy(m, q)
  BY <1>4 DEF OwedBy
<1>6. M[p] = CNodeState /\ \A q \in Peers \ {p} : M[q] = N[q]
  BY <1>1 DEF Reset
<1>7. ListOK(M[p], {})
  BY <1>6, NewList
<1>8. \A q \in Peers : ListOK(M[q], OwedBy(w, q))
  BY <1>1, <1>5, <1>6, <1>7
<1>9. M \in [Peers -> CNodeStateType]
  <2>1. CNodeState \in CNodeStateType
    BY <1>6, <1>7 DEF ListOK
  <2> QED BY <1>1, <2>1 DEF Reset
<1>10. Validated(M, w) \in SUBSET Validated(N, m)
  BY <1>1, <1>4, <1>6 DEF Validated
<1>11. Cardinality(Validated(M, w)) <= Cardinality(Validated(N, m))
       /\ Cardinality(Validated(M, w)) \in Nat /\ Cardinality(Validated(N, m)) \in Nat
  <2>1. Validated(N, m) \in SUBSET Blocks
    BY <1>1 DEF Validated
  <2> QED BY <1>10, <2>1, FiniteBlocks, FS_Subset
<1>12. w = Without(m, OwedBy(m, p))
  BY <1>2
<1>13. k \in Nat /\ k >= Cardinality(Validated(M, w))
  BY <1>1, <1>11
<1>14. FlightInv(M, w, k)
  BY <1>4, <1>8, <1>9, <1>13 DEF FlightInv
<1> QED BY <1>12, <1>14

(* What does not touch the lists, and marks as stalling only whom a block is  *)
(* asked of.                                                                *)
SameList(s, t) ==
  /\ t \in CNodeStateType
  /\ t.blocks = s.blocks /\ t.n = s.n /\ t.nValid = s.nValid

LEMMA SameFlight ==
  ASSUME NEW N, NEW m, NEW k, FlightInv(N, m, k), NEW M \in [Peers -> CNodeStateType],
         \A q \in Peers : /\ SameList(N[q], M[q])
                          /\ M[q].stalling => N[q].stalling \/ OwedBy(m, q) # {}
  PROVE  FlightInv(M, m, k)
<1>1. /\ DOMAIN m \subseteq Blocks /\ m \in [DOMAIN m -> Peers]
      /\ \A q \in Peers : ListOK(N[q], OwedBy(m, q))
      /\ k \in Nat /\ k >= Cardinality(Validated(N, m))
  BY DEF FlightInv
<1>2. \A q \in Peers : Valid(M[q]) = Valid(N[q]) /\ \A S : ValidOf(M[q], S) = ValidOf(N[q], S)
  BY DEF Valid, ValidOf, SameList
<1>3. Validated(M, m) = Validated(N, m)
  BY <1>1, <1>2 DEF Validated
<1>4. \A q \in Peers : ListOK(M[q], OwedBy(m, q))
  BY <1>1, <1>2 DEF ListOK, SameList
<1> QED BY <1>1, <1>3, <1>4 DEF FlightInv
-----------------------------------------------------------------------------
(* Numbers of peers with a flag.                                             *)
Syncing(N) == {p \in Peers : N[p].sync}
Preferred(N) == {p \in Peers : N[p].preferred}

ConnInv ==
  /\ conn \in [Peers -> {"away", "up", "closing", "gone"}]
  /\ \A p \in Peers \ Connected : node[p] = CNodeState
  /\ nSync = Cardinality(Syncing(node)) /\ nPreferred = Cardinality(Preferred(node))
ChainInv ==
  /\ index \subseteq Blocks /\ data \subseteq index /\ failed \subseteq index
  /\ tip \in Linked(data) /\ bestHeader \in index
  /\ source \in [BadSpend -> Peers \cup {NoPeer}] /\ locked \in BOOLEAN
  /\ requests \in [Peers -> Seq(RequestType)]
KnownInv == \A p \in Peers :
  /\ node[p].common # NoBlock => node[p].common \in Linked(data)
  /\ p \notin Slow => {node[p].best, node[p].unknown, node[p].common}
                        \subseteq Chain[Offers[p]] \cup {NoBlock}
IInv == FlightInv(node, inFlight, nQueued) /\ ConnInv /\ ChainInv /\ KnownInv

(* The blocks of one chain, numbered from the lowest, are all there.          *)
LEMMA InOrderOf ==
  ASSUME NEW b \in Blocks, NEW S \in SUBSET Chain[b]
  PROVE  /\ Cardinality(S) \in Nat
         /\ \A i \in 1..Cardinality(S) : InOrder(S)[i] \in S
<1> DEFINE Lower(c) == {d \in S : Height[d] < Height[c]}
           n == Cardinality(S)
           rank == [c \in S |-> Cardinality(Lower(c))]
<1>1. S \in SUBSET Blocks /\ IsFiniteSet(S) /\ n \in Nat
  BY OwnChain, FiniteBlocks
<1>2. \A c \in S : Height[c] \in Nat
  BY <1>1, BlockDownloadAssumption
<1>3. \A c \in S : Lower(c) \in SUBSET Blocks /\ Lower(c) \in SUBSET S /\ c \notin Lower(c)
  BY <1>1, <1>2
<1>4. \A c \in S : IsFiniteSet(Lower(c)) /\ Cardinality(Lower(c)) \in Nat /\ Cardinality(Lower(c)) < n
  <2>1. TAKE c \in S
  <2>2. IsFiniteSet(Lower(c)) /\ Cardinality(Lower(c)) \in Nat
    BY <1>3, FiniteBlocks
  <2>3. Cardinality(Lower(c)) <= n /\ Cardinality(Lower(c)) # n
    <3>1. Lower(c) \in SUBSET S /\ Lower(c) # S
      BY <1>3
    <3> HIDE DEF Lower
    <3> QED BY <1>1, <3>1, FS_Subset
  <2> HIDE DEF Lower, n
  <2> QED BY <1>1, <2>2, <2>3
<1>5. \A c, d \in S : Height[c] < Height[d] => Cardinality(Lower(c)) < Cardinality(Lower(d))
  <2>1. TAKE c, d \in S
  <2>2. HAVE Height[c] < Height[d]
  <2>3. Lower(c) \in SUBSET Lower(d) /\ c \in Lower(d) /\ c \notin Lower(c)
    BY <1>2, <2>2
  <2>4. Lower(c) # Lower(d)
    BY <2>3
  <2>5. Cardinality(Lower(c)) <= Cardinality(Lower(d)) /\ Cardinality(Lower(c)) # Cardinality(Lower(d))
    <3> HIDE DEF Lower
    <3> QED BY <1>4, <2>3, <2>4, FS_Subset
  <2> HIDE DEF Lower
  <2> QED BY <1>4, <2>5
<1> HIDE DEF Lower
<1>6. rank \in [S -> 0..(n - 1)]
  BY <1>1, <1>4
<1>7. \A c, d \in S : rank[c] = rank[d] => c = d
  <2>1. TAKE c, d \in S
  <2>2. HAVE rank[c] = rank[d]
  <2>3. ~(Height[c] < Height[d]) /\ ~(Height[d] < Height[c])
    BY <1>4, <1>5, <2>2
  <2>4. Height[c] = Height[d]
    BY <1>2, <2>3
  <2> QED BY <2>4, OneOfEachHeight
<1>8. rank \in Injection(S, 0..(n - 1))
  BY <1>6, <1>7 DEF Injection, IsInjective
<1>9. IsFiniteSet(0..(n - 1)) /\ Cardinality(0..(n - 1)) = n
  BY <1>1, FS_Interval
<1>10. rank \in Surjection(S, 0..(n - 1))
  <2> HIDE DEF rank
  <2> QED BY <1>8, <1>9, FS_Injection
<1>11. ASSUME NEW i \in 1..n PROVE InOrder(S)[i] \in S
  <2>1. i - 1 \in 0..(n - 1)
    BY <1>1
  <2>2. PICK c \in S : Cardinality(Lower(c)) = i - 1
    BY <1>10, <2>1 DEF Surjection
  <2>3. InOrder(S)[i] = CHOOSE x \in S : Cardinality({d \in S : Height[d] < Height[x]}) = i - 1
    BY <1>11 DEF InOrder
  <2> QED BY <2>2, <2>3 DEF Lower
<1> QED BY <1>1, <1>11

(* ProcessBlockAvailability, UpdateBlockAvailability and the search for blocks *)
(* change what is known of a peer's chain and nothing else.                  *)
Touch(s, t) ==
  /\ SameList(s, t) /\ t.stalling = s.stalling
  /\ t.sync = s.sync /\ t.preferred = s.preferred /\ t.shouldBan = s.shouldBan

LEMMA Processed ==
  ASSUME NEW s \in CNodeStateType, NEW I \in SUBSET Blocks, NEW t,
         t = ProcessBlockAvailability(s, I)
  PROVE  /\ Touch(s, t) /\ t.common = s.common
         /\ t.best \in {s.best, s.unknown} /\ t.unknown \in {s.unknown, NoBlock}
         /\ t.best = s.best \/ t.best \in I
<1>1. /\ s.best \in Blocks \cup {NoBlock} /\ s.unknown \in Blocks \cup {NoBlock}
  BY DEF CNodeStateType
<1>2. CASE s.unknown \notin I
  <2>1. t = s
    BY <1>2 DEF ProcessBlockAvailability
  <2> QED BY <2>1 DEF Touch, SameList
<1>3. CASE s.unknown \in I
  <2>1. PICK x : x = Better(s, s.unknown)
    OBVIOUS
  <2>2. x \in {s.best, s.unknown} /\ x \in Blocks /\ (x = s.best \/ x \in I)
    BY <1>1, <1>3, <2>1 DEF Better
  <2>3. t = [s EXCEPT !.best = x, !.unknown = NoBlock]
    BY <1>3, <2>1 DEF ProcessBlockAvailability
  <2>4. /\ t.best = x /\ t.unknown = NoBlock /\ t.common = s.common
        /\ t.blocks = s.blocks /\ t.n = s.n /\ t.nValid = s.nValid /\ t.stalling = s.stalling
        /\ t.sync = s.sync /\ t.preferred = s.preferred /\ t.shouldBan = s.shouldBan
        /\ t \in CNodeStateType
    BY <2>2, <2>3 DEF CNodeStateType
  <2> QED BY <2>2, <2>4 DEF Touch, SameList
<1> QED BY <1>2, <1>3

LEMMA Updated ==
  ASSUME NEW s \in CNodeStateType, NEW I \in SUBSET Blocks, NEW b \in Blocks, NEW t,
         t = UpdateBlockAvailability(s, b, I)
  PROVE  /\ Touch(s, t) /\ t.common = s.common
         /\ t.best \in {s.best, s.unknown, b} /\ t.unknown \in {s.unknown, NoBlock, b}
         /\ t.best = s.best \/ t.best \in I
<1>1. PICK u : u = ProcessBlockAvailability(s, I)
  OBVIOUS
<1>2. /\ Touch(s, u) /\ u.common = s.common
      /\ u.best \in {s.best, s.unknown} /\ u.unknown \in {s.unknown, NoBlock}
      /\ u.best = s.best \/ u.best \in I
  BY <1>1, Processed
<1>3. u \in CNodeStateType
  BY <1>2 DEF Touch, SameList
<1>4. t = IF b \in I THEN [u EXCEPT !.best = Better(u, b)] ELSE [u EXCEPT !.unknown = b]
  BY <1>1 DEF UpdateBlockAvailability
<1>5. PICK x : x = Better(u, b)
  OBVIOUS
<1>6. x \in {u.best, b}
  BY <1>5 DEF Better
<1>7. CASE b \in I
  <2>1. t = [u EXCEPT !.best = x]
    BY <1>4, <1>5, <1>7
  <2>2. /\ t.best = x /\ t.unknown = u.unknown /\ t.common = u.common
        /\ t.blocks = u.blocks /\ t.n = u.n /\ t.nValid = u.nValid /\ t.stalling = u.stalling
        /\ t.sync = u.sync /\ t.preferred = u.preferred /\ t.shouldBan = u.shouldBan
        /\ t \in CNodeStateType
    BY <1>3, <1>6, <2>1 DEF CNodeStateType
  <2>3. t.best = s.best \/ t.best \in I
    BY <1>2, <1>6, <1>7, <2>2
  <2>4. /\ t.best \in {s.best, s.unknown, b} /\ t.unknown \in {s.unknown, NoBlock, b}
    BY <1>2, <1>6, <2>2
  <2> QED BY <1>2, <2>2, <2>3, <2>4 DEF Touch, SameList
<1>8. CASE b \notin I
  <2>1. t = [u EXCEPT !.unknown = b]
    BY <1>4, <1>8
  <2>2. /\ t.best = u.best /\ t.unknown = b /\ t.common = u.common
        /\ t.blocks = u.blocks /\ t.n = u.n /\ t.nValid = u.nValid /\ t.stalling = u.stalling
        /\ t.sync = u.sync /\ t.preferred = u.preferred /\ t.shouldBan = u.shouldBan
        /\ t \in CNodeStateType
    BY <1>3, <2>1 DEF CNodeStateType
  <2> QED BY <1>2, <2>2 DEF Touch, SameList
<1> QED BY <1>7, <1>8

(* The walk of FindNextBlocksToDownload comes to no more blocks that it can    *)
(* ask for than there is room for.                                          *)
LEMMA SeenFits ==
  ASSUME NEW walk \in SUBSET Blocks, NEW room \in Nat
  PROVE  /\ Free(Seen(walk, room)) \in SUBSET Blocks
         /\ Cardinality(Free(Seen(walk, room))) <= room
<1> DEFINE F == Free(Seen(walk, room))
           Upto(b) == {c \in walk : Height[c] <= Height[b]}
<1>1. F \in SUBSET Free(walk) /\ F \in SUBSET Seen(walk, room) /\ F \in SUBSET Blocks
  BY DEF Free, Unasked, Have, Seen
<1>2. \A b \in Seen(walk, room) : Cardinality((Free(walk) \cap Upto(b)) \ {b}) < room
  BY DEF Seen
<1>3. Free(walk) \in SUBSET walk
  BY DEF Free, Unasked, Have
<1> HIDE DEF F
<1>4. IsFiniteSet(F) /\ Cardinality(F) \in Nat
  BY <1>1, FiniteBlocks
<1>5. CASE F = {}
  <2>1. Cardinality(F) = 0
    BY <1>5, FS_EmptySet
  <2> QED BY <1>1, <2>1 DEF F
<1>6. CASE F # {}
  <2>1. PICK h \in F : \A c \in F : Height[c] <= Height[h]
    BY <1>1, <1>6, HighestBlock
  <2>2. F \ {h} \in SUBSET ((Free(walk) \cap Upto(h)) \ {h})
    BY <1>1, <1>3, <2>1
  <2>3. (Free(walk) \cap Upto(h)) \ {h} \in SUBSET Blocks
    BY <1>3
  <2>4. Cardinality((Free(walk) \cap Upto(h)) \ {h}) < room
    BY <1>1, <1>2, <2>1
  <2>5. /\ Cardinality(F \ {h}) <= Cardinality((Free(walk) \cap Upto(h)) \ {h})
        /\ Cardinality((Free(walk) \cap Upto(h)) \ {h}) \in Nat /\ Cardinality(F \ {h}) \in Nat
    <3> HIDE DEF Upto
    <3>1. F \ {h} \in SUBSET Blocks
      BY <1>1
    <3> QED BY <2>2, <2>3, <3>1, FiniteBlocks, FS_Subset
  <2>6. Cardinality(F \ {h}) = Cardinality(F) - 1
    BY <1>4, <2>1, FS_RemoveElement
  <2> HIDE DEF Upto
  <2>7. Cardinality(F) <= room
    BY <1>4, <2>4, <2>5, <2>6
  <2> QED BY <1>1, <2>7 DEF F
<1> QED BY <1>5, <1>6

LEMMA LinkedChains ==
  ASSUME NEW D, NEW b \in Linked(D)
  PROVE  b \in Blocks /\ b \in D /\ Chain[b] \subseteq Linked(D)
<1>1. b \in Blocks /\ Chain[b] \subseteq D
  BY DEF Linked
<1>2. \A x \in Chain[b] : Chain[x] \subseteq D
  BY <1>1, ChainOfAncestor
<1> QED BY <1>1, <1>2, OwnChain DEF Linked

(* Where the search starts: at a block of the peer's best chain, which we     *)
(* have if we have the chain of the tip and the last common block so far.    *)
SureOf(s) == tip \in Linked(data) /\ (s.common # NoBlock => s.common \in Linked(data))

LEMMA CommonWithOK ==
  ASSUME NEW s \in CNodeStateType, s.best \in Blocks, tip \in Blocks
  PROVE  /\ CommonWith(s) \in Chain[s.best]
         /\ SureOf(s) => CommonWith(s) \in Linked(data)
<1> DEFINE A == {b \in Chain[tip] : Height[b] <= Height[s.best]}
<1>1. PICK x : x = IF s.common = NoBlock THEN Highest(A) ELSE s.common
  OBVIOUS
<1>2. CommonWith(s) = Highest(Chain[x] \cap Chain[s.best])
  BY <1>1 DEF CommonWith, LastCommonAncestor
<1>3. A \in SUBSET Blocks /\ A # {}
  <2>1. Genesis \in Chain[tip] /\ Height[Genesis] <= Height[s.best]
    BY GenesisInChain, BlockDownloadAssumption
  <2> QED BY <2>1, OwnChain
<1> HIDE DEF A
<1>4. Highest(A) \in A
  BY <1>3, HighestBlock
<1>5. x \in Blocks
  BY <1>1, <1>3, <1>4 DEF CNodeStateType
<1>6. Chain[x] \cap Chain[s.best] \in SUBSET Blocks /\ Chain[x] \cap Chain[s.best] # {}
  BY <1>5, GenesisInChain, OwnChain
<1>7. CommonWith(s) \in Chain[x] \cap Chain[s.best]
  BY <1>2, <1>6, HighestBlock
<1>8. SureOf(s) => x \in Linked(data)
  BY <1>1, <1>4, LinkedChains DEF SureOf, A
<1> QED BY <1>7, <1>8, LinkedChains

(* The peer that is found to keep the window from moving owes a block.        *)
LEMMA FirstAskedOwes ==
  ASSUME NEW S \in SUBSET (Blocks \cap DOMAIN inFlight), inFlight \in [DOMAIN inFlight -> Peers]
  PROVE  FirstAsked(S) = NoPeer \/ (FirstAsked(S) \in Peers /\ OwedBy(inFlight, FirstAsked(S)) # {})
<1>1. CASE S = {}
  BY <1>1 DEF FirstAsked
<1>2. CASE S # {}
  <2> DEFINE h == CHOOSE b \in S : \A c \in S : Height[b] <= Height[c]
  <2>1. h \in S
    BY <1>2, LowestBlock
  <2>2. FirstAsked(S) = inFlight[h]
    BY <1>2 DEF FirstAsked
  <2> HIDE DEF h
  <2> QED BY <2>1, <2>2 DEF OwedBy
<1> QED BY <1>1, <1>2

(* What FindNextBlocksToDownload returns.                                    *)
FoundOK(s, r) ==
  /\ Touch(s, r.state)
  /\ r.state.best \in {s.best, s.unknown} /\ r.state.unknown \in {s.unknown, NoBlock}
  /\ r.state.best = s.best \/ r.state.best \in index
  /\ r.want \in SUBSET (Blocks \ DOMAIN inFlight)
  /\ r.want # {} => /\ Cardinality(r.want) + s.n <= MaxInTransit
                    /\ r.state.best \in Blocks /\ r.want \subseteq Chain[r.state.best]
  /\ r.staller = NoPeer \/ (r.staller \in Peers /\ OwedBy(inFlight, r.staller) # {})
  /\ \/ r.state.common = s.common
     \/ /\ r.state.best \in Blocks /\ r.state.common \in Chain[r.state.best]
        /\ SureOf(s) => r.state.common \in Linked(data)

LEMMA NothingFound ==
  ASSUME NEW s \in CNodeStateType, NEW t, Touch(s, t), t.common = s.common,
         t.best \in {s.best, s.unknown}, t.unknown \in {s.unknown, NoBlock},
         t.best = s.best \/ t.best \in index,
         NEW r, r = NothingFrom(t)
  PROVE  FoundOK(s, r)
<1>1. r.state = t /\ r.want = {} /\ r.staller = NoPeer
  BY DEF NothingFrom
<1> QED BY <1>1 DEF FoundOK

LEMMA SomethingFound ==
  ASSUME NEW s \in CNodeStateType, NEW t, Touch(s, t), t.common = s.common,
         t.best \in {s.best, s.unknown}, t.unknown \in {s.unknown, NoBlock}, t.best \in Blocks,
         t.best = s.best \/ t.best \in index,
         s.n < MaxInTransit, tip \in Blocks, inFlight \in [DOMAIN inFlight -> Peers],
         NEW p \in Peers, NEW r,
         r = Found(p, t, CommonWith(t), Seen(Walk(t.best, CommonWith(t)), MaxInTransit - t.n))
  PROVE  FoundOK(s, r)
<1>1. t \in CNodeStateType /\ t.n = s.n /\ s.n \in Nat
  BY DEF Touch, SameList, CNodeStateType
<1>2. PICK common : common = CommonWith(t)
  OBVIOUS
<1>3. PICK walk : walk = Walk(t.best, common)
  OBVIOUS
<1>4. PICK room : room = MaxInTransit - t.n
  OBVIOUS
<1>5. PICK seen : seen = Seen(walk, room)
  OBVIOUS
<1>6. r = Found(p, t, common, seen)
  BY <1>2, <1>3, <1>4, <1>5
<1>7. /\ common \in Chain[t.best] /\ common \in Blocks
      /\ SureOf(t) => common \in Linked(data)
  BY <1>1, <1>2, CommonWithOK, OwnChain
<1>8. walk \in SUBSET Chain[t.best] /\ walk \in SUBSET Blocks /\ seen \in SUBSET walk
  BY <1>3, <1>5, OwnChain DEF Walk, Seen
<1>9. room \in Nat /\ t.n + room = MaxInTransit
  BY <1>1, <1>4, BlockDownloadAssumption
<1>10. Free(seen) \in SUBSET Blocks /\ Cardinality(Free(seen)) <= room
  BY <1>5, <1>8, <1>9, SeenFits
<1>11. PICK h : h = Highest({common} \cup Linking(Have(seen)))
  OBVIOUS
<1>12. Linking(Have(seen)) \in SUBSET seen /\ Linking(Have(seen)) \in SUBSET Linked(data)
  BY DEF Linking, Have
<1>13. h \in {common} \cup Linking(Have(seen))
  <2>1. {common} \cup Linking(Have(seen)) \in SUBSET Blocks
    BY <1>7, <1>8, <1>12
  <2> QED BY <1>11, <2>1, HighestBlock
<1>14. /\ r.state = [t EXCEPT !.common = h]
       /\ r.want = {b \in Free(seen) : Height[b] <= Height[common] + Window}
       /\ \/ r.staller = NoPeer
          \/ r.staller = FirstAsked((seen \ Have(seen)) \cap DOMAIN inFlight)
  BY <1>6, <1>11 DEF Found
<1>15. h \in Chain[t.best] /\ h \in Blocks /\ (SureOf(t) => h \in Linked(data))
  BY <1>7, <1>8, <1>12, <1>13
<1>16. Touch(t, r.state) /\ r.state.common = h
       /\ r.state.best = t.best /\ r.state.unknown = t.unknown
  <2>1. PICK q : q = r.state
    OBVIOUS
  <2>2. q = [t EXCEPT !.common = h]
    BY <1>14, <2>1
  <2>3. /\ q.best = t.best /\ q.unknown = t.unknown /\ q.common = h
        /\ q.blocks = t.blocks /\ q.n = t.n /\ q.nValid = t.nValid /\ q.stalling = t.stalling
        /\ q.sync = t.sync /\ q.preferred = t.preferred /\ q.shouldBan = t.shouldBan
        /\ q \in CNodeStateType
    BY <1>1, <1>15, <2>2 DEF CNodeStateType
  <2> QED BY <2>1, <2>3 DEF Touch, SameList
<1>17. Touch(s, r.state)
  BY <1>16 DEF Touch, SameList
<1>18. r.want \in SUBSET Free(seen) /\ r.want \in SUBSET (Blocks \ DOMAIN inFlight)
       /\ r.want \in SUBSET Chain[t.best]
  BY <1>8, <1>14 DEF Free, Unasked, Have
<1>19. Cardinality(r.want) + s.n <= MaxInTransit
  <2>1. /\ Cardinality(r.want) <= Cardinality(Free(seen))
        /\ Cardinality(r.want) \in Nat /\ Cardinality(Free(seen)) \in Nat
    BY <1>10, <1>18, FiniteBlocks, FS_Subset
  <2>2. MaxInTransit \in Nat
    BY BlockDownloadAssumption
  <2> QED BY <1>1, <1>9, <1>10, <2>1, <2>2
<1>20. r.staller = NoPeer \/ (r.staller \in Peers /\ OwedBy(inFlight, r.staller) # {})
  <2>1. (seen \ Have(seen)) \cap DOMAIN inFlight \in SUBSET (Blocks \cap DOMAIN inFlight)
    BY <1>8
  <2> QED BY <1>14, <2>1, FirstAskedOwes
<1>21. SureOf(s) => SureOf(t)
  BY DEF SureOf
<1>22. /\ r.state.best \in Blocks /\ r.state.common \in Chain[r.state.best]
       /\ SureOf(s) => r.state.common \in Linked(data)
  BY <1>15, <1>16, <1>21
<1>23. r.want # {} => r.state.best \in Blocks /\ r.want \subseteq Chain[r.state.best]
  BY <1>16, <1>18
<1> QED BY <1>16, <1>17, <1>18, <1>19, <1>20, <1>22, <1>23 DEF FoundOK

LEMMA ToAskOK ==
  ASSUME NEW s \in CNodeStateType, NEW p \in Peers, NEW r, r = ToAsk(p, s),
         index \in SUBSET Blocks, tip \in Blocks, inFlight \in [DOMAIN inFlight -> Peers]
  PROVE  FoundOK(s, r)
<1>1. PICK t : t = ProcessBlockAvailability(s, index)
  OBVIOUS
<1>2. /\ Touch(s, t) /\ t.common = s.common
      /\ t.best \in {s.best, s.unknown} /\ t.unknown \in {s.unknown, NoBlock}
      /\ t.best = s.best \/ t.best \in index
  BY <1>1, Processed
<1>3. \/ r = NothingFrom(s) \/ r = NothingFrom(t)
      \/ /\ s.n < MaxInTransit /\ t.best # NoBlock
         /\ r = Found(p, t, CommonWith(t), Seen(Walk(t.best, CommonWith(t)), MaxInTransit - t.n))
  BY <1>1, Zenon DEF ToAsk, FindNextBlocksToDownload, FindIn
<1>4. CASE r = NothingFrom(s)
  <2>1. Touch(s, s)
    BY DEF Touch, SameList
  <2> QED BY <1>4, <2>1, NothingFound
<1>5. CASE r = NothingFrom(t)
  BY <1>2, <1>5, NothingFound
<1>6. CASE /\ s.n < MaxInTransit /\ t.best # NoBlock
           /\ r = Found(p, t, CommonWith(t), Seen(Walk(t.best, CommonWith(t)), MaxInTransit - t.n))
  <2>1. t.best \in Blocks
    BY <1>2, <1>6 DEF CNodeStateType
  <2> QED BY <1>2, <1>6, <2>1, SomethingFound
<1> QED BY <1>3, <1>4, <1>5, <1>6
-----------------------------------------------------------------------------
(* What a message tells of the blocks of a peer, A being those it may name.   *)
Hears(s, t, A) ==
  /\ t.sync = s.sync /\ t.preferred = s.preferred /\ t.common = s.common
  /\ t.best \in {s.best, s.unknown} \cup A /\ t.unknown \in {s.unknown, NoBlock} \cup A
Only(q, p, A) == IF q = p THEN A ELSE {}
Told(N, M, p, A) ==
  /\ M \in [Peers -> CNodeStateType]
  /\ \A q \in Peers : /\ Hears(N[q], M[q], Only(q, p, A))
                      /\ q \notin Connected => M[q].shouldBan = N[q].shouldBan

(* The CNodeState of a peer that is away stays what CNodeState() makes it.    *)
LEMMA BlankList ==
  ASSUME NEW t, ListOK(t, {}), Hears(CNodeState, t, {}), t.shouldBan = CNodeState.shouldBan
  PROVE  t = CNodeState
<1>1. PICK s : s = CNodeState
  OBVIOUS
<1>2. /\ s = [best |-> NoBlock, unknown |-> NoBlock, common |-> NoBlock, sync |-> FALSE,
              stalling |-> FALSE, blocks |-> {}, n |-> 0, nValid |-> 0,
              preferred |-> FALSE, shouldBan |-> FALSE]
  BY <1>1 DEF CNodeState
<1>3. t.blocks = {} /\ t.n = 0 /\ t.nValid = 0 /\ t.stalling = FALSE
  <2>1. t \in CNodeStateType /\ {e.hash : e \in t.blocks} = {}
        /\ t.n = Cardinality(t.blocks) /\ t.nValid = Cardinality(Valid(t)) /\ ~t.stalling
    BY DEF ListOK
  <2>2. t.blocks = {}
    BY <2>1
  <2>3. Valid(t) = {}
    BY <2>2 DEF Valid
  <2>4. t.stalling \in BOOLEAN
    BY <2>1 DEF CNodeStateType
  <2> QED BY <2>1, <2>2, <2>3, <2>4, FS_EmptySet
<1>4. t.best = s.best /\ t.unknown = s.unknown /\ t.common = s.common /\ t.sync = s.sync
      /\ t.preferred = s.preferred /\ t.shouldBan = s.shouldBan
  BY <1>1, <1>2 DEF Hears
<1>5. t = [best |-> t.best, unknown |-> t.unknown, common |-> t.common, sync |-> t.sync,
           stalling |-> t.stalling, blocks |-> t.blocks, n |-> t.n, nValid |-> t.nValid,
           preferred |-> t.preferred, shouldBan |-> t.shouldBan]
  BY DEF ListOK, CNodeStateType
<1> QED BY <1>1, <1>2, <1>3, <1>4, <1>5

(* Such messages leave the flags of the peers and their counts alone.         *)
LEMMA ToldConn ==
  ASSUME ConnInv, FlightInv(node', inFlight', nQueued'), NEW p, NEW A, p \in Connected,
         Told(node, node', p, A), UNCHANGED <<conn, nSync, nPreferred>>,
         \A q \in Peers \ Connected : OwedBy(inFlight', q) = {}
  PROVE  ConnInv'
<1>1. \A q \in Peers : node'[q].sync = node[q].sync /\ node'[q].preferred = node[q].preferred
  BY DEF Told, Hears
<1>2. Syncing(node') = Syncing(node) /\ Preferred(node') = Preferred(node)
  BY <1>1 DEF Syncing, Preferred
<1>3. PICK M : M = node'
  OBVIOUS
<1>4. ASSUME NEW q \in Peers \ Connected PROVE M[q] = CNodeState
  <2>1. node[q] = CNodeState /\ q # p
    BY DEF ConnInv
  <2>2. Hears(node[q], M[q], {}) /\ M[q].shouldBan = node[q].shouldBan
    BY <1>3, <2>1 DEF Told, Only
  <2>3. ListOK(M[q], {})
    <3>1. ListOK(M[q], OwedBy(inFlight', q)) /\ OwedBy(inFlight', q) = {}
      BY <1>3 DEF FlightInv
    <3> QED BY <3>1
  <2> QED BY <2>1, <2>2, <2>3, BlankList
<1>5. Connected' = Connected
  BY DEF Connected
<1> QED BY <1>2, <1>3, <1>4, <1>5 DEF ConnInv

(* Nothing is asked of a peer that is away.                                  *)
LEMMA AwayOwesNothing ==
  ASSUME ConnInv, FlightInv(node, inFlight, nQueued)
  PROVE  \A q \in Peers \ Connected : OwedBy(inFlight, q) = {}
<1>1. SUFFICES ASSUME NEW q \in Peers \ Connected PROVE OwedBy(inFlight, q) = {}
  OBVIOUS
<1>2. ListOK(node[q], OwedBy(inFlight, q)) /\ node[q] = CNodeState
  BY DEF FlightInv, ConnInv
<1>3. CNodeState.blocks = {}
  BY DEF CNodeState
<1> QED BY <1>2, <1>3 DEF ListOK

(* Misbehaving sets one flag.                                                *)
LEMMA MisbehavingFacts ==
  ASSUME NEW N \in [Peers -> CNodeStateType], NEW p \in Peers, NEW dos,
         NEW M \in Misbehaving(N, p, dos)
  PROVE  /\ M \in [Peers -> CNodeStateType]
         /\ \A q \in Peers : /\ SameList(N[q], M[q]) /\ M[q].stalling = N[q].stalling
                             /\ Hears(N[q], M[q], {})
                             /\ q # p => M[q] = N[q]
<1>1. M = N \/ M = [N EXCEPT ![p].shouldBan = TRUE]
  BY DEF Misbehaving
<1>2. PICK s : s = N[p] /\ s \in CNodeStateType
  OBVIOUS
<1>3. PICK t : t = [s EXCEPT !.shouldBan = TRUE]
  OBVIOUS
<1>4. /\ SameList(s, t) /\ t.stalling = s.stalling /\ Hears(s, t, {})
      /\ t \in CNodeStateType
  <2>1. /\ t.best = s.best /\ t.unknown = s.unknown /\ t.common = s.common
        /\ t.blocks = s.blocks /\ t.n = s.n /\ t.nValid = s.nValid /\ t.stalling = s.stalling
        /\ t.sync = s.sync /\ t.preferred = s.preferred /\ t \in CNodeStateType
    BY <1>2, <1>3 DEF CNodeStateType
  <2> QED BY <2>1 DEF SameList, Hears
<1>5. \A q \in Peers : SameList(N[q], N[q]) /\ Hears(N[q], N[q], {})
  BY DEF SameList, Hears
<1>6. CASE M = N
  BY <1>5, <1>6
<1>7. CASE M = [N EXCEPT ![p].shouldBan = TRUE]
  <2>1. M = [N EXCEPT ![p] = t]
    BY <1>2, <1>3, <1>7
  <2>2. M[p] = t /\ \A q \in Peers \ {p} : M[q] = N[q]
    BY <2>1
  <2>3. M \in [Peers -> CNodeStateType]
    BY <1>4, <2>1
  <2> QED BY <1>2, <1>4, <1>5, <2>2, <2>3
<1> QED BY <1>1, <1>6, <1>7

(* UpdateBlockAvailability for p.                                            *)
Knowing(N, p, b, I) == [N EXCEPT ![p] = UpdateBlockAvailability(N[p], b, I)]
Heard(N, M, p, A) ==
  /\ M \in [Peers -> CNodeStateType]
  /\ \A q \in Peers : /\ SameList(N[q], M[q]) /\ M[q].stalling = N[q].stalling
                      /\ Hears(N[q], M[q], Only(q, p, A))
                      /\ M[q].shouldBan = N[q].shouldBan
LEMMA UpdatedPeer ==
  ASSUME NEW N \in [Peers -> CNodeStateType], NEW p \in Peers, NEW I \in SUBSET Blocks,
         NEW b \in Blocks, NEW M, M = Knowing(N, p, b, I)
  PROVE  Heard(N, M, p, {b})
<1>1. PICK t : t = UpdateBlockAvailability(N[p], b, I)
  OBVIOUS
<1>2. /\ Touch(N[p], t) /\ t.common = N[p].common
      /\ t.best \in {N[p].best, N[p].unknown, b} /\ t.unknown \in {N[p].unknown, NoBlock, b}
  BY <1>1, Updated
<1>3. t \in CNodeStateType
  BY <1>2 DEF Touch, SameList
<1>4. M[p] = t /\ (\A q \in Peers \ {p} : M[q] = N[q]) /\ M \in [Peers -> CNodeStateType]
  BY <1>1, <1>3 DEF Knowing
<1>5. /\ SameList(N[p], t) /\ t.stalling = N[p].stalling /\ Hears(N[p], t, {b})
      /\ t.shouldBan = N[p].shouldBan
  BY <1>2 DEF Touch, Hears
<1>6. \A q \in Peers : SameList(N[q], N[q]) /\ Hears(N[q], N[q], {})
  BY DEF SameList, Hears
<1> QED BY <1>4, <1>5, <1>6 DEF Only, Heard

LEMMA KnowingBest ==
  ASSUME NEW N \in [Peers -> CNodeStateType], NEW p \in Peers, NEW I \in SUBSET Blocks,
         NEW b \in Blocks, NEW M, M = Knowing(N, p, b, I), NEW q \in Peers
  PROVE  M[q].best = N[q].best \/ M[q].best \in I
<1>1. PICK t : t = UpdateBlockAvailability(N[p], b, I)
  OBVIOUS
<1>2. t.best = N[p].best \/ t.best \in I
  BY <1>1, Updated
<1>3. M[p] = t /\ (q # p => M[q] = N[q])
  BY <1>1 DEF Knowing
<1> QED BY <1>2, <1>3

LEMMA AddedToIndex ==
  ASSUME ChainInv, NEW S \in SUBSET Blocks, AddToBlockIndex(S)
  PROVE  index' = index \cup S /\ index' \subseteq Blocks /\ bestHeader' \in index'
<1>1. S # {} => Highest(S) \in S
  BY HighestBlock
<1> QED BY <1>1 DEF ChainInv, AddToBlockIndex

(* A message of p keeps the invariant if it keeps its parts that are not about *)
(* p alone.                                                                 *)
LEMMA MessageKeeps ==
  ASSUME IInv, NEW p \in Connected, NEW A, p \notin Slow => A \subseteq Chain[Offers[p]],
         FlightInv(node', inFlight', nQueued'), ChainInv', Told(node, node', p, A),
         UNCHANGED <<conn, nSync, nPreferred>>, data \subseteq data',
         \A q \in Peers \ Connected : OwedBy(inFlight', q) = {}
  PROVE  IInv'
<1>1. ConnInv'
  BY ToldConn DEF IInv
<1>2. Linked(data) \subseteq Linked(data')
  BY DEF Linked
<1>3. KnownInv'
  <2>1. PICK M : M = node'
    OBVIOUS
  <2>2. ASSUME NEW q \in Peers
        PROVE  /\ M[q].common # NoBlock => M[q].common \in Linked(data')
               /\ q \notin Slow => {M[q].best, M[q].unknown, M[q].common}
                                     \subseteq Chain[Offers[q]] \cup {NoBlock}
    <3>1. Hears(node[q], M[q], Only(q, p, A))
      BY <2>1 DEF Told
    <3>2. M[q].common # NoBlock => M[q].common \in Linked(data')
      BY <1>2, <3>1 DEF Hears, IInv, KnownInv
    <3>3. q \notin Slow => {M[q].best, M[q].unknown, M[q].common}
                             \subseteq Chain[Offers[q]] \cup {NoBlock}
      BY <3>1 DEF Hears, IInv, KnownInv, Only
    <3> QED BY <3>2, <3>3
  <2> QED BY <2>1, <2>2 DEF KnownInv
<1> QED BY <1>1, <1>3 DEF IInv

LEMMA ConnectedPeer ==
  ASSUME NEW p \in Peers, conn[p] \in {"up", "closing"}
  PROVE  p \in Connected
  BY DEF Connected

LEMMA RequestsTyped ==
  /\ \A b \in Blocks : GetData(b) \in RequestType
  /\ \A b \in Blocks, c \in Blocks \cup {NoBlock} : GetHeaders(b, c) \in RequestType
  BY DEF GetData, GetHeaders, RequestType

(* A "headers" message.                                                      *)
LEMMA HeadersStep ==
  ASSUME IInv, NEW p \in Peers, conn[p] = "up", NEW S \in SUBSET Chain[Offers[p]],
         NEW pending \in Seq(RequestType), ReceiveHeaders(p, S, pending)
  PROVE  IInv'
<1> DEFINE Below(b) == {c \in S : Height[c] < Height[b]}
<1>1. S \in SUBSET Blocks /\ Offers[p] \in Blocks
  BY OwnChain, BlockDownloadAssumption
<1>2. UNCHANGED <<conn, inFlight, nQueued, nPreferred, nSync, data, failed, tip, source, locked>>
  BY DEF ReceiveHeaders
<1>3. PICK last : last = Highest(S)
  OBVIOUS
<1>4. S # {} => last \in S
  BY <1>1, <1>3, HighestBlock
<1>5. PICK first : first = CHOOSE b \in {b \in S : ~GoodHeader(b, index \cup Below(b))} :
                              Below(b) \cap {c \in S : ~GoodHeader(c, index \cup Below(c))} = {}
  OBVIOUS
<1>6. \/ /\ S = {}
         /\ requests' = [requests EXCEPT ![p] = pending]
         /\ UNCHANGED <<node, index, bestHeader>>
      \/ /\ AddToBlockIndex(Below(first) \ index)
         /\ node' \in Misbehaving(node, p, HeaderDoS(first, index \cup Below(first)))
         /\ requests' = [requests EXCEPT ![p] = pending]
      \/ /\ S # {}
         /\ AddToBlockIndex(S \ index)
         /\ node' = [node EXCEPT ![p] = UpdateBlockAvailability(@, last, index')]
         /\ requests' = [requests EXCEPT ![p] =
              IF Cardinality(S) = MaxHeaders THEN Append(pending, GetHeaders(last, NoBlock)) ELSE pending]
  BY <1>3, <1>5, Zenon DEF ReceiveHeaders
<1>7. /\ FlightInv(node, inFlight, nQueued) /\ ConnInv /\ ChainInv /\ node \in [Peers -> CNodeStateType]
  BY DEF IInv, FlightInv
<1>8. p \in Connected /\ \A q \in Peers \ Connected : OwedBy(inFlight', q) = {}
  BY <1>2, <1>7, ConnectedPeer, AwayOwesNothing
<1> HIDE DEF Below
<1>9. \A b : Below(b) \in SUBSET Blocks
  BY <1>1 DEF Below
<1>10. CASE /\ S = {} /\ requests' = [requests EXCEPT ![p] = pending]
            /\ UNCHANGED <<node, index, bestHeader>>
  <2>1. ChainInv'
    <3>1. requests' \in [Peers -> Seq(RequestType)]
      BY <1>7, <1>10 DEF ChainInv
    <3> QED BY <1>2, <1>7, <1>10, <3>1 DEF ChainInv, Linked
  <2>2. Told(node, node', p, {})
    BY <1>7, <1>10 DEF Told, Hears
  <2>3. FlightInv(node', inFlight', nQueued') /\ data \subseteq data'
    BY <1>2, <1>7, <1>10
  <2> QED BY <1>2, <1>8, <2>1, <2>2, <2>3, MessageKeeps
<1>11. CASE /\ AddToBlockIndex(Below(first) \ index)
            /\ node' \in Misbehaving(node, p, HeaderDoS(first, index \cup Below(first)))
            /\ requests' = [requests EXCEPT ![p] = pending]
  <2>1. index' = index \cup Below(first) /\ index' \subseteq Blocks /\ bestHeader' \in index'
    BY <1>7, <1>9, <1>11, AddedToIndex
  <2>2. ChainInv'
    <3>1. requests' \in [Peers -> Seq(RequestType)]
      BY <1>7, <1>11 DEF ChainInv
    <3> QED BY <1>2, <1>7, <2>1, <3>1 DEF ChainInv, Linked
  <2>3. /\ node' \in [Peers -> CNodeStateType]
        /\ \A q \in Peers : /\ SameList(node[q], node'[q]) /\ node'[q].stalling = node[q].stalling
                            /\ Hears(node[q], node'[q], {})
                            /\ q # p => node'[q] = node[q]
    BY <1>7, <1>11, MisbehavingFacts
  <2>4. Told(node, node', p, {})
    BY <1>8, <2>3 DEF Told, Only
  <2>5. FlightInv(node', inFlight', nQueued') /\ data \subseteq data'
    <3>1. FlightInv(node', inFlight, nQueued)
      BY <1>7, <2>3, SameFlight
    <3> QED BY <1>2, <3>1
  <2> QED BY <1>2, <1>8, <2>2, <2>4, <2>5, MessageKeeps
<1>12. CASE /\ S # {}
            /\ AddToBlockIndex(S \ index)
            /\ node' = [node EXCEPT ![p] = UpdateBlockAvailability(@, last, index')]
            /\ requests' = [requests EXCEPT ![p] =
                 IF Cardinality(S) = MaxHeaders THEN Append(pending, GetHeaders(last, NoBlock)) ELSE pending]
  <2>1. index' = index \cup S /\ index' \subseteq Blocks /\ bestHeader' \in index'
    BY <1>1, <1>7, <1>12, AddedToIndex
  <2>2. ChainInv'
    <3>1. GetHeaders(last, NoBlock) \in RequestType
      BY <1>1, <1>4, <1>12, RequestsTyped
    <3>2. Append(pending, GetHeaders(last, NoBlock)) \in Seq(RequestType)
      BY <3>1
    <3>3. requests' \in [Peers -> Seq(RequestType)]
      BY <1>7, <1>12, <3>2 DEF ChainInv
    <3> QED BY <1>2, <1>7, <2>1, <3>3 DEF ChainInv, Linked
  <2>3. Heard(node, node', p, {last})
    <3>1. PICK I : I = index'
      OBVIOUS
    <3>2. node' = Knowing(node, p, last, I)
      BY <1>12, <3>1 DEF Knowing
    <3>3. I \in SUBSET Blocks /\ last \in Blocks
      BY <1>1, <1>4, <1>12, <2>1, <3>1
    <3> QED BY <1>7, <3>2, <3>3, UpdatedPeer
  <2>4. Told(node, node', p, {last})
    BY <2>3 DEF Told, Heard
  <2>5. FlightInv(node', inFlight', nQueued') /\ data \subseteq data'
    <3>1. FlightInv(node', inFlight, nQueued)
      BY <1>7, <2>3, SameFlight DEF Heard
    <3> QED BY <1>2, <3>1
  <2>6. {last} \subseteq Chain[Offers[p]]
    BY <1>4, <1>12
  <2> QED BY <1>2, <1>8, <2>2, <2>4, <2>5, <2>6, MessageKeeps
<1> QED BY <1>6, <1>10, <1>11, <1>12
-----------------------------------------------------------------------------
(* What a step may do to mapBlocksInFlight: ask for some blocks that nobody is *)
(* asked for, take one out, or take out what was asked of one peer.          *)
MapStep ==
  \/ inFlight' = inFlight
  \/ \E p \in Peers : \E S \in SUBSET (Blocks \ DOMAIN inFlight) :
       inFlight' = Asking(inFlight, p, S) /\ Cardinality(S) + node[p].n <= MaxInTransit
  \/ \E b \in Blocks : inFlight' = Without(inFlight, {b})
  \/ \E p \in Peers : inFlight' = Without(inFlight, OwedBy(inFlight, p))

LEMMA KeepsAfterHears ==
  ASSUME NEW s, NEW t, NEW u, NEW A, Hears(s, t, A), KeepsRest(t, u)
  PROVE  Hears(s, u, A) /\ u.shouldBan = t.shouldBan
  BY DEF Hears, KeepsRest

(* Nobody is punished, and a best known block is one of the index.            *)
PeersStep(N, M, I) == \A q \in Peers :
  /\ M[q].shouldBan => N[q].shouldBan
  /\ M[q].best = N[q].best \/ M[q].best \in I

(* An "inv" message.                                                         *)
LEMMA InvStep ==
  ASSUME IInv, ReceiveInv
  PROVE  IInv' /\ MapStep /\ PeersStep(node, node', index)
<1>1. PICK p \in Peers : \E b \in Announces[p] :
        /\ conn[p] = "up" /\ Len(requests[p]) < MaxPending
        /\ LET f == Flight([node EXCEPT ![p] = UpdateBlockAvailability(@, b, index)])
               new == b \notin index /\ b \notin DOMAIN inFlight
               direct == new /\ tip \in Fresh /\ node[p].n < MaxInTransit
           IN /\ SetFlight(IF direct THEN MarkBlockAsInFlight(f, p, {b}, FALSE) ELSE f)
              /\ requests' = [requests EXCEPT ![p] =
                                @ \o (IF new THEN HeadersFirst(b, direct) ELSE <<>>)]
        /\ UNCHANGED <<conn, nPreferred, nSync, chainVars, locked>>
  BY Zenon DEF ReceiveInv
<1>2. PICK b \in Announces[p] :
        /\ conn[p] = "up"
        /\ LET f == Flight([node EXCEPT ![p] = UpdateBlockAvailability(@, b, index)])
               new == b \notin index /\ b \notin DOMAIN inFlight
               direct == new /\ tip \in Fresh /\ node[p].n < MaxInTransit
           IN /\ SetFlight(IF direct THEN MarkBlockAsInFlight(f, p, {b}, FALSE) ELSE f)
              /\ requests' = [requests EXCEPT ![p] =
                                @ \o (IF new THEN HeadersFirst(b, direct) ELSE <<>>)]
        /\ UNCHANGED <<conn, nPreferred, nSync, chainVars, locked>>
  BY <1>1, Zenon
<1>3. b \in Blocks /\ (p \notin Slow => {b} \subseteq Chain[Offers[p]])
  BY BlockDownloadAssumption
<1>4. /\ FlightInv(node, inFlight, nQueued) /\ ConnInv /\ ChainInv /\ node \in [Peers -> CNodeStateType]
      /\ index \in SUBSET Blocks
  BY DEF IInv, FlightInv, ChainInv
<1>5. p \in Connected /\ \A q \in Peers \ Connected : OwedBy(inFlight, q) = {}
  BY <1>2, <1>4, ConnectedPeer, AwayOwesNothing
<1>6. PICK N : N = Knowing(node, p, b, index)
  OBVIOUS
<1>7. Heard(node, N, p, {b})
  BY <1>3, <1>4, <1>6, UpdatedPeer
<1>15. PeersStep(node, N, index)
  BY <1>3, <1>4, <1>6, <1>7, KnowingBest DEF PeersStep, Heard
<1>8. FlightInv(N, inFlight, nQueued)
  BY <1>4, <1>7, SameFlight DEF Heard
<1>9. N = [node EXCEPT ![p] = UpdateBlockAvailability(@, b, index)]
  BY <1>6 DEF Knowing
<1>10. \/ /\ b \notin DOMAIN inFlight /\ node[p].n < MaxInTransit
          /\ SetFlight(MarkBlockAsInFlight(Flight(N), p, {b}, FALSE))
       \/ SetFlight(Flight(N))
  BY <1>2, <1>9, Zenon
<1>11. /\ UNCHANGED <<conn, nSync, nPreferred, index, data, failed, tip, bestHeader, source, locked>>
       /\ \E d \in BOOLEAN : requests' = [requests EXCEPT ![p] = @ \o HeadersFirst(b, d)]
                          \/ requests' = [requests EXCEPT ![p] = @ \o <<>>]
  BY <1>2 DEF chainVars
<1>12. ChainInv'
  <2>1. \A d \in BOOLEAN : HeadersFirst(b, d) \in Seq(RequestType)
    <3>1. GetHeaders(bestHeader, b) \in RequestType /\ GetData(b) \in RequestType
      BY <1>3, <1>4, RequestsTyped DEF ChainInv
    <3>2. PICK x, y : x = GetHeaders(bestHeader, b) /\ y = GetData(b) /\ x \in RequestType /\ y \in RequestType
      BY <3>1
    <3>3. <<x>> \in Seq(RequestType) /\ <<y>> \in Seq(RequestType) /\ <<>> \in Seq(RequestType)
      BY <3>2
    <3>4. <<x>> \o <<y>> \in Seq(RequestType) /\ <<x>> \o <<>> \in Seq(RequestType)
      BY <3>3
    <3>5. \A d \in BOOLEAN : HeadersFirst(b, d) = <<x>> \o <<y>> \/ HeadersFirst(b, d) = <<x>> \o <<>>
      BY <3>2 DEF HeadersFirst
    <3> QED BY <3>4, <3>5
  <2>2. requests \in [Peers -> Seq(RequestType)] /\ <<>> \in Seq(RequestType)
    BY <1>4 DEF ChainInv
  <2>3. PICK x : x \in Seq(RequestType) /\ requests' = [requests EXCEPT ![p] = @ \o x]
    BY <1>11, <2>1, <2>2
  <2>4. requests[p] \o x \in Seq(RequestType)
    BY <2>2, <2>3
  <2>5. requests' \in [Peers -> Seq(RequestType)]
    BY <2>2, <2>3, <2>4
  <2> QED BY <1>4, <1>11, <2>5 DEF ChainInv, Linked
<1>13. CASE SetFlight(Flight(N))
  <2>1. node' = N /\ inFlight' = inFlight /\ nQueued' = nQueued
    BY <1>13 DEF SetFlight, Flight
  <2>2. Told(node, node', p, {b})
    BY <1>7, <2>1 DEF Told, Heard
  <2>3. FlightInv(node', inFlight', nQueued') /\ data \subseteq data'
    BY <1>8, <1>11, <2>1
  <2>4. \A q \in Peers \ Connected : OwedBy(inFlight', q) = {}
    BY <1>5, <2>1
  <2>5. IInv'
    BY <1>3, <1>5, <1>11, <1>12, <2>2, <2>3, <2>4, MessageKeeps
  <2> QED BY <1>15, <2>1, <2>5 DEF MapStep
<1>14. CASE /\ b \notin DOMAIN inFlight /\ node[p].n < MaxInTransit
            /\ SetFlight(MarkBlockAsInFlight(Flight(N), p, {b}, FALSE))
  <2>1. PICK r : r = MarkBlockAsInFlight([node |-> N, map |-> inFlight, queued |-> nQueued], p, {b}, FALSE)
    OBVIOUS
  <2>2. node' = r.node /\ inFlight' = r.map /\ nQueued' = r.queued
    BY <1>14, <2>1, Zenon DEF SetFlight, Flight
  <2>3. {b} \in SUBSET (Blocks \ DOMAIN inFlight)
    BY <1>3, <1>14
  <2>4. /\ FlightInv(r.node, r.map, r.queued)
        /\ r.map = Asking(inFlight, p, {b})
        /\ \A q \in Peers : KeepsMost(N[q], r.node[q])
    <3>1. PICK S, v : S = {b} /\ v = FALSE
      OBVIOUS
    <3>2. S \in SUBSET (Blocks \ DOMAIN inFlight) /\ v \in BOOLEAN
      BY <2>3, <3>1
    <3>3. r = MarkBlockAsInFlight([node |-> N, map |-> inFlight, queued |-> nQueued], p, S, v)
      BY <2>1, <3>1
    <3>4. /\ FlightInv(r.node, r.map, r.queued) /\ r.map = Asking(inFlight, p, S)
          /\ \A q \in Peers : KeepsMost(N[q], r.node[q])
      BY <1>8, <3>2, <3>3, AskedFlight
    <3> QED BY <3>1, <3>4
  <2>5. Told(node, r.node, p, {b})
    <3>1. r.node \in [Peers -> CNodeStateType]
      BY <2>4 DEF FlightInv
    <3>2. ASSUME NEW q \in Peers
          PROVE  Hears(node[q], r.node[q], Only(q, p, {b})) /\ r.node[q].shouldBan = node[q].shouldBan
      <4>1. KeepsRest(N[q], r.node[q])
        BY <2>4 DEF KeepsMost
      <4>2. Hears(node[q], N[q], Only(q, p, {b})) /\ N[q].shouldBan = node[q].shouldBan
        BY <1>7 DEF Heard
      <4> QED BY <4>1, <4>2, KeepsAfterHears
    <3> QED BY <3>1, <3>2 DEF Told
  <2>6. \A q \in Peers \ Connected : OwedBy(inFlight', q) = {}
    <3>1. \A q \in Peers \ Connected : OwedBy(r.map, q) = OwedBy(inFlight, q)
      BY <1>5, <2>4 DEF OwedBy, Asking
    <3> QED BY <1>5, <2>2, <3>1
  <2>7. inFlight' = Asking(inFlight, p, {b})
    BY <2>2, <2>4
  <2>8. Cardinality({b}) + node[p].n <= MaxInTransit
    <3>1. node[p].n \in Nat /\ MaxInTransit \in Nat
      BY <1>4, BlockDownloadAssumption DEF CNodeStateType
    <3>2. Cardinality({b}) = 1
      BY FS_Singleton
    <3> QED BY <1>14, <3>1, <3>2
  <2>9. MapStep
    BY <2>3, <2>7, <2>8 DEF MapStep
  <2>10. FlightInv(node', inFlight', nQueued') /\ Told(node, node', p, {b}) /\ data \subseteq data'
    BY <1>11, <2>2, <2>4, <2>5
  <2>11. IInv'
    BY <1>3, <1>5, <1>11, <1>12, <2>6, <2>10, MessageKeeps
  <2>12. PeersStep(node, node', index)
    <3>1. PICK M : M = node'
      OBVIOUS
    <3>2. \A q \in Peers : KeepsRest(N[q], M[q])
      BY <2>2, <2>4, <3>1 DEF KeepsMost
    <3>3. PeersStep(node, M, index)
      BY <1>15, <3>2 DEF PeersStep, KeepsRest
    <3> QED BY <3>1, <3>3
  <2> QED BY <2>9, <2>11, <2>12
<1> QED BY <1>10, <1>13, <1>14
-----------------------------------------------------------------------------
(* Flags to ban are set for peers that are connected.                        *)
Punished(N, M) ==
  /\ M \in [Peers -> CNodeStateType]
  /\ \A q \in Peers : /\ SameList(N[q], M[q]) /\ M[q].stalling = N[q].stalling
                      /\ Hears(N[q], M[q], {})
                      /\ q \notin Connected => M[q].shouldBan = N[q].shouldBan

LEMMA MisbehavingPunished ==
  ASSUME NEW N \in [Peers -> CNodeStateType], NEW p \in Peers, p \in Connected, NEW dos,
         NEW M \in Misbehaving(N, p, dos)
  PROVE  Punished(N, M)
  BY MisbehavingFacts DEF Punished

LEMMA NobodyPunished ==
  ASSUME NEW N \in [Peers -> CNodeStateType]
  PROVE  Punished(N, N)
  BY DEF Punished, SameList, Hears

(* ActivateBestChain moves the tip to a block whose ancestors are all here,   *)
(* marks only blocks that are here, and punishes connected peers.            *)
LEMMA ActivateFacts ==
  ASSUME NEW D, NEW N \in [Peers -> CNodeStateType], ActivateBestChain(D, N), tip \in Linked(D)
  PROVE  tip' \in Linked(D) /\ failed' \subseteq failed \cup D /\ Punished(N, node')
<1> DEFINE Unfit(b) == Chain[b] \cap (BadSpend \cup failed) # {}
           fit == {b \in Linked(D) : ~Unfit(b)}
           most == {b \in fit : \A c \in fit : Work[c] <= Work[b]}
<1>1. PICK best \in (IF tip \in most THEN {tip} ELSE most) :
       \E tried \in SUBSET {b \in Linked(D) : Unfit(b) /\ Work[b] >= Work[best]} :
       LET marked == {b \in UNION {Chain[c] : c \in tried} : Unfit(b)}
           found == {b \in marked \ failed : Chain[b] \cap (BadSpend \cup failed) = {b}}
           guilty == {source'[b] : b \in found}
       IN /\ {b \in Linked(D) : Unfit(b) /\ Work[b] > Work[best]} \subseteq tried
          /\ tip' = best
          /\ failed' = failed \cup marked
          /\ node' = [p \in Peers |->
                        IF p \in guilty /\ conn[p] \notin {"away", "gone"}
                        THEN [N[p] EXCEPT !.shouldBan = TRUE] ELSE N[p]]
  BY Zenon DEF ActivateBestChain
<1>11. PICK tried \in SUBSET {b \in Linked(D) : Unfit(b) /\ Work[b] >= Work[best]} :
       LET marked == {b \in UNION {Chain[c] : c \in tried} : Unfit(b)}
           found == {b \in marked \ failed : Chain[b] \cap (BadSpend \cup failed) = {b}}
           guilty == {source'[b] : b \in found}
       IN /\ {b \in Linked(D) : Unfit(b) /\ Work[b] > Work[best]} \subseteq tried
          /\ tip' = best
          /\ failed' = failed \cup marked
          /\ node' = [p \in Peers |->
                        IF p \in guilty /\ conn[p] \notin {"away", "gone"}
                        THEN [N[p] EXCEPT !.shouldBan = TRUE] ELSE N[p]]
  BY <1>1, Zenon
<1> DEFINE marked == {b \in UNION {Chain[c] : c \in tried} : Unfit(b)}
           found == {b \in marked \ failed : Chain[b] \cap (BadSpend \cup failed) = {b}}
           guilty == {source'[b] : b \in found}
<1>12. /\ tip' = best
       /\ failed' = failed \cup marked
       /\ node' = [p \in Peers |->
                     IF p \in guilty /\ conn[p] \notin {"away", "gone"}
                     THEN [N[p] EXCEPT !.shouldBan = TRUE] ELSE N[p]]
  BY <1>11, Zenon
<1>13. best \in Linked(D) /\ tried \in SUBSET Linked(D) /\ marked \in SUBSET UNION {Chain[c] : c \in tried}
  OBVIOUS
<1> HIDE DEF marked, found, guilty, most, fit, Unfit
<1>2. tip' \in Linked(D)
  BY <1>12, <1>13
<1>3. failed' \subseteq failed \cup D
  <2>1. \A c \in tried : Chain[c] \subseteq D
    BY <1>13 DEF Linked
  <2> QED BY <1>12, <1>13, <2>1
<1>4. PICK M : M = node'
  OBVIOUS
<1>5. ASSUME NEW q \in Peers
      PROVE  /\ M[q] \in CNodeStateType /\ SameList(N[q], M[q]) /\ M[q].stalling = N[q].stalling
             /\ Hears(N[q], M[q], {})
             /\ q \notin Connected => M[q].shouldBan = N[q].shouldBan
  <2>1. PICK s : s = N[q] /\ s \in CNodeStateType
    OBVIOUS
  <2>2. PICK t : t = [s EXCEPT !.shouldBan = TRUE]
    OBVIOUS
  <2>3. /\ t.best = s.best /\ t.unknown = s.unknown /\ t.common = s.common
        /\ t.blocks = s.blocks /\ t.n = s.n /\ t.nValid = s.nValid /\ t.stalling = s.stalling
        /\ t.sync = s.sync /\ t.preferred = s.preferred /\ t \in CNodeStateType
    BY <2>1, <2>2 DEF CNodeStateType
  <2>4. M[q] = IF q \in guilty /\ conn[q] \notin {"away", "gone"} THEN t ELSE s
    BY <1>12, <1>4, <2>1, <2>2
  <2>5. SameList(s, t) /\ Hears(s, t, {}) /\ SameList(s, s) /\ Hears(s, s, {})
    BY <2>1, <2>3 DEF SameList, Hears
  <2>6. q \notin Connected => M[q] = s
    BY <2>4 DEF Connected
  <2> QED BY <2>1, <2>3, <2>4, <2>5, <2>6
<1>6. M \in [Peers -> CNodeStateType]
  <2>1. M = [q \in Peers |-> M[q]]
    BY <1>12, <1>4
  <2> QED BY <1>5, <2>1
<1> QED BY <1>2, <1>3, <1>4, <1>5, <1>6 DEF Punished

LEMMA PunishedTold ==
  ASSUME NEW N, NEW R, NEW M, NEW p, \A q \in Peers : KeepsRest(N[q], R[q]), Punished(R, M)
  PROVE  Told(N, M, p, {})
<1>1. ASSUME NEW q \in Peers
      PROVE  Hears(N[q], M[q], {}) /\ (q \notin Connected => M[q].shouldBan = N[q].shouldBan)
  BY DEF Punished, KeepsRest, Hears
<1>3. \A q : Only(q, p, {}) = {}
  BY DEF Only
<1>4. M \in [Peers -> CNodeStateType]
  BY DEF Punished
<1> QED BY <1>1, <1>3, <1>4 DEF Told

(* A "block" message.                                                        *)
LEMMA BlockStep ==
  ASSUME IInv, NEW p \in Peers, NEW b \in Blocks, NEW checked,
         NEW pending \in Seq(RequestType), ReceiveBlock(p, b, checked, pending)
  PROVE  IInv' /\ inFlight' = Without(inFlight, {b})
<1>1. /\ FlightInv(node, inFlight, nQueued) /\ ConnInv /\ ChainInv
  BY DEF IInv
<1>2. PICK r : r = MarkBlockAsReceived([node |-> node, map |-> inFlight, queued |-> nQueued], {b})
  OBVIOUS
<1>3. /\ FlightInv(r.node, r.map, r.queued)
      /\ r.map = Without(inFlight, {b})
      /\ \A q \in Peers : KeepsRest(node[q], r.node[q])
  BY <1>1, <1>2, ReceivedFlight
<1>4. /\ conn[p] = "up" /\ UNCHANGED <<conn, nPreferred, nSync>>
      /\ inFlight' = r.map /\ nQueued' = r.queued
      /\ requests' = [requests EXCEPT ![p] = pending]
  BY <1>2, Zenon DEF ReceiveBlock, Flight
<1>5. locked' \in BOOLEAN
  <2>1. \E x, y : locked' = (locked \/ x \/ y)
    BY Zenon DEF ReceiveBlock
  <2> QED BY <2>1
<1>6. \/ /\ node' \in Misbehaving(r.node, p, 100)
         /\ UNCHANGED chainVars
      \/ /\ node' \in Misbehaving(r.node, p, HeaderDoS(b, index))
         /\ source' = IF b \in index THEN SourceOf(b, p) ELSE source
         /\ UNCHANGED <<index, data, failed, tip, bestHeader>>
      \/ /\ AddToBlockIndex({b} \ index)
         /\ source' = SourceOf(b, p)
         /\ \/ node' = r.node /\ UNCHANGED <<data, failed, tip>>
            \/ /\ failed' = failed \cup {b}
               /\ node' \in Misbehaving(r.node, p, 10)
               /\ UNCHANGED <<data, tip>>
            \/ data' = data \cup {b} /\ ActivateBestChain(data', r.node)
  BY <1>2, Zenon DEF ReceiveBlock, Flight
<1>7. r.node \in [Peers -> CNodeStateType] /\ p \in Connected
  BY <1>3, <1>4, ConnectedPeer DEF FlightInv
<1>8. SourceOf(b, p) \in [BadSpend -> Peers \cup {NoPeer}] /\ source \in [BadSpend -> Peers \cup {NoPeer}]
  BY <1>1 DEF SourceOf, ChainInv
<1>9. requests' \in [Peers -> Seq(RequestType)]
  BY <1>1, <1>4 DEF ChainInv
<1>10. /\ index \subseteq Blocks /\ data \subseteq index /\ failed \subseteq index
       /\ tip \in Linked(data) /\ bestHeader \in index
  BY <1>1 DEF ChainInv
<1>11. /\ Punished(r.node, node') /\ data \subseteq data'
       /\ index' \subseteq Blocks /\ data' \subseteq index' /\ failed' \subseteq index'
       /\ tip' \in Linked(data') /\ bestHeader' \in index'
       /\ source' \in [BadSpend -> Peers \cup {NoPeer}]
  <2>1. CASE /\ node' \in Misbehaving(r.node, p, 100) /\ UNCHANGED chainVars
    <3>1. UNCHANGED <<index, data, failed, tip, bestHeader, source>>
      BY <2>1 DEF chainVars
    <3>2. Punished(r.node, node')
      BY <1>7, <2>1, MisbehavingPunished
    <3>3. Linked(data') = Linked(data)
      BY <3>1
    <3> QED BY <1>8, <1>10, <3>1, <3>2, <3>3
  <2>2. CASE /\ node' \in Misbehaving(r.node, p, HeaderDoS(b, index))
             /\ source' = IF b \in index THEN SourceOf(b, p) ELSE source
             /\ UNCHANGED <<index, data, failed, tip, bestHeader>>
    <3>2. Punished(r.node, node')
      BY <1>7, <2>2, MisbehavingPunished
    <3>3. Linked(data') = Linked(data)
      BY <2>2
    <3> QED BY <1>8, <1>10, <2>2, <3>2, <3>3
  <2>3. ASSUME AddToBlockIndex({b} \ index) /\ source' = SourceOf(b, p)
        PROVE  /\ index' \subseteq Blocks /\ bestHeader' \in index' /\ index \subseteq index'
               /\ b \in index' /\ source' \in [BadSpend -> Peers \cup {NoPeer}]
    <3>1. PICK S \in SUBSET Blocks : S = {b} \ index
      OBVIOUS
    <3>2. index' = index \cup S /\ index' \subseteq Blocks /\ bestHeader' \in index'
      BY <1>1, <2>3, <3>1, AddedToIndex
    <3> QED BY <1>8, <2>3, <3>1, <3>2
  <2>4. CASE /\ AddToBlockIndex({b} \ index) /\ source' = SourceOf(b, p)
             /\ node' = r.node /\ UNCHANGED <<data, failed, tip>>
    <3>1. Punished(r.node, node')
      BY <1>7, <2>4, NobodyPunished
    <3>2. Linked(data') = Linked(data)
      BY <2>4
    <3> QED BY <1>10, <2>3, <2>4, <3>1, <3>2
  <2>5. CASE /\ AddToBlockIndex({b} \ index) /\ source' = SourceOf(b, p)
             /\ failed' = failed \cup {b} /\ node' \in Misbehaving(r.node, p, 10)
             /\ UNCHANGED <<data, tip>>
    <3>1. Punished(r.node, node')
      BY <1>7, <2>5, MisbehavingPunished
    <3>2. Linked(data') = Linked(data)
      BY <2>5
    <3> QED BY <1>10, <2>3, <2>5, <3>1, <3>2
  <2>6. CASE /\ AddToBlockIndex({b} \ index) /\ source' = SourceOf(b, p)
             /\ data' = data \cup {b} /\ ActivateBestChain(data', r.node)
    <3>1. PICK D : D = data'
      OBVIOUS
    <3>2. ActivateBestChain(D, r.node) /\ D = data \cup {b}
      BY <2>6, <3>1
    <3>3. tip \in Linked(D)
      BY <1>10, <3>2 DEF Linked
    <3>4. tip' \in Linked(D) /\ failed' \subseteq failed \cup D /\ Punished(r.node, node')
      BY <1>7, <3>2, <3>3, ActivateFacts
    <3> QED BY <1>10, <2>3, <2>6, <3>1, <3>2, <3>4
  <2> QED BY <1>6, <2>1, <2>2, <2>4, <2>5, <2>6
<1>12. FlightInv(node', inFlight', nQueued')
  <2>1. FlightInv(node', r.map, r.queued)
    <3>1. /\ node' \in [Peers -> CNodeStateType]
          /\ \A q \in Peers : SameList(r.node[q], node'[q]) /\ node'[q].stalling = r.node[q].stalling
      BY <1>11 DEF Punished
    <3> QED BY <1>3, <3>1, SameFlight
  <2> QED BY <1>4, <2>1
<1>13. ChainInv'
  BY <1>5, <1>9, <1>11 DEF ChainInv, Linked
<1>14. Told(node, node', p, {})
  BY <1>3, <1>11, PunishedTold
<1>15. \A q \in Peers \ Connected : OwedBy(inFlight', q) = {}
  <2>1. \A q : OwedBy(r.map, q) \subseteq OwedBy(inFlight, q)
    BY <1>3 DEF OwedBy, Without
  <2> QED BY <1>1, <1>4, <2>1, AwayOwesNothing
<1>16. IInv'
  BY <1>4, <1>7, <1>11, <1>12, <1>13, <1>14, <1>15, MessageKeeps
<1> QED BY <1>3, <1>4, <1>16

(* A request is answered, or not, or a block comes that nobody asked for.     *)
LEMMA AnswerStep ==
  ASSUME IInv, Answer
  PROVE  IInv' /\ MapStep
<1>1. PICK p \in Peers : AnswerOf(p)
  BY DEF Answer
<1>2. PICK request : request = Head(requests[p])
  OBVIOUS
<1>3. /\ conn[p] = "up" /\ requests[p] # <<>>
      /\ \/ ReceiveHeaders(p, HeadersOf(p, request), Tail(requests[p]))
         \/ /\ request.block \in Chain[Offers[p]]
            /\ \E checked \in BOOLEAN : ReceiveBlock(p, request.block, checked, Tail(requests[p]))
  BY <1>1, <1>2, Zenon DEF AnswerOf
<1>4. requests[p] \in Seq(RequestType)
  BY DEF IInv, ChainInv
<1>5. Tail(requests[p]) \in Seq(RequestType)
  BY <1>3, <1>4
<1>6. CASE ReceiveHeaders(p, HeadersOf(p, request), Tail(requests[p]))
  <2>1. HeadersOf(p, request) \in SUBSET Chain[Offers[p]]
    BY DEF HeadersOf
  <2>2. IInv'
    BY <1>3, <1>5, <1>6, <2>1, HeadersStep
  <2>3. inFlight' = inFlight
    BY <1>6 DEF ReceiveHeaders
  <2> QED BY <2>2, <2>3 DEF MapStep
<1>7. ASSUME request.block \in Chain[Offers[p]],
             NEW checked, ReceiveBlock(p, request.block, checked, Tail(requests[p]))
      PROVE  IInv' /\ MapStep
  <2>1. request.block \in Blocks
    BY <1>7, OwnChain, BlockDownloadAssumption
  <2>2. IInv' /\ inFlight' = Without(inFlight, {request.block})
    BY <1>5, <1>7, <2>1, BlockStep
  <2> QED BY <2>1, <2>2 DEF MapStep
<1> QED BY <1>3, <1>6, <1>7

LEMMA UnrequestedStep ==
  ASSUME IInv, Unrequested
  PROVE  IInv' /\ MapStep
<1>1. PICK p \in Slow : \E b \in Chain[Offers[p]] : ReceiveBlock(p, b, TRUE, requests[p])
  BY DEF Unrequested
<1>2. PICK b \in Chain[Offers[p]] : ReceiveBlock(p, b, TRUE, requests[p])
  BY <1>1
<1>3. p \in Peers /\ b \in Blocks
  BY OwnChain, BlockDownloadAssumption
<1>4. requests[p] \in Seq(RequestType)
  BY <1>3 DEF IInv, ChainInv
<1>5. IInv' /\ inFlight' = Without(inFlight, {b})
  BY <1>2, <1>3, <1>4, BlockStep
<1> QED BY <1>3, <1>5 DEF MapStep

(* Where only requests are dropped, or fDisconnect is set.                   *)
LEMMA NoAnswerStep ==
  ASSUME IInv, NoAnswer
  PROVE  IInv' /\ MapStep
<1>1. PICK p \in Slow :
        /\ requests[p] # <<>> /\ requests' = [requests EXCEPT ![p] = Tail(@)]
        /\ UNCHANGED <<conn, node, inFlight, nQueued, nPreferred, nSync, chainVars, locked>>
  BY DEF NoAnswer
<1>2. p \in Peers /\ requests \in [Peers -> Seq(RequestType)]
  BY BlockDownloadAssumption DEF IInv, ChainInv
<1>3. Tail(requests[p]) \in Seq(RequestType)
  BY <1>1, <1>2
<1>4. requests' \in [Peers -> Seq(RequestType)]
  BY <1>1, <1>2, <1>3
<1>5. /\ UNCHANGED <<conn, node, inFlight, nQueued, nPreferred, nSync, locked>>
      /\ UNCHANGED <<index, data, failed, tip, bestHeader, source>>
  BY <1>1 DEF chainVars
<1>6. ConnInv' = ConnInv /\ KnownInv' = KnownInv
  BY <1>5 DEF ConnInv, KnownInv, Connected, Syncing, Preferred, Linked
<1>7. ChainInv'
  BY <1>4, <1>5 DEF IInv, ChainInv, Linked
<1> QED BY <1>5, <1>6, <1>7 DEF IInv, MapStep

LEMMA DisconnectStep ==
  ASSUME IInv, CloseSocketDisconnect
  PROVE  IInv' /\ MapStep
<1>1. PICK p \in Peers :
        /\ conn[p] = "up" /\ conn' = [conn EXCEPT ![p] = "closing"]
        /\ UNCHANGED <<node, inFlight, nQueued, nPreferred, nSync, chainVars, locked, requests>>
  BY DEF CloseSocketDisconnect
<1>2. /\ UNCHANGED <<node, inFlight, nQueued, nPreferred, nSync, locked, requests>>
      /\ UNCHANGED <<index, data, failed, tip, bestHeader, source>>
  BY <1>1 DEF chainVars
<1>3. conn \in [Peers -> {"away", "up", "closing", "gone"}]
  BY DEF IInv, ConnInv
<1>4. conn' \in [Peers -> {"away", "up", "closing", "gone"}]
  BY <1>1, <1>3
<1>5. Connected' = Connected
  BY <1>1, <1>3 DEF Connected
<1>6. ConnInv'
  BY <1>2, <1>4, <1>5 DEF IInv, ConnInv, Syncing, Preferred
<1>7. KnownInv' /\ ChainInv'
  BY <1>2 DEF IInv, KnownInv, ChainInv, Linked
<1> QED BY <1>2, <1>6, <1>7 DEF IInv, MapStep
-----------------------------------------------------------------------------
(* Counts of peers with a flag when the flag of one is set or cleared.        *)
LEMMA OneMore ==
  ASSUME NEW S \in SUBSET Peers, NEW p \in Peers, p \notin S
  PROVE  Cardinality(S \cup {p}) = Cardinality(S) + 1
  BY FinitePeers, FS_AddElement

LEMMA OneLess ==
  ASSUME NEW S \in SUBSET Peers, NEW p \in S
  PROVE  Cardinality(S \ {p}) = Cardinality(S) - 1
  BY FinitePeers, FS_RemoveElement

(* InitializeNode and the "version" message.                                 *)
LEMMA ConnectStep ==
  ASSUME IInv, Connect
  PROVE  IInv' /\ MapStep
<1>1. PICK p \in Peers :
        /\ conn[p] = "away" /\ conn' = [conn EXCEPT ![p] = "up"]
        /\ UpdatePreferredDownload(p)
        /\ UNCHANGED <<inFlight, nQueued, nSync, chainVars, locked, requests>>
  BY DEF Connect
<1>2. PICK preferred \in BOOLEAN :
        /\ nPreferred' = IF preferred THEN nPreferred + 1 ELSE nPreferred
        /\ node' = [node EXCEPT ![p] = [CNodeState EXCEPT !.preferred = preferred]]
  <2>1. (p \notin Inbound \/ p \in Whitelisted) \in BOOLEAN
    OBVIOUS
  <2> QED BY <1>1, <2>1, Zenon DEF UpdatePreferredDownload
<1>3. /\ UNCHANGED <<inFlight, nQueued, nSync, locked, requests>>
      /\ UNCHANGED <<index, data, failed, tip, bestHeader, source>>
  BY <1>1 DEF chainVars
<1>4. /\ FlightInv(node, inFlight, nQueued) /\ ConnInv /\ ChainInv /\ KnownInv
      /\ node \in [Peers -> CNodeStateType]
      /\ conn \in [Peers -> {"away", "up", "closing", "gone"}]
  BY DEF IInv, FlightInv, ConnInv
<1>5. PICK s, t : s = CNodeState /\ t = [CNodeState EXCEPT !.preferred = preferred]
  OBVIOUS
<1>6. t.preferred = preferred /\ s.preferred = FALSE /\ s.sync = FALSE
  BY <1>5 DEF CNodeState
<1>7. /\ ListOK(t, {}) /\ t.sync = FALSE /\ t.common = NoBlock /\ t.best = NoBlock /\ t.unknown = NoBlock
      /\ ListOK(s, {})
  BY <1>5, NewList
<1>8. p \notin Connected /\ node[p] = s
  <2>1. p \notin Connected
    BY <1>1 DEF Connected
  <2> QED BY <1>4, <1>5, <2>1 DEF ConnInv
<1>9. OwedBy(inFlight, p) = {}
  BY <1>4, <1>8, AwayOwesNothing
<1>10. PICK M : M = node'
  OBVIOUS
<1>11. M[p] = t /\ (\A q \in Peers \ {p} : M[q] = node[q]) /\ M \in [Peers -> CNodeStateType]
  <2>1. t \in CNodeStateType /\ M = [node EXCEPT ![p] = t]
    BY <1>2, <1>5, <1>7, <1>10 DEF ListOK
  <2> QED BY <1>4, <2>1
<1>12. FlightInv(M, inFlight, nQueued)
  <2>1. SameList(s, t) /\ t.stalling = s.stalling
    <3>1. t.blocks = s.blocks /\ t.n = s.n /\ t.nValid = s.nValid /\ t.stalling = s.stalling
      BY <1>5 DEF CNodeState
    <3> QED BY <1>7, <3>1 DEF SameList, ListOK
  <2>2. \A q \in Peers : SameList(node[q], node[q])
    BY <1>4 DEF SameList
  <2>3. \A q \in Peers : SameList(node[q], M[q]) /\ M[q].stalling = node[q].stalling
    BY <1>8, <1>11, <2>1, <2>2
  <2> QED BY <1>4, <1>11, <2>3, SameFlight
<1>13. ConnInv'
  <2>1. conn' \in [Peers -> {"away", "up", "closing", "gone"}] /\ Connected' = Connected \cup {p}
    BY <1>1, <1>4 DEF Connected
  <2>2. \A q \in Peers \ Connected' : M[q] = CNodeState
    BY <1>4, <1>11, <2>1 DEF ConnInv
  <2>3. Syncing(M) = Syncing(node)
    BY <1>6, <1>7, <1>8, <1>11 DEF Syncing
  <2>4. Preferred(M) = IF preferred THEN Preferred(node) \cup {p} ELSE Preferred(node)
    BY <1>6, <1>8, <1>11 DEF Preferred
  <2>5. nPreferred' = Cardinality(Preferred(M))
    <3>1. Preferred(node) \in SUBSET Peers /\ p \notin Preferred(node)
      BY <1>6, <1>8 DEF Preferred
    <3>2. Cardinality(Preferred(node) \cup {p}) = Cardinality(Preferred(node)) + 1
      BY <3>1, OneMore
    <3>3. nPreferred = Cardinality(Preferred(node))
      BY <1>4 DEF ConnInv
    <3> QED BY <1>2, <2>4, <3>2, <3>3
  <2>6. nSync' = Cardinality(Syncing(M))
    BY <1>3, <1>4, <2>3 DEF ConnInv
  <2> QED BY <1>10, <2>1, <2>2, <2>5, <2>6 DEF ConnInv
<1>14. ChainInv'
  BY <1>3, <1>4 DEF ChainInv, Linked
<1>15. KnownInv'
  <2>1. Linked(data') = Linked(data)
    BY <1>3
  <2>2. ASSUME NEW q \in Peers
        PROVE  /\ M[q].common # NoBlock => M[q].common \in Linked(data)
               /\ q \notin Slow => {M[q].best, M[q].unknown, M[q].common}
                                     \subseteq Chain[Offers[q]] \cup {NoBlock}
    BY <1>4, <1>7, <1>11 DEF KnownInv
  <2> QED BY <1>10, <2>1, <2>2 DEF KnownInv
<1>16. FlightInv(node', inFlight', nQueued')
  BY <1>3, <1>10, <1>12
<1> QED BY <1>3, <1>13, <1>14, <1>15, <1>16 DEF IInv, MapStep

(* ~CNode: FinalizeNode.                                                     *)
LEMMA FinalizeStep ==
  ASSUME IInv, FinalizeNode
  PROVE  IInv' /\ MapStep
<1>1. PICK p \in Peers : FinalizeNodeOf(p)
  BY DEF FinalizeNode
<1>2. /\ conn[p] = "closing" /\ conn' = [conn EXCEPT ![p] = "gone"]
      /\ nSync' = IF node[p].sync THEN nSync - 1 ELSE nSync
      /\ nPreferred' = IF node[p].preferred THEN nPreferred - 1 ELSE nPreferred
      /\ inFlight' = [b \in DOMAIN inFlight \ {e.hash : e \in node[p].blocks} |-> inFlight[b]]
      /\ node' = [node EXCEPT ![p] = CNodeState]
      /\ requests' = [requests EXCEPT ![p] = <<>>]
      /\ UNCHANGED <<nQueued, index, data, failed, tip, bestHeader, source, locked>>
  BY <1>1, Zenon DEF FinalizeNodeOf, SyncLeft, Erased, chainVars
<1>3. /\ FlightInv(node, inFlight, nQueued) /\ ConnInv /\ ChainInv /\ KnownInv
      /\ node \in [Peers -> CNodeStateType]
      /\ conn \in [Peers -> {"away", "up", "closing", "gone"}]
  BY DEF IInv, FlightInv, ConnInv
<1>4. FlightInv(node', inFlight', nQueued) /\ inFlight' = Without(inFlight, OwedBy(inFlight, p))
  <2>1. PICK M, w : M = node' /\ w = inFlight'
    OBVIOUS
  <2>2. M = Reset(node, p) /\ w = Without(inFlight, Hashes(node[p]))
    BY <1>2, <2>1 DEF Reset, Without, Hashes
  <2>3. FlightInv(M, w, nQueued) /\ w = Without(inFlight, OwedBy(inFlight, p))
    BY <1>3, <2>2, ErasedFlight
  <2> QED BY <2>1, <2>3
<1>5. PICK M, s : M = node' /\ s = CNodeState
  OBVIOUS
<1>6. M[p] = s /\ \A q \in Peers \ {p} : M[q] = node[q]
  BY <1>2, <1>3, <1>5
<1>7. s.sync = FALSE /\ s.preferred = FALSE /\ s.common = NoBlock
      /\ s.best = NoBlock /\ s.unknown = NoBlock
  BY <1>5 DEF CNodeState
<1>8. ConnInv'
  <2>1. conn' \in [Peers -> {"away", "up", "closing", "gone"}] /\ Connected' = Connected \ {p}
    BY <1>2, <1>3 DEF Connected
  <2>2. \A q \in Peers \ Connected' : M[q] = CNodeState
    BY <1>3, <1>5, <1>6, <2>1 DEF ConnInv
  <2>3. Syncing(M) = Syncing(node) \ {p} /\ Preferred(M) = Preferred(node) \ {p}
    BY <1>6, <1>7 DEF Syncing, Preferred
  <2>4. /\ Syncing(node) \in SUBSET Peers /\ Preferred(node) \in SUBSET Peers
        /\ nSync = Cardinality(Syncing(node)) /\ nPreferred = Cardinality(Preferred(node))
    BY <1>3 DEF ConnInv, Syncing, Preferred
  <2>5. nSync' = Cardinality(Syncing(M))
    <3>1. CASE node[p].sync
      <4>1. p \in Syncing(node)
        BY <3>1 DEF Syncing
      <4> QED BY <1>2, <2>3, <2>4, <3>1, <4>1, OneLess
    <3>2. CASE ~node[p].sync
      <4>1. Syncing(node) \ {p} = Syncing(node)
        BY <3>2 DEF Syncing
      <4> QED BY <1>2, <2>3, <2>4, <3>2, <4>1
    <3> QED BY <3>1, <3>2
  <2>6. nPreferred' = Cardinality(Preferred(M))
    <3>1. CASE node[p].preferred
      <4>1. p \in Preferred(node)
        BY <3>1 DEF Preferred
      <4> QED BY <1>2, <2>3, <2>4, <3>1, <4>1, OneLess
    <3>2. CASE ~node[p].preferred
      <4>1. Preferred(node) \ {p} = Preferred(node)
        BY <3>2 DEF Preferred
      <4> QED BY <1>2, <2>3, <2>4, <3>2, <4>1
    <3> QED BY <3>1, <3>2
  <2> QED BY <1>5, <2>1, <2>2, <2>5, <2>6 DEF ConnInv
<1>9. ChainInv'
  <2>1. requests \in [Peers -> Seq(RequestType)] /\ <<>> \in Seq(RequestType)
    BY <1>3 DEF ChainInv
  <2>2. requests' \in [Peers -> Seq(RequestType)]
    BY <1>2, <2>1
  <2> QED BY <1>2, <1>3, <2>2 DEF ChainInv, Linked
<1>10. KnownInv'
  <2>1. Linked(data') = Linked(data)
    BY <1>2
  <2>2. ASSUME NEW q \in Peers
        PROVE  /\ M[q].common # NoBlock => M[q].common \in Linked(data)
               /\ q \notin Slow => {M[q].best, M[q].unknown, M[q].common}
                                     \subseteq Chain[Offers[q]] \cup {NoBlock}
    BY <1>3, <1>6, <1>7 DEF KnownInv
  <2> QED BY <1>5, <2>1, <2>2 DEF KnownInv
<1>11. FlightInv(node', inFlight', nQueued')
  BY <1>2, <1>4
<1> QED BY <1>4, <1>8, <1>9, <1>10, <1>11 DEF IInv, MapStep
-----------------------------------------------------------------------------
LEMMA StillAsked ==
  ASSUME NEW m, NEW p, NEW S, S \cap DOMAIN m = {}, NEW q
  PROVE  OwedBy(m, q) \subseteq OwedBy(Asking(m, p, S), q)
         /\ (q # p => OwedBy(Asking(m, p, S), q) = OwedBy(m, q))
  BY DEF OwedBy, Asking

LEMMA AskingNothing ==
  ASSUME NEW m, m \in [DOMAIN m -> Peers], NEW p
  PROVE  Asking(m, p, {}) = m
  BY DEF Asking

(* The mark of a stalling peer.                                              *)
Stalled(N, q) == [N EXCEPT ![q].stalling = TRUE]
LEMMA StalledFlight ==
  ASSUME NEW N, NEW m, NEW k, FlightInv(N, m, k), NEW q \in Peers, OwedBy(m, q) # {}, NEW M,
         M = Stalled(N, q)
  PROVE  FlightInv(M, m, k) /\ \A x \in Peers : KeepsRest(N[x], M[x])
<1>1. N \in [Peers -> CNodeStateType]
  BY DEF FlightInv
<1>2. PICK s, t : s = N[q] /\ t = [s EXCEPT !.stalling = TRUE] /\ s \in CNodeStateType
  BY <1>1
<1>3. /\ t.best = s.best /\ t.unknown = s.unknown /\ t.common = s.common
      /\ t.blocks = s.blocks /\ t.n = s.n /\ t.nValid = s.nValid
      /\ t.sync = s.sync /\ t.preferred = s.preferred /\ t.shouldBan = s.shouldBan
      /\ t \in CNodeStateType
  BY <1>2 DEF CNodeStateType
<1>4. M[q] = t /\ (\A x \in Peers \ {q} : M[x] = N[x]) /\ M \in [Peers -> CNodeStateType]
  <2>1. M = [N EXCEPT ![q] = t]
    BY <1>2 DEF Stalled
  <2> QED BY <1>1, <1>3, <2>1
<1>5. ASSUME NEW x \in Peers
      PROVE  /\ KeepsRest(N[x], M[x]) /\ SameList(N[x], M[x])
             /\ M[x].stalling => N[x].stalling \/ OwedBy(m, x) # {}
  <2>1. CASE x = q
    BY <1>2, <1>3, <1>4, <2>1 DEF KeepsRest, SameList
  <2>2. CASE x # q
    BY <1>1, <1>4, <2>2 DEF KeepsRest, SameList
  <2> QED BY <2>1, <2>2
<1> QED BY <1>4, <1>5, SameFlight

(* SendMessages.                                                             *)
Switched(s, start) == [s EXCEPT !.shouldBan = FALSE, !.sync = @ \/ start]
LEMMA SwitchedFacts ==
  ASSUME NEW s \in CNodeStateType, NEW start \in BOOLEAN, NEW t, t = Switched(s, start)
  PROVE  /\ SameList(s, t) /\ t.stalling = s.stalling /\ t \in CNodeStateType
         /\ t.best = s.best /\ t.unknown = s.unknown /\ t.common = s.common
         /\ t.preferred = s.preferred /\ t.sync = (s.sync \/ start) /\ ~t.shouldBan
<1>1. /\ t.best = s.best /\ t.unknown = s.unknown /\ t.common = s.common
      /\ t.blocks = s.blocks /\ t.n = s.n /\ t.nValid = s.nValid /\ t.stalling = s.stalling
      /\ t.sync = (s.sync \/ start) /\ t.preferred = s.preferred /\ ~t.shouldBan
  BY DEF Switched, CNodeStateType
<1>2. t \in CNodeStateType
  BY DEF Switched, CNodeStateType
<1> QED BY <1>1, <1>2 DEF SameList

Requesting(S) == [i \in 1..Cardinality(S) |-> GetData(InOrder(S)[i])]
LEMMA RequestingTyped ==
  ASSUME NEW S, S # {} => \E b \in Blocks : S \subseteq Chain[b]
  PROVE  Requesting(S) \in Seq(RequestType)
<1>1. CASE S = {}
  <2>1. Cardinality(S) = 0
    BY <1>1, FS_EmptySet
  <2>2. Requesting(S) = <<>>
    BY <2>1 DEF Requesting
  <2> QED BY <2>2
<1>2. CASE S # {}
  <2>1. PICK b \in Blocks : S \in SUBSET Chain[b]
    BY <1>2
  <2>2. PICK n \in Nat : n = Cardinality(S)
    BY <2>1, InOrderOf
  <2>3. \A i \in 1..n : InOrder(S)[i] \in Blocks
    BY <2>1, <2>2, InOrderOf, OwnChain
  <2>4. \A i \in 1..n : GetData(InOrder(S)[i]) \in RequestType
    BY <2>3, RequestsTyped
  <2>5. Requesting(S) = [i \in 1..n |-> GetData(InOrder(S)[i])]
    BY <2>2 DEF Requesting
  <2>6. [i \in 1..n |-> GetData(InOrder(S)[i])] \in [1..n -> RequestType]
    BY <2>4
  <2> QED BY <2>2, <2>5, <2>6
<1> QED BY <1>1, <1>2

(* What is known of SendMessages for p: the flags it sets, what it finds to    *)
(* ask for, and whom it marks as stalling.                                  *)
Starting(start) ==
  IF start THEN <<GetHeaders(IF bestHeader = Genesis THEN Genesis ELSE Parent[bestHeader], NoBlock)>>
  ELSE <<>>
Known(N, p, t) == [N EXCEPT ![p] = t]
Sent(p, start, found, f) ==
  /\ start \in BOOLEAN /\ (start => ~node[p].sync) /\ conn[p] = "up"
  /\ FoundOK(Switched(node[p], start), found)
  /\ f = MarkBlockAsInFlight([node |-> Known(node, p, found.state), map |-> inFlight, queued |-> nQueued],
                             p, found.want, TRUE)
  /\ inFlight' = f.map /\ nQueued' = f.queued
  /\ node' = f.node \/ (found.staller # NoPeer /\ node' = Stalled(f.node, found.staller))
  /\ nSync' = IF start THEN nSync + 1 ELSE nSync
  /\ requests' = [requests EXCEPT ![p] = (@ \o Starting(start)) \o Requesting(found.want)]
  /\ \E x \in {"closing", conn[p]} : conn' = [conn EXCEPT ![p] = x]
  /\ locked' \in BOOLEAN
  /\ UNCHANGED <<nPreferred, index, data, failed, tip, bestHeader, source>>

LEMMA Sending ==
  ASSUME IInv, NEW p \in Peers, NEW late \in BOOLEAN, NEW closed \in BOOLEAN,
         SendMessagesTo(p, late, closed)
  PROVE  \E start, found, f : Sent(p, start, found, f)
<1> DEFINE start == /\ ~node[p].sync
                    /\ (nSync = 0 /\ Fetch(p)) \/ bestHeader \in Today
           s == [node[p] EXCEPT !.shouldBan = FALSE, !.sync = @ \/ start]
           disconnect == closed \/ late \/ (node[p].shouldBan /\ p \notin Whitelisted)
           found == IF disconnect THEN NothingFrom(s) ELSE ToAsk(p, s)
           f == MarkBlockAsInFlight(Flight([node EXCEPT ![p] = found.state]), p, found.want, TRUE)
           from == IF bestHeader = Genesis THEN Genesis ELSE Parent[bestHeader]
<1>1. /\ conn[p] = "up"
      /\ SetFlight(IF f.node[p].n = 0 /\ found.staller # NoPeer
                   THEN [f EXCEPT !.node[found.staller].stalling = TRUE] ELSE f)
      /\ nSync' = IF start THEN nSync + 1 ELSE nSync
      /\ requests' = [requests EXCEPT ![p] =
                        @ \o (IF start THEN <<GetHeaders(from, NoBlock)>> ELSE <<>>)
                          \o [i \in 1..Cardinality(found.want) |-> GetData(InOrder(found.want)[i])]]
      /\ conn' = [conn EXCEPT ![p] = IF disconnect THEN "closing" ELSE @]
      /\ locked' = ~IsInitialBlockDownload
      /\ UNCHANGED <<nPreferred, chainVars>>
  BY Zenon DEF SendMessagesTo
<1>2. start \in BOOLEAN /\ (start => ~node[p].sync)
  OBVIOUS
<1>3. /\ node \in [Peers -> CNodeStateType] /\ inFlight \in [DOMAIN inFlight -> Peers]
      /\ index \in SUBSET Blocks /\ tip \in Blocks /\ bestHeader \in Blocks
      /\ requests \in [Peers -> Seq(RequestType)]
  BY DEF IInv, FlightInv, ChainInv, Linked
<1>4. s = Switched(node[p], start)
  BY DEF Switched
<1>5. found = NothingFrom(s) \/ found = ToAsk(p, s)
  OBVIOUS
<1>7. f = MarkBlockAsInFlight([node |-> Known(node, p, found.state), map |-> inFlight, queued |-> nQueued],
                              p, found.want, TRUE)
  BY Zenon DEF Flight, Known
<1>8. f = [node |-> f.node, map |-> f.map, queued |-> f.queued]
  <2> HIDE DEF found
  <2> QED BY DEF MarkBlockAsInFlight
<1>9. \E x \in {"closing", conn[p]} : conn' = [conn EXCEPT ![p] = x]
  BY <1>1
<1> HIDE DEF start, s, disconnect, found, f, from
<1>10. FoundOK(s, found)
  <2>1. s \in CNodeStateType
    BY <1>2, <1>3, <1>4, SwitchedFacts
  <2>2. CASE found = ToAsk(p, s)
    BY <1>3, <2>1, <2>2, ToAskOK
  <2>3. CASE found = NothingFrom(s)
    <3>1. Touch(s, s)
      BY <2>1 DEF Touch, SameList
    <3> QED BY <2>1, <2>3, <3>1, NothingFound
  <2> QED BY <1>5, <2>2, <2>3
<1>11. inFlight' = f.map /\ nQueued' = f.queued
       /\ (node' = f.node \/ (found.staller # NoPeer /\ node' = Stalled(f.node, found.staller)))
  <2>1. PICK g : g = [f EXCEPT !.node[found.staller].stalling = TRUE]
    OBVIOUS
  <2>2. g.node = Stalled(f.node, found.staller) /\ g.map = f.map /\ g.queued = f.queued
    BY <1>8, <2>1 DEF Stalled
  <2>3. SetFlight(f) \/ (found.staller # NoPeer /\ SetFlight(g))
    BY <1>1, <2>1, Zenon
  <2> QED BY <2>2, <2>3 DEF SetFlight
<1>12. requests' = [requests EXCEPT ![p] = (@ \o Starting(start)) \o Requesting(found.want)]
  <2>1. Starting(start) = IF start THEN <<GetHeaders(from, NoBlock)>> ELSE <<>>
    BY DEF Starting, from
  <2> QED BY <1>1, <2>1, Zenon DEF Requesting
<1>13. locked' \in BOOLEAN
  BY <1>1
<1>14. UNCHANGED <<nPreferred, index, data, failed, tip, bestHeader, source>>
  BY <1>1 DEF chainVars
<1>15. nSync' = IF start THEN nSync + 1 ELSE nSync
  BY <1>1
<1>16. conn[p] = "up"
  BY <1>1
<1>17. Sent(p, start, found, f)
  BY <1>2, <1>4, <1>7, <1>9, <1>10, <1>11, <1>12, <1>13, <1>14, <1>15, <1>16, Zenon DEF Sent
<1> QED BY <1>17

LEMMA SentKeeps ==
  ASSUME IInv, NEW p \in Peers, NEW start, NEW found, NEW f, Sent(p, start, found, f)
  PROVE  IInv' /\ MapStep /\ PeersStep(node, node', index)
<1>1. /\ FlightInv(node, inFlight, nQueued) /\ ConnInv /\ ChainInv /\ KnownInv
      /\ node \in [Peers -> CNodeStateType] /\ inFlight \in [DOMAIN inFlight -> Peers]
      /\ conn \in [Peers -> {"away", "up", "closing", "gone"}]
  BY DEF IInv, FlightInv, ConnInv
<1>2. /\ start \in BOOLEAN /\ (start => ~node[p].sync) /\ conn[p] = "up"
      /\ f = MarkBlockAsInFlight([node |-> Known(node, p, found.state), map |-> inFlight, queued |-> nQueued],
                                 p, found.want, TRUE)
      /\ inFlight' = f.map /\ nQueued' = f.queued
      /\ node' = f.node \/ (found.staller # NoPeer /\ node' = Stalled(f.node, found.staller))
      /\ nSync' = IF start THEN nSync + 1 ELSE nSync
      /\ locked' \in BOOLEAN
      /\ UNCHANGED <<nPreferred, index, data, failed, tip, bestHeader, source>>
  BY DEF Sent
<1>3. PICK s : s = Switched(node[p], start)
  OBVIOUS
<1>4. /\ SameList(node[p], s) /\ s.stalling = node[p].stalling /\ s \in CNodeStateType
      /\ s.best = node[p].best /\ s.unknown = node[p].unknown /\ s.common = node[p].common
      /\ s.preferred = node[p].preferred /\ s.sync = (node[p].sync \/ start)
      /\ ~s.shouldBan
  BY <1>1, <1>2, <1>3, SwitchedFacts
<1>5. PICK t, want, staller : t = found.state /\ want = found.want /\ staller = found.staller
  OBVIOUS
<1>6. FoundOK(s, found)
  BY <1>3 DEF Sent
<1>7. /\ Touch(s, t)
      /\ t.best \in {s.best, s.unknown} /\ t.unknown \in {s.unknown, NoBlock}
      /\ want \in SUBSET (Blocks \ DOMAIN inFlight)
      /\ want # {} => Cardinality(want) + s.n <= MaxInTransit
      /\ staller = NoPeer \/ (staller \in Peers /\ OwedBy(inFlight, staller) # {})
      /\ \/ t.common = s.common
         \/ /\ t.best \in Blocks /\ t.common \in Chain[t.best]
            /\ SureOf(s) => t.common \in Linked(data)
  BY <1>5, <1>6 DEF FoundOK
<1>8. p \in Connected /\ \A q \in Peers \ Connected : OwedBy(inFlight, q) = {}
  BY <1>1, <1>2, ConnectedPeer, AwayOwesNothing
<1>9. PICK N : N = Known(node, p, t)
  OBVIOUS
<1>10. /\ SameList(node[p], t) /\ t.stalling = node[p].stalling /\ t \in CNodeStateType
       /\ t.preferred = node[p].preferred /\ t.sync = (node[p].sync \/ start)
       /\ s.n = node[p].n
  BY <1>4, <1>7 DEF Touch, SameList
<1>11. N[p] = t /\ (\A q \in Peers \ {p} : N[q] = node[q]) /\ N \in [Peers -> CNodeStateType]
  BY <1>1, <1>9, <1>10 DEF Known
<1>12. FlightInv(N, inFlight, nQueued)
  <2>1. \A q \in Peers : SameList(node[q], N[q]) /\ N[q].stalling = node[q].stalling
    BY <1>1, <1>10, <1>11 DEF SameList
  <2> QED BY <1>1, <1>11, <2>1, SameFlight
<1>13. /\ FlightInv(f.node, f.map, f.queued)
       /\ f.map = Asking(inFlight, p, want)
       /\ \A q \in Peers : KeepsMost(N[q], f.node[q])
  <2>1. PICK v : v = TRUE
    OBVIOUS
  <2>2. f = MarkBlockAsInFlight([node |-> N, map |-> inFlight, queued |-> nQueued], p, want, v)
    BY <1>2, <1>5, <1>9, <2>1
  <2>3. v \in BOOLEAN /\ want \in SUBSET (Blocks \ DOMAIN inFlight)
    BY <1>7, <2>1
  <2> QED BY <1>12, <2>2, <2>3, AskedFlight
<1>14. \A q : OwedBy(inFlight, q) \subseteq OwedBy(f.map, q)
              /\ (q # p => OwedBy(f.map, q) = OwedBy(inFlight, q))
  <2>1. want \cap DOMAIN inFlight = {}
    BY <1>7
  <2> QED BY <1>13, <2>1, StillAsked
<1>15. PICK M : M = node'
  OBVIOUS
<1>16. FlightInv(M, f.map, f.queued) /\ \A q \in Peers : KeepsRest(N[q], M[q])
  <2>1. CASE M = f.node
    BY <1>13, <2>1 DEF KeepsMost
  <2>2. CASE staller # NoPeer /\ M = Stalled(f.node, staller)
    <3>1. staller \in Peers /\ OwedBy(f.map, staller) # {}
      BY <1>7, <1>14, <2>2
    <3>2. FlightInv(M, f.map, f.queued) /\ \A q \in Peers : KeepsRest(f.node[q], M[q])
      BY <1>13, <2>2, <3>1, StalledFlight
    <3>3. \A q \in Peers : KeepsRest(N[q], M[q])
      BY <1>13, <3>2 DEF KeepsMost, KeepsRest
    <3> QED BY <3>2, <3>3
  <2> QED BY <1>2, <1>5, <1>15, <2>1, <2>2
<1>17. FlightInv(node', inFlight', nQueued')
  BY <1>2, <1>15, <1>16
<1>18. ConnInv'
  <2>1. conn' \in [Peers -> {"away", "up", "closing", "gone"}] /\ Connected' = Connected
    <3>1. PICK x \in {"closing", conn[p]} : conn' = [conn EXCEPT ![p] = x]
      BY DEF Sent
    <3> QED BY <1>1, <1>2, <3>1 DEF Connected
  <2>2. ASSUME NEW q \in Peers \ Connected PROVE M[q] = CNodeState
    <3>1. q # p /\ node[q] = CNodeState /\ N[q] = node[q]
      BY <1>1, <1>8, <1>11 DEF ConnInv
    <3>2. ListOK(M[q], {})
      <4>1. OwedBy(f.map, q) = {} /\ ListOK(M[q], OwedBy(f.map, q))
        BY <1>8, <1>14, <1>16, <3>1 DEF FlightInv
      <4> QED BY <4>1
    <3>3. Hears(CNodeState, M[q], {}) /\ M[q].shouldBan = CNodeState.shouldBan
      BY <1>16, <3>1 DEF Hears, KeepsRest
    <3> QED BY <3>2, <3>3, BlankList
  <2>3. \A q \in Peers : M[q].sync = N[q].sync /\ M[q].preferred = N[q].preferred
    BY <1>16 DEF KeepsRest
  <2>4. Preferred(M) = Preferred(node)
    BY <1>10, <1>11, <2>3 DEF Preferred
  <2>5. nSync' = Cardinality(Syncing(M))
    <3>1. nSync = Cardinality(Syncing(node)) /\ Syncing(node) \in SUBSET Peers
      BY <1>1 DEF ConnInv, Syncing
    <3>2. CASE start
      <4>1. Syncing(M) = Syncing(node) \cup {p} /\ p \notin Syncing(node)
        BY <1>2, <1>10, <1>11, <2>3, <3>2 DEF Syncing
      <4> QED BY <1>2, <3>1, <3>2, <4>1, OneMore
    <3>3. CASE ~start
      <4>1. Syncing(M) = Syncing(node)
        BY <1>10, <1>11, <2>3, <3>3 DEF Syncing
      <4> QED BY <1>2, <3>1, <3>3, <4>1
    <3> QED BY <1>2, <3>2, <3>3
  <2>6. nPreferred' = Cardinality(Preferred(M))
    BY <1>1, <1>2, <2>4 DEF ConnInv
  <2> QED BY <1>15, <2>1, <2>2, <2>5, <2>6 DEF ConnInv
<1>19. ChainInv'
  <2>1. requests' \in [Peers -> Seq(RequestType)]
    <3>1. Starting(start) \in Seq(RequestType)
      <4>1. PICK x \in Blocks : x = IF bestHeader = Genesis THEN Genesis ELSE Parent[bestHeader]
        BY <1>1, BlockDownloadAssumption DEF ChainInv
      <4>2. PICK h \in RequestType : h = GetHeaders(x, NoBlock)
        BY RequestsTyped
      <4>3. Starting(start) = <<h>> \/ Starting(start) = <<>>
        BY <4>1, <4>2 DEF Starting
      <4>4. <<h>> \in Seq(RequestType) /\ <<>> \in Seq(RequestType)
        OBVIOUS
      <4> QED BY <4>3, <4>4
    <3>2. Requesting(want) \in Seq(RequestType)
      BY <1>5, <1>6, RequestingTyped DEF FoundOK
    <3>3. requests' = [requests EXCEPT ![p] = (@ \o Starting(start)) \o Requesting(want)]
      BY <1>5 DEF Sent
    <3>4. requests[p] \in Seq(RequestType) /\ requests \in [Peers -> Seq(RequestType)]
      BY <1>1 DEF ChainInv
    <3>5. (requests[p] \o Starting(start)) \o Requesting(want) \in Seq(RequestType)
      BY <3>1, <3>2, <3>4
    <3> QED BY <3>3, <3>4, <3>5
  <2> QED BY <1>1, <1>2, <2>1 DEF ChainInv, Linked
<1>20. KnownInv'
  <2>1. Linked(data') = Linked(data)
    BY <1>2
  <2>2. ASSUME NEW q \in Peers
        PROVE  /\ N[q].common # NoBlock => N[q].common \in Linked(data)
               /\ q \notin Slow => {N[q].best, N[q].unknown, N[q].common}
                                     \subseteq Chain[Offers[q]] \cup {NoBlock}
    <3>1. CASE q # p
      BY <1>1, <1>11, <3>1 DEF KnownInv
    <3>2. CASE q = p
      <4>1. SureOf(s)
        BY <1>1, <1>4 DEF SureOf, ChainInv, KnownInv
      <4>2. t.common # NoBlock => t.common \in Linked(data)
        BY <1>1, <1>4, <1>7, <4>1 DEF KnownInv
      <4>3. ASSUME p \notin Slow
            PROVE  {t.best, t.unknown, t.common} \subseteq Chain[Offers[p]] \cup {NoBlock}
        <5>1. {s.best, s.unknown, s.common} \subseteq Chain[Offers[p]] \cup {NoBlock}
          BY <1>1, <1>4, <4>3 DEF KnownInv
        <5>2. {t.best, t.unknown} \subseteq Chain[Offers[p]] \cup {NoBlock}
          BY <1>7, <5>1
        <5>3. t.best \in Blocks => Chain[t.best] \subseteq Chain[Offers[p]]
          <6>1. Offers[p] \in Blocks /\ NoBlock \notin Blocks
            BY BlockDownloadAssumption
          <6> QED BY <5>2, <6>1, ChainOfAncestor
        <5> QED BY <1>7, <5>1, <5>2, <5>3
      <4> QED BY <1>11, <3>2, <4>2, <4>3
    <3> QED BY <3>1, <3>2
  <2>3. ASSUME NEW q \in Peers
        PROVE  /\ M[q].common # NoBlock => M[q].common \in Linked(data)
               /\ q \notin Slow => {M[q].best, M[q].unknown, M[q].common}
                                     \subseteq Chain[Offers[q]] \cup {NoBlock}
    BY <1>16, <2>2 DEF KeepsRest
  <2> QED BY <1>15, <2>1, <2>3 DEF KnownInv
<1>21. MapStep
  <2>1. CASE want = {}
    <3>1. inFlight' = inFlight
      BY <1>1, <1>2, <1>13, <2>1, AskingNothing
    <3> QED BY <3>1 DEF MapStep
  <2>2. CASE want # {}
    <3>1. Cardinality(want) + node[p].n <= MaxInTransit
      BY <1>7, <1>10, <2>2
    <3>2. inFlight' = Asking(inFlight, p, want)
      BY <1>2, <1>13
    <3> QED BY <1>7, <3>1, <3>2 DEF MapStep
  <2> QED BY <2>1, <2>2
<1>22. PeersStep(node, M, index)
  <2>1. ~t.shouldBan /\ (t.best = node[p].best \/ t.best \in index)
    BY <1>4, <1>5, <1>6, <1>7 DEF Touch, FoundOK
  <2>2. PeersStep(node, N, index)
    BY <1>11, <2>1 DEF PeersStep
  <2> QED BY <1>16, <2>2 DEF PeersStep, KeepsRest
<1> QED BY <1>15, <1>17, <1>18, <1>19, <1>20, <1>21, <1>22 DEF IInv

LEMMA SendStep ==
  ASSUME IInv, SendMessages
  PROVE  IInv' /\ MapStep
<1>1. PICK p \in Peers : \E late, closed \in BOOLEAN : SendMessagesTo(p, late, closed)
  BY DEF SendMessages
<1>2. \E start, found, f : Sent(p, start, found, f)
  BY <1>1, Sending
<1> QED BY <1>2, SentKeeps
-----------------------------------------------------------------------------
LEMMA InitInv == Init => IInv
<1> SUFFICES ASSUME Init PROVE IInv
  OBVIOUS
<1>1. /\ conn = [p \in Peers |-> "away"] /\ node = [p \in Peers |-> CNodeState]
      /\ DOMAIN inFlight = {} /\ inFlight \in [DOMAIN inFlight -> Peers]
      /\ nQueued = 0 /\ nPreferred = 0 /\ nSync = 0
      /\ index = {Genesis} /\ data = {Genesis} /\ failed = {}
      /\ tip = Genesis /\ bestHeader = Genesis /\ source = [b \in BadSpend |-> NoPeer]
      /\ locked = FALSE /\ requests = [p \in Peers |-> <<>>]
  BY DEF Init
<1>2. PICK s : s = CNodeState
  OBVIOUS
<1>3. ListOK(s, {}) /\ s.sync = FALSE /\ s.preferred = FALSE /\ s.common = NoBlock
      /\ s.best = NoBlock /\ s.unknown = NoBlock
  BY <1>2, NewList DEF CNodeState
<1>4. \A p \in Peers : node[p] = s /\ OwedBy(inFlight, p) = {}
  BY <1>1, <1>2 DEF OwedBy
<1>5. FlightInv(node, inFlight, nQueued)
  <2>1. \A p \in Peers : ListOK(node[p], OwedBy(inFlight, p))
    BY <1>3, <1>4
  <2>2. node \in [Peers -> CNodeStateType]
    BY <1>1, <1>2, <1>3 DEF ListOK
  <2>3. Validated(node, inFlight) = {}
    BY <1>1 DEF Validated
  <2>4. nQueued >= Cardinality(Validated(node, inFlight)) /\ nQueued \in Nat
    <3>1. Cardinality(Validated(node, inFlight)) = 0
      BY <2>3, FS_EmptySet
    <3> QED BY <1>1, <3>1
  <2> QED BY <1>1, <2>1, <2>2, <2>4 DEF FlightInv
<1>6. ConnInv
  <2>1. Syncing(node) = {} /\ Preferred(node) = {}
    BY <1>3, <1>4 DEF Syncing, Preferred
  <2>2. Cardinality({}) = 0
    BY FS_EmptySet
  <2> QED BY <1>1, <2>1, <2>2 DEF ConnInv
<1>7. ChainInv
  <2>1. Genesis \in Linked({Genesis}) /\ Genesis \in Blocks
    BY BlockDownloadAssumption DEF Linked
  <2>2. source \in [BadSpend -> Peers \cup {NoPeer}]
    BY <1>1
  <2>3. requests \in [Peers -> Seq(RequestType)]
    BY <1>1
  <2> QED BY <1>1, <2>1, <2>2, <2>3 DEF ChainInv
<1>8. KnownInv
  BY <1>3, <1>4 DEF KnownInv
<1> QED BY <1>5, <1>6, <1>7, <1>8 DEF IInv

LEMMA NextInv == IInv /\ [Next]_vars => IInv' /\ MapStep
<1> SUFFICES ASSUME IInv, [Next]_vars PROVE IInv' /\ MapStep
  OBVIOUS
<1>1. CASE SendMessages
  BY <1>1, SendStep
<1>2. CASE ReceiveInv
  BY <1>2, InvStep
<1>3. CASE Answer
  BY <1>3, AnswerStep
<1>4. CASE NoAnswer
  BY <1>4, NoAnswerStep
<1>5. CASE Unrequested
  BY <1>5, UnrequestedStep
<1>6. CASE Connect
  BY <1>6, ConnectStep
<1>7. CASE CloseSocketDisconnect
  BY <1>7, DisconnectStep
<1>8. CASE FinalizeNode
  BY <1>8, FinalizeStep
<1>9. CASE UNCHANGED vars
  <2>1. /\ UNCHANGED <<conn, node, inFlight, nQueued, nPreferred, nSync, locked, requests>>
        /\ UNCHANGED <<index, data, failed, tip, bestHeader, source>>
    BY <1>9 DEF vars, chainVars
  <2>2. ConnInv' /\ KnownInv' /\ ChainInv'
    BY <2>1 DEF IInv, ConnInv, KnownInv, ChainInv, Connected, Syncing, Preferred, Linked
  <2> QED BY <2>1, <2>2 DEF IInv, MapStep
<1> QED BY <1>1, <1>2, <1>3, <1>4, <1>5, <1>6, <1>7, <1>8, <1>9 DEF Next

(* The inductive invariant: what is in flight, as the three places that know  *)
(* of it have it; who is connected and the counts of flags; the block index;  *)
(* and what is known of the peers' chains.                                   *)
THEOREM DownloadInvariant == Spec => []IInv
<1>1. IInv /\ [Next]_vars => IInv'
  BY NextInv
<1> QED BY InitInv, <1>1, PTL DEF Spec

(* CNodeState, mapBlocksInFlight and the counters of main.cpp keep their      *)
(* types: no handler takes a count of blocks in flight, of validated ones or  *)
(* of peers below zero.                                                     *)
THEOREM DownloadTypes == Spec => []DownloadTypeOK
<1>1. IInv => DownloadTypeOK
  <2> SUFFICES ASSUME IInv PROVE DownloadTypeOK
    OBVIOUS
  <2>1. nSync \in Nat /\ nPreferred \in Nat
    <3>1. Syncing(node) \in SUBSET Peers /\ Preferred(node) \in SUBSET Peers
      BY DEF Syncing, Preferred
    <3> QED BY <3>1, FinitePeers DEF IInv, ConnInv
  <2>2. tip \in data
    BY LinkedChains DEF IInv, ChainInv
  <2> QED BY <2>1, <2>2 DEF IInv, ConnInv, ChainInv, FlightInv, DownloadTypeOK
<1> QED BY <1>1, DownloadInvariant, PTL

(* MarkBlockAsInFlight, MarkBlockAsReceived and FinalizeNode keep             *)
(* mapBlocksInFlight, the lists of the CNodeStates and their counters in      *)
(* agreement, and SendMessages, the "version" message and FinalizeNode the    *)
(* counts of synchronising and preferred peers.                              *)
THEOREM InFlightAgrees == Spec => []InFlightExact
<1>1. IInv => InFlightExact
  <2> SUFFICES ASSUME IInv PROVE InFlightExact
    OBVIOUS
  <2>1. /\ FlightInv(node, inFlight, nQueued) /\ ConnInv
        /\ inFlight \in [DOMAIN inFlight -> Peers]
    BY DEF IInv, FlightInv
  <2>2. \A b \in DOMAIN inFlight : inFlight[b] \in Connected
    BY <2>1, AwayOwesNothing DEF OwedBy
  <2>3. ASSUME NEW p \in Peers
        PROVE  /\ {e.hash : e \in node[p].blocks} = {b \in DOMAIN inFlight : inFlight[b] = p}
               /\ node[p].n = Cardinality({b \in DOMAIN inFlight : inFlight[b] = p})
               /\ node[p].n = Cardinality(node[p].blocks)
               /\ node[p].nValid = Cardinality({e \in node[p].blocks : e.valid})
               /\ p \notin Connected => node[p] = CNodeState
    <3>1. ListOK(node[p], OwedBy(inFlight, p))
      BY <2>1 DEF FlightInv
    <3>2. Cardinality(OwedBy(inFlight, p)) = node[p].n
      BY <3>1, ListFacts
    <3>3. OwedBy(inFlight, p) = {b \in DOMAIN inFlight : inFlight[b] = p}
          /\ Valid(node[p]) = {e \in node[p].blocks : e.valid}
      BY DEF OwedBy, Valid
    <3>4. /\ {e.hash : e \in node[p].blocks} = OwedBy(inFlight, p)
          /\ node[p].n = Cardinality(node[p].blocks) /\ node[p].nValid = Cardinality(Valid(node[p]))
      BY <3>1 DEF ListOK
    <3>5. p \notin Connected => node[p] = CNodeState
      BY <2>1 DEF ConnInv
    <3> QED BY <3>2, <3>3, <3>4, <3>5
  <2>4. /\ nSync = Cardinality({p \in Peers : node[p].sync})
        /\ nPreferred = Cardinality({p \in Peers : node[p].preferred})
    BY <2>1 DEF ConnInv, Syncing, Preferred
  <2>5. nQueued >= Cardinality({b \in DOMAIN inFlight : ValidOf(node[inFlight[b]], {b}) # {}})
    BY <2>1 DEF FlightInv, Validated
  <2> QED BY <2>2, <2>3, <2>4, <2>5 DEF InFlightExact
<1> QED BY <1>1, DownloadInvariant, PTL

(* The time-out of a stalling peer strikes only one that owes a block:        *)
(* whoever is marked owes one, and the mark goes with the first that comes.   *)
THEOREM StallingOwesAlways == Spec => []StallingOwes
<1>1. IInv => StallingOwes
  <2> SUFFICES ASSUME IInv, NEW p \in Peers, node[p].stalling PROVE node[p].blocks # {}
    BY DEF StallingOwes
  <2>1. ListOK(node[p], OwedBy(inFlight, p))
    BY DEF IInv, FlightInv
  <2> QED BY <2>1 DEF ListOK
<1> QED BY <1>1, DownloadInvariant, PTL

(* FindNextBlocksToDownload starts from a block that is here with all its     *)
(* ancestors, and, of a peer that announces its own chain, from one of it.    *)
THEOREM CommonIsHadAlways == Spec => []CommonIsHad
<1>1. IInv => CommonIsHad
  BY DEF IInv, KnownInv, CommonIsHad
<1> QED BY <1>1, DownloadInvariant, PTL
-----------------------------------------------------------------------------
(* What mapBlocksInFlight says of each block.                                *)
Holder(m) == [b \in Blocks |-> IF b \in DOMAIN m THEN m[b] ELSE NoPeer]

LEMMA HolderFacts ==
  ASSUME NEW m, DOMAIN m \subseteq Blocks, m \in [DOMAIN m -> Peers]
  PROVE  /\ {b \in Blocks : Holder(m)[b] = NoPeer} = Blocks \ DOMAIN m
         /\ \A p \in Peers : {b \in Blocks : Holder(m)[b] = p} = OwedBy(m, p)
         /\ \A p, S : S \in SUBSET Blocks =>
              Holder(Asking(m, p, S)) = [b \in Blocks |-> IF b \in S THEN p ELSE Holder(m)[b]]
         /\ \A S : Holder(Without(m, S)) = [b \in Blocks |-> IF b \in S THEN NoPeer ELSE Holder(m)[b]]
<1>1. NoPeer \notin Peers
  BY BlockDownloadAssumption
<1>2. {b \in Blocks : Holder(m)[b] = NoPeer} = Blocks \ DOMAIN m
  BY <1>1 DEF Holder
<1>3. \A p \in Peers : {b \in Blocks : Holder(m)[b] = p} = OwedBy(m, p)
  BY <1>1 DEF Holder, OwedBy
<1>4. ASSUME NEW p, NEW S \in SUBSET Blocks
      PROVE  Holder(Asking(m, p, S)) = [b \in Blocks |-> IF b \in S THEN p ELSE Holder(m)[b]]
  BY DEF Holder, Asking
<1>5. ASSUME NEW S
      PROVE  Holder(Without(m, S)) = [b \in Blocks |-> IF b \in S THEN NoPeer ELSE Holder(m)[b]]
  BY DEF Holder, Without
<1> QED BY <1>2, <1>3, <1>4, <1>5

(* The sizes of sets that BlockAssignment counts are those counted here.      *)
LEMMA SameCardinality == \A S : Assignment!Cardinality(S) = Cardinality(S)
  BY DEF Assignment!Cardinality, Cardinality

LEMMA InitAsks == Init => Assignment!Init
<1> SUFFICES ASSUME Init PROVE Assignment!Init
  OBVIOUS
<1>1. DOMAIN inFlight = {}
  BY DEF Init
<1> QED BY <1>1 DEF Assignment!Init

(* A step that changes the map asks one peer for blocks that nobody is asked   *)
(* for, or receives a block, or loses a peer.                                *)
LEMMA StepAsks ==
  ASSUME IInv, MapStep
  PROVE  Assignment!Next \/ Holder(inFlight') = Holder(inFlight)
<1>1. /\ DOMAIN inFlight \subseteq Blocks /\ inFlight \in [DOMAIN inFlight -> Peers]
      /\ \A p \in Peers : ListOK(node[p], OwedBy(inFlight, p))
  BY DEF IInv, FlightInv
<1>2. CASE inFlight' = inFlight
  BY <1>2
<1>3. ASSUME NEW p \in Peers, NEW S \in SUBSET (Blocks \ DOMAIN inFlight),
             inFlight' = Asking(inFlight, p, S), Cardinality(S) + node[p].n <= MaxInTransit
      PROVE  Assignment!Next
  <2>1. Assignment!AskedOf(NoPeer) = Blocks \ DOMAIN inFlight
    BY <1>1, HolderFacts DEF Assignment!AskedOf, Holder
  <2>2. Cardinality(Assignment!AskedOf(p)) + Cardinality(S) <= MaxInTransit
    <3>1. Assignment!AskedOf(p) = OwedBy(inFlight, p)
      BY <1>1, HolderFacts DEF Assignment!AskedOf, Holder
    <3>2. ListOK(node[p], OwedBy(inFlight, p))
      BY <1>1
    <3>3. Cardinality(OwedBy(inFlight, p)) = node[p].n /\ node[p].n \in Nat
      BY <3>2, ListFacts
    <3>4. Cardinality(S) \in Nat /\ MaxInTransit \in Nat
      BY FiniteBlocks, BlockDownloadAssumption
    <3> QED BY <1>3, <3>1, <3>3, <3>4
  <2>3. Holder(inFlight') = [b \in Blocks |-> IF b \in S THEN p ELSE Holder(inFlight)[b]]
    BY <1>1, <1>3, HolderFacts
  <2>4. Assignment!Ask(p)
    <3>1. S \in SUBSET Assignment!AskedOf(NoPeer)
      BY <2>1
    <3>2. Holder(inFlight') = Assignment!Assigned(S, p)
      BY <2>3 DEF Assignment!Assigned, Holder
    <3>3. \E T \in SUBSET Assignment!AskedOf(NoPeer) :
            /\ Cardinality(Assignment!AskedOf(p)) + Cardinality(T) <= MaxInTransit
            /\ Holder(inFlight') = Assignment!Assigned(T, p)
      BY <2>2, <3>1, <3>2
    <3> QED BY <3>3, SameCardinality DEF Assignment!Ask, Holder
  <2> QED BY <2>4 DEF Assignment!Next
<1>4. ASSUME NEW b \in Blocks, inFlight' = Without(inFlight, {b})
      PROVE  Assignment!Next
  <2>1. Holder(inFlight') = [c \in Blocks |-> IF c \in {b} THEN NoPeer ELSE Holder(inFlight)[c]]
    BY <1>1, <1>4, HolderFacts
  <2>2. Assignment!Receive(b)
    BY <2>1 DEF Assignment!Receive, Assignment!Assigned, Holder
  <2> QED BY <2>2 DEF Assignment!Next
<1>5. ASSUME NEW p \in Peers, inFlight' = Without(inFlight, OwedBy(inFlight, p))
      PROVE  Assignment!Next
  <2>1. Assignment!AskedOf(p) = OwedBy(inFlight, p)
    BY <1>1, HolderFacts DEF Assignment!AskedOf, Holder
  <2>2. Holder(inFlight') = [c \in Blocks |-> IF c \in OwedBy(inFlight, p) THEN NoPeer ELSE Holder(inFlight)[c]]
    BY <1>1, <1>5, HolderFacts
  <2>3. Assignment!Lose(p)
    BY <2>1, <2>2 DEF Assignment!Lose, Assignment!Assigned, Holder
  <2> QED BY <2>3 DEF Assignment!Next
<1> QED BY <1>2, <1>3, <1>4, <1>5 DEF MapStep

(* MarkBlockAsInFlight asks for a block of one peer at a time, of no peer for  *)
(* more than MAX_BLOCKS_IN_TRANSIT_PER_PEER, and the block stays asked of it   *)
(* until MarkBlockAsReceived or FinalizeNode takes it out.                   *)
THEOREM AsksOnePeer == Spec => AskedOfOnePeer
<1>1. IInv /\ [Next]_vars => [Assignment!Next]_(Holder(inFlight))
  BY NextInv, StepAsks
<1>2. Init => Assignment!Init
  BY InitAsks
<1> QED BY <1>1, <1>2, DownloadInvariant, PTL DEF Spec, AskedOfOnePeer, Assignment!Spec, Holder
-----------------------------------------------------------------------------
(* The honest peer.  Two blocks of one chain: the lower is an ancestor.       *)
LEMMA LowerIsAncestor ==
  \A b \in Blocks : \A x, y \in Chain[b] : Height[x] <= Height[y] => x \in Chain[y]
<1> DEFINE S == {b \in Blocks : \E x, y \in Chain[b] : Height[x] <= Height[y] /\ x \notin Chain[y]}
<1>1. SUFFICES ASSUME S # {} PROVE FALSE
  OBVIOUS
<1>2. S \in SUBSET (Blocks \ {Genesis})
  BY BlockDownloadAssumption
<1>3. PICK b \in S : Parent[b] \in Blocks \ S
  BY <1>1, <1>2, FirstOfItsChain
<1>4. PICK x \in Chain[b], y \in Chain[b] : Height[x] <= Height[y] /\ x \notin Chain[y]
  BY <1>3
<1>5. y # b
  BY <1>4
<1>6. x # b
  <2>1. Height[y] < Height[b]
    BY <1>3, <1>5, AncestorIsLower
  <2>2. Height[x] \in Nat /\ Height[y] \in Nat /\ Height[b] \in Nat
    BY <1>3, <1>4, BlockDownloadAssumption
  <2> QED BY <1>4, <2>1, <2>2
<1>7. x \in Chain[Parent[b]] /\ y \in Chain[Parent[b]]
  BY <1>2, <1>4, <1>5, <1>6, ParentOf
<1> QED BY <1>3, <1>4, <1>7

LEMMA AncestorHasNoMoreWork == \A b \in Blocks : \A x \in Chain[b] : Work[x] <= Work[b]
<1> DEFINE S == {b \in Blocks : \E x \in Chain[b] : ~(Work[x] <= Work[b])}
<1>1. SUFFICES ASSUME S # {} PROVE FALSE
  OBVIOUS
<1>2. S \in SUBSET (Blocks \ {Genesis})
  BY BlockDownloadAssumption
<1>3. PICK b \in S : Parent[b] \in Blocks \ S
  BY <1>1, <1>2, FirstOfItsChain
<1>4. PICK x \in Chain[b] : ~(Work[x] <= Work[b])
  BY <1>3
<1>5. Work[x] \in Nat /\ Work[b] \in Nat /\ Work[Parent[b]] \in Nat
  BY <1>3, <1>4, BlockDownloadAssumption
<1>6. x \in Chain[Parent[b]] /\ Work[b] > Work[Parent[b]]
  BY <1>2, <1>4, <1>5, ParentOf
<1>7. Work[x] <= Work[Parent[b]]
  BY <1>3, <1>6
<1> QED BY <1>4, <1>5, <1>6, <1>7

LEMMA HighestHasMostWork ==
  ASSUME NEW b \in Blocks, NEW S \in SUBSET Chain[b], S # {}
  PROVE  Highest(S) \in S /\ \A c \in S : Work[c] <= Work[Highest(S)]
<1>1. S \in SUBSET Blocks
  BY OwnChain
<1>2. PICK h \in S : h = Highest(S) /\ \A c \in S : Height[c] <= Height[h]
  BY <1>1, HighestBlock
<1>3. ASSUME NEW c \in S PROVE Work[c] <= Work[h]
  <2>1. c \in Chain[h]
    BY <1>2, LowerIsAncestor
  <2> QED BY <1>1, <2>1, AncestorHasNoMoreWork
<1> QED BY <1>2, <1>3

LEMMA ForkOf ==
  ASSUME NEW a \in Blocks, NEW b \in Blocks, NEW f, f = LastCommonAncestor(a, b)
  PROVE  /\ f \in Chain[a] /\ f \in Chain[b] /\ f \in Blocks
         /\ \A c \in Chain[a] \cap Chain[b] : Height[c] <= Height[f]
<1>1. PICK S \in SUBSET Blocks : S = Chain[a] \cap Chain[b]
  BY OwnChain
<1>2. S # {}
  BY <1>1, GenesisInChain
<1>3. f = Highest(S)
  BY <1>1 DEF LastCommonAncestor
<1> QED BY <1>1, <1>2, <1>3, HighestBlock

(* The answer to "getheaders" goes on from a block of the chain of the one     *)
(* that was named, and leaves nothing out; it comes to the block that was      *)
(* asked for if the rest of the peer's chain fits in one message.             *)
Near(p, b) == Height[Offers[p]] <= Height[LastCommonAncestor(b, Offers[p])] + MaxHeaders

LEMMA HeadersReach ==
  ASSUME NEW p \in Peers, NEW r \in RequestType
  PROVE  /\ HeadersOf(p, r) \in SUBSET Chain[Offers[p]]
         /\ \A x \in HeadersOf(p, r) : x # Genesis =>
              Parent[x] \in Chain[r.block] \/ Parent[x] \in HeadersOf(p, r)
         /\ Near(p, r.block) /\ r.stop \in Chain[Offers[p]] =>
              r.stop \in Chain[r.block] \/ r.stop \in HeadersOf(p, r)
<1>1. r.block \in Blocks /\ Offers[p] \in Blocks
  BY BlockDownloadAssumption DEF RequestType
<1>2. PICK o \in Blocks : o = Offers[p]
  BY <1>1
<1>3. PICK fork : fork = LastCommonAncestor(r.block, o)
  OBVIOUS
<1>4. fork \in Chain[r.block] /\ fork \in Chain[o] /\ fork \in Blocks
  BY <1>1, <1>2, <1>3, ForkOf
<1> DEFINE next == {b \in Chain[o] : Height[b] > Height[fork] /\ Height[b] <= Height[fork] + MaxHeaders}
<1>5. HeadersOf(p, r) = IF r.stop \in next THEN {b \in next : Height[b] <= Height[r.stop]} ELSE next
  BY <1>2, <1>3 DEF HeadersOf
<1>6. \A b \in Chain[o] : b \in Blocks /\ Height[b] \in Nat
  BY OwnChain, BlockDownloadAssumption
<1>7. Height[fork] \in Nat /\ MaxHeaders \in Nat
  BY <1>4, BlockDownloadAssumption
<1>8. \A b \in Chain[o] : Height[b] <= Height[fork] => b \in Chain[r.block]
  <2>1. \A b \in Chain[o] : Height[b] <= Height[fork] => b \in Chain[fork]
    BY <1>4, LowerIsAncestor
  <2>2. Chain[fork] \subseteq Chain[r.block]
    BY <1>1, <1>4, ChainOfAncestor
  <2> QED BY <2>1, <2>2
<1>9. HeadersOf(p, r) \in SUBSET Chain[o]
  BY <1>5
<1>10. ASSUME NEW x \in HeadersOf(p, r), x # Genesis
       PROVE  Parent[x] \in Chain[r.block] \/ Parent[x] \in HeadersOf(p, r)
  <2>1. x \in next /\ (r.stop \in next => Height[x] <= Height[r.stop])
    BY <1>5
  <2>2. x \in Blocks \ {Genesis} /\ x \in Chain[o]
    BY <1>6, <1>10, <2>1
  <2>3. Parent[x] \in Blocks /\ Height[x] = Height[Parent[x]] + 1 /\ Height[Parent[x]] \in Nat
    BY <2>2, ParentOf, BlockDownloadAssumption
  <2>4. Parent[x] \in Chain[o]
    <3>1. Parent[x] \in Chain[x]
      BY <2>2, <2>3, ParentOf, OwnChain
    <3> QED BY <2>2, <3>1, ChainOfAncestor
  <2>5. CASE Height[Parent[x]] <= Height[fork]
    BY <1>8, <2>4, <2>5
  <2>6. CASE Height[Parent[x]] > Height[fork]
    <3>1. Parent[x] \in next
      BY <1>6, <1>7, <2>1, <2>3, <2>4, <2>6
    <3>2. r.stop \in next => Height[Parent[x]] <= Height[r.stop]
      <4>1. r.stop \in next => Height[r.stop] \in Nat
        BY <1>6
      <4> QED BY <2>1, <2>3, <4>1
    <3> QED BY <1>5, <3>1, <3>2
  <2> QED BY <1>7, <2>3, <2>5, <2>6
<1>11. ASSUME Near(p, r.block), r.stop \in Chain[o]
       PROVE  r.stop \in Chain[r.block] \/ r.stop \in HeadersOf(p, r)
  <2>1. Height[o] <= Height[fork] + MaxHeaders
    BY <1>2, <1>3, <1>11 DEF Near
  <2>2. Height[r.stop] <= Height[o] /\ Height[r.stop] \in Nat /\ Height[o] \in Nat
    BY <1>6, <1>11, AncestorIsLower, BlockDownloadAssumption
  <2>3. CASE Height[r.stop] <= Height[fork]
    BY <1>8, <1>11, <2>3
  <2>4. CASE Height[r.stop] > Height[fork]
    <3>1. r.stop \in next
      BY <1>7, <1>11, <2>1, <2>2, <2>4
    <3> QED BY <1>5, <2>2, <3>1
  <2> QED BY <1>7, <2>2, <2>3, <2>4
<1> QED BY <1>2, <1>9, <1>10, <1>11
-----------------------------------------------------------------------------
(* The index is closed under Parent, pindexBestHeader has the most work of it, *)
(* a block that failed has a cause in its chain, and whoever a bad block came  *)
(* from serves it.                                                          *)
Bad == BadBlock \cup BadSpend
Closed(I) == Genesis \in I /\ \A b \in I \ {Genesis} : Parent[b] \in I
MostWork(I, h) == \A b \in I : Work[b] <= Work[h]
Caused(F) == \A b \in F : Chain[b] \cap Bad # {}
Traced(src) == \A b \in BadSpend : src[b] # NoPeer => b \in Chain[Offers[src[b]]]
CausesInv == Closed(index) /\ MostWork(index, bestHeader) /\ Caused(failed) /\ Traced(source)

(* A peer that answers with a chain of valid blocks.  What it is asked for is  *)
(* of its chain, and by the time it is asked for a block the header is there:  *)
(* it is in the index I, or a request before it brings it.                    *)
Honest(p) == p \in Peers \ Slow /\ Chain[Offers[p]] \cap Bad = {}
Brings(p, r, b) == r.ask = "headers" /\ r.stop = b /\ Near(p, r.block)
Fits(p, q, i, I) ==
  /\ q[i].ask = "headers" => q[i].block \in I
  /\ q[i].ask = "data" =>
       /\ q[i].block \in Chain[Offers[p]]
       /\ q[i].block \in I \/ \E j \in 1..(i - 1) : Brings(p, q[j], q[i].block)
Ordered(p, q, I) == \A i \in 1..Len(q) : Fits(p, q, i, I)
BestKnown(N, I) == \A p \in Peers : N[p].best # NoBlock => N[p].best \in I
Unbanned(N) == \A p \in Peers : Honest(p) => ~N[p].shouldBan
Expected(R, I) == \A p \in Peers : Honest(p) => Ordered(p, R[p], I)
HInv == IInv /\ CausesInv /\ BestKnown(node, index) /\ Unbanned(node) /\ Expected(requests, index)

LEMMA ClosedChains ==
  ASSUME NEW I \in SUBSET Blocks, Closed(I)
  PROVE  \A b \in I : Chain[b] \subseteq I
<1> DEFINE S == {b \in I : ~(Chain[b] \subseteq I)}
<1>1. SUFFICES ASSUME S # {} PROVE FALSE
  OBVIOUS
<1>2. S \in SUBSET (Blocks \ {Genesis})
  BY BlockDownloadAssumption DEF Closed
<1>3. PICK b \in S : Parent[b] \in Blocks \ S
  BY <1>1, <1>2, FirstOfItsChain
<1>4. Parent[b] \in I
  BY <1>2, <1>3 DEF Closed
<1>5. Chain[Parent[b]] \subseteq I
  BY <1>3, <1>4
<1> QED BY <1>2, <1>3, <1>5, ParentOf

(* New headers, of one chain and each above one that is there.               *)
LEMMA AddedKeeps ==
  ASSUME ChainInv, Closed(index), MostWork(index, bestHeader),
         NEW o \in Blocks, NEW S \in SUBSET Chain[o],
         \A x \in S : x # Genesis => Parent[x] \in index \cup S,
         AddToBlockIndex(S \ index)
  PROVE  index' = index \cup S /\ Closed(index') /\ MostWork(index', bestHeader')
<1>1. PICK A \in SUBSET Chain[o] : A = S \ index
  OBVIOUS
<1>2. index' = index \cup S
  BY <1>1 DEF AddToBlockIndex
<1>3. Closed(index')
  BY <1>2 DEF Closed
<1>4. Work \in [Blocks -> Nat] /\ index \subseteq Blocks /\ bestHeader \in Blocks /\ S \subseteq Blocks
  BY OwnChain, BlockDownloadAssumption DEF ChainInv
<1>5. bestHeader' = IF A # {} /\ Work[Highest(A)] > Work[bestHeader] THEN Highest(A) ELSE bestHeader
  BY <1>1 DEF AddToBlockIndex
<1>6. A # {} => Highest(A) \in A /\ \A c \in A : Work[c] <= Work[Highest(A)]
  BY HighestHasMostWork
<1>7. PICK h : h = Highest(A)
  OBVIOUS
<1>8. MostWork(index', bestHeader')
  <2>1. SUFFICES ASSUME NEW b \in index' PROVE Work[b] <= Work[bestHeader']
    BY DEF MostWork
  <2>2. b \in A \/ b \in index
    BY <1>1, <1>2
  <2>3. CASE A # {} /\ Work[h] > Work[bestHeader]
    BY <1>1, <1>4, <1>5, <1>6, <1>7, <2>2, <2>3 DEF MostWork
  <2>4. CASE ~(A # {} /\ Work[h] > Work[bestHeader])
    BY <1>1, <1>4, <1>5, <1>6, <1>7, <2>2, <2>4 DEF MostWork
  <2> QED BY <2>3, <2>4
<1> QED BY <1>2, <1>3, <1>8

LEMMA OrderedAbove ==
  ASSUME NEW p, NEW q, NEW I, NEW J, I \subseteq J, Ordered(p, q, I)
  PROVE  Ordered(p, q, J)
  BY DEF Ordered, Fits

LEMMA Joined ==
  ASSUME NEW q \in Seq(RequestType), NEW r \in Seq(RequestType), NEW s, s = q \o r
  PROVE  /\ s \in Seq(RequestType) /\ Len(s) = Len(q) + Len(r)
         /\ Len(q) \in Nat /\ Len(r) \in Nat /\ Len(s) \in Nat
         /\ \A i \in 1..Len(q) : s[i] = q[i]
         /\ \A i \in 1..Len(r) : s[Len(q) + i] = r[i]
  OBVIOUS

LEMMA OrderedTogether ==
  ASSUME NEW p, NEW q \in Seq(RequestType), NEW r \in Seq(RequestType), NEW I,
         Ordered(p, q, I), Ordered(p, r, I)
  PROVE  Ordered(p, q \o r, I)
<1>1. PICK s : s = q \o r
  OBVIOUS
<1>2. /\ Len(s) = Len(q) + Len(r) /\ Len(q) \in Nat /\ Len(r) \in Nat /\ Len(s) \in Nat
      /\ \A i \in 1..Len(q) : s[i] = q[i]
      /\ \A i \in 1..Len(r) : s[Len(q) + i] = r[i]
  BY <1>1, Joined
<1>3. ASSUME NEW i \in 1..Len(s) PROVE Fits(p, s, i, I)
  <2>1. CASE i \in 1..Len(q)
    <3>1. s[i] = q[i] /\ \A j \in 1..(i - 1) : j \in 1..Len(q) /\ s[j] = q[j]
      BY <1>2, <2>1
    <3>2. Fits(p, q, i, I)
      BY <2>1 DEF Ordered
    <3> QED BY <3>1, <3>2 DEF Fits
  <2>2. CASE i \notin 1..Len(q)
    <3>1. PICK k \in 1..Len(r) : i = Len(q) + k
      <4>1. i - Len(q) \in 1..Len(r) /\ i = Len(q) + (i - Len(q))
        BY <1>2, <2>2
      <4> QED BY <4>1
    <3>2. Fits(p, r, k, I) /\ s[i] = r[k]
      BY <1>2, <3>1 DEF Ordered
    <3>3. \A j \in 1..(k - 1) : Len(q) + j \in 1..(i - 1) /\ s[Len(q) + j] = r[j]
      BY <1>2, <3>1
    <3> QED BY <3>2, <3>3 DEF Fits
  <2> QED BY <2>1, <2>2
<1> QED BY <1>1, <1>3 DEF Ordered

(* The oldest request was answered, and the index is J now.                  *)
LEMMA AnsweredOrdered ==
  ASSUME NEW p, NEW q \in Seq(RequestType), q # <<>>, NEW I, NEW J, I \subseteq J,
         Ordered(p, q, I),
         \A b \in Chain[Offers[p]] : Brings(p, Head(q), b) => b \in J
  PROVE  Ordered(p, Tail(q), J)
<1>0. Tail(q) \in Seq(RequestType)
  OBVIOUS
<1>1. PICK s \in Seq(RequestType) : s = Tail(q)
  BY <1>0
<1>2. /\ Len(q) \in Nat /\ Len(s) = Len(q) - 1 /\ Head(q) = q[1]
      /\ \A i \in 1..Len(s) : s[i] = q[i + 1]
  BY <1>1
<1>3. ASSUME NEW i \in 1..Len(s) PROVE Fits(p, s, i, J)
  <2>1. Fits(p, q, i + 1, I) /\ s[i] = q[i + 1]
    BY <1>2 DEF Ordered
  <2>2. s[i].ask = "headers" => s[i].block \in J
    BY <2>1 DEF Fits
  <2>3. ASSUME s[i].ask = "data", s[i].block \notin J
        PROVE  \E j \in 1..(i - 1) : Brings(p, s[j], s[i].block)
    <3>1. s[i].block \in Chain[Offers[p]] /\ \E j \in 1..i : Brings(p, q[j], s[i].block)
      BY <2>1, <2>3 DEF Fits
    <3>2. PICK j \in 1..i : Brings(p, q[j], s[i].block)
      BY <3>1
    <3>3. j # 1
      BY <1>2, <2>3, <3>1, <3>2
    <3>4. j - 1 \in 1..(i - 1) /\ s[j - 1] = q[j]
      BY <1>2, <3>2, <3>3
    <3> QED BY <3>2, <3>4
  <2>4. s[i].ask = "data" => s[i].block \in Chain[Offers[p]]
    BY <2>1 DEF Fits
  <2> QED BY <2>2, <2>3, <2>4 DEF Fits
<1> QED BY <1>1, <1>3 DEF Ordered

LEMMA StillKnown ==
  ASSUME NEW N, NEW M, NEW I, NEW J, BestKnown(N, I), Unbanned(N), PeersStep(N, M, J), I \subseteq J
  PROVE  BestKnown(M, J) /\ Unbanned(M)
<1>1. ASSUME NEW p \in Peers PROVE M[p].best # NoBlock => M[p].best \in J
  BY DEF PeersStep, BestKnown
<1>2. ASSUME NEW p \in Peers, Honest(p) PROVE ~M[p].shouldBan
  BY <1>2 DEF PeersStep, Unbanned
<1> QED BY <1>1, <1>2 DEF BestKnown, Unbanned

(* Requests of one peer are added.                                           *)
Plus(R, p, x) == [R EXCEPT ![p] = @ \o x]

LEMMA MoreExpected ==
  ASSUME NEW R \in [Peers -> Seq(RequestType)], NEW I, Expected(R, I), NEW p \in Peers,
         NEW x \in Seq(RequestType), Honest(p) => Ordered(p, x, I)
  PROVE  Expected(Plus(R, p, x), I) /\ Plus(R, p, x) \in [Peers -> Seq(RequestType)]
<1> DEFINE T == Plus(R, p, x)
<1> USE DEF Plus
<1>1. T[p] = R[p] \o x /\ (\A q \in Peers \ {p} : T[q] = R[q])
  OBVIOUS
<1>2. R[p] \in Seq(RequestType) /\ R[p] \o x \in Seq(RequestType)
  OBVIOUS
<1>3. ASSUME NEW q \in Peers, Honest(q) PROVE Ordered(q, T[q], I)
  <2>1. Ordered(q, R[q], I)
    BY <1>3 DEF Expected
  <2> QED BY <1>1, <1>2, <1>3, <2>1, OrderedTogether
<1>4. T \in [Peers -> Seq(RequestType)]
  BY <1>2
<1> QED BY <1>3, <1>4 DEF Expected

LEMMA RequestingOrdered ==
  ASSUME NEW p, NEW S, NEW I, S \subseteq I, S \subseteq Chain[Offers[p]],
         S # {} => \E b \in Blocks : S \subseteq Chain[b]
  PROVE  Ordered(p, Requesting(S), I)
<1>1. CASE S = {}
  <2>1. Cardinality(S) = 0
    BY <1>1, FS_EmptySet
  <2>2. Requesting(S) = <<>>
    BY <2>1 DEF Requesting
  <2> QED BY <2>2 DEF Ordered
<1>2. CASE S # {}
  <2>1. PICK b \in Blocks : S \in SUBSET Chain[b]
    BY <1>2
  <2>2. PICK n \in Nat : n = Cardinality(S)
    BY <2>1, InOrderOf
  <2>3. \A i \in 1..n : InOrder(S)[i] \in S
    BY <2>1, <2>2, InOrderOf
  <2>4. PICK q : q = [i \in 1..n |-> GetData(InOrder(S)[i])]
    OBVIOUS
  <2>5. Requesting(S) = q
    BY <2>2, <2>4 DEF Requesting
  <2>6. Len(q) = n /\ \A i \in 1..n : q[i] = GetData(InOrder(S)[i])
    BY <2>4
  <2>7. \A i \in 1..n : q[i].ask = "data" /\ q[i].block \in S
    BY <2>3, <2>6 DEF GetData
  <2> QED BY <2>5, <2>6, <2>7 DEF Ordered, Fits
<1> QED BY <1>1, <1>2

LEMMA IndexFacts ==
  ASSUME HInv
  PROVE  /\ index \in SUBSET Blocks /\ bestHeader \in index /\ Genesis \in index
         /\ \A b \in index : Chain[b] \subseteq index
         /\ \A b \in index \ {Genesis} : Parent[b] \in index
         /\ tip \in index /\ Work[tip] <= Work[bestHeader]
<1>1. /\ index \in SUBSET Blocks /\ bestHeader \in index /\ data \subseteq index
      /\ tip \in Linked(data) /\ Closed(index) /\ MostWork(index, bestHeader)
  BY DEF HInv, IInv, ChainInv, CausesInv
<1>2. tip \in index
  BY <1>1, LinkedChains
<1>3. \A b \in index : Chain[b] \subseteq index
  BY <1>1, ClosedChains
<1> QED BY <1>1, <1>2, <1>3 DEF Closed, MostWork

(* SendMessages asks a peer for headers above what is here, and for blocks of  *)
(* the chain it was found to have.                                          *)
LEMMA SentHonest ==
  ASSUME HInv, NEW p \in Peers, NEW start, NEW found, NEW f, Sent(p, start, found, f)
  PROVE  HInv'
<1>1. /\ UNCHANGED <<index, data, failed, tip, bestHeader, source>>
      /\ requests' = [requests EXCEPT ![p] = (@ \o Starting(start)) \o Requesting(found.want)]
      /\ FoundOK(Switched(node[p], start), found) /\ start \in BOOLEAN
  BY DEF Sent
<1>2. IInv' /\ PeersStep(node, node', index)
  BY SentKeeps DEF HInv
<1>3. CausesInv'
  BY <1>1 DEF HInv, CausesInv
<1>4. PICK I : I = index /\ I = index'
  BY <1>1
<1>5. BestKnown(node', I) /\ Unbanned(node')
  BY <1>2, <1>4, StillKnown DEF HInv
<1>6. requests \in [Peers -> Seq(RequestType)] /\ node \in [Peers -> CNodeStateType]
  BY DEF HInv, IInv, ChainInv, FlightInv
<1>7. PICK x : x = Starting(start)
  OBVIOUS
<1>8. x \in Seq(RequestType) /\ Ordered(p, x, I)
  <2>1. PICK b \in index : b = IF bestHeader = Genesis THEN Genesis ELSE Parent[bestHeader]
    BY IndexFacts
  <2>2. PICK h \in RequestType : h = GetHeaders(b, NoBlock)
    BY <2>1, IndexFacts, RequestsTyped
  <2>3. h.ask = "headers" /\ h.block = b
    BY <2>2 DEF GetHeaders
  <2>4. x = <<h>> \/ x = <<>>
    BY <1>7, <2>1, <2>2 DEF Starting
  <2>5. Len(<<h>>) = 1 /\ <<h>>[1] = h /\ <<h>> \in Seq(RequestType) /\ <<>> \in Seq(RequestType)
    OBVIOUS
  <2>6. Ordered(p, <<h>>, I)
    BY <1>4, <2>1, <2>3, <2>5 DEF Ordered, Fits
  <2>7. Ordered(p, <<>>, I)
    BY DEF Ordered
  <2> QED BY <2>4, <2>5, <2>6, <2>7
<1>9. PICK s, t, want : s = Switched(node[p], start) /\ t = found.state /\ want = found.want
  OBVIOUS
<1>10. /\ t.best \in {s.best, s.unknown} /\ (t.best = s.best \/ t.best \in index)
       /\ want # {} => t.best \in Blocks /\ want \subseteq Chain[t.best]
  BY <1>1, <1>9 DEF FoundOK
<1>11. s.best = node[p].best /\ s.unknown = node[p].unknown
  BY <1>1, <1>6, <1>9, SwitchedFacts
<1>12. PICK y : y = Requesting(want)
  OBVIOUS
<1>13. y \in Seq(RequestType)
  BY <1>10, <1>12, RequestingTyped
<1>14. ASSUME Honest(p) PROVE Ordered(p, y, I)
  <2>1. CASE want = {}
    BY <1>12, <2>1, RequestingOrdered
  <2>2. CASE want # {}
    <3>1. t.best \in Blocks /\ want \subseteq Chain[t.best] /\ t.best # NoBlock
      BY <1>10, <2>2, BlockDownloadAssumption
    <3>2. t.best \in index
      BY <1>10, <1>11, <3>1 DEF HInv, BestKnown
    <3>3. t.best \in Chain[Offers[p]]
      BY <1>10, <1>11, <1>14, <3>1 DEF HInv, IInv, KnownInv, Honest
    <3>4. want \subseteq I /\ want \subseteq Chain[Offers[p]]
      BY <1>4, <3>1, <3>2, <3>3, IndexFacts, ChainOfAncestor, BlockDownloadAssumption
    <3> QED BY <1>12, <3>1, <3>4, RequestingOrdered
  <2> QED BY <2>1, <2>2
<1>15. Expected(requests', I)
  <2>1. PICK R : R = [requests EXCEPT ![p] = @ \o x]
    OBVIOUS
  <2>2. Expected(R, I) /\ R \in [Peers -> Seq(RequestType)]
    <3>1. R = Plus(requests, p, x)
      BY <2>1 DEF Plus
    <3>2. Expected(requests, I) /\ requests \in [Peers -> Seq(RequestType)]
      BY <1>4, <1>6 DEF HInv
    <3> QED BY <1>4, <1>8, <3>1, <3>2, MoreExpected
  <2>3. requests' = [R EXCEPT ![p] = @ \o y]
    BY <1>1, <1>6, <1>7, <1>9, <1>12, <2>1
  <2>4. requests' = Plus(R, p, y)
    BY <2>3 DEF Plus
  <2> QED BY <1>4, <1>13, <1>14, <2>2, <2>4, MoreExpected
<1> QED BY <1>2, <1>3, <1>4, <1>5, <1>15 DEF HInv

(* While the tip is recent, the headers between what is here and the end of a  *)
(* peer's chain fit in one message.                                         *)
NearTip == \A t \in Fresh \cap Blocks : \A b \in Blocks :
  Work[b] >= Work[t] => \A p \in Peers \ Slow : Near(p, b)

(* An "inv" is answered with a request for headers, and then, if the tip is    *)
(* recent, with one for the block: the headers come first.                   *)
LEMMA InvHonest ==
  ASSUME NearTip, HInv, ReceiveInv
  PROVE  HInv'
<1>1. IInv' /\ PeersStep(node, node', index)
  BY InvStep DEF HInv
<1>2. PICK p \in Peers : \E b \in Announces[p] :
        /\ LET f == Flight([node EXCEPT ![p] = UpdateBlockAvailability(@, b, index)])
               new == b \notin index /\ b \notin DOMAIN inFlight
               direct == new /\ tip \in Fresh /\ node[p].n < MaxInTransit
           IN /\ SetFlight(IF direct THEN MarkBlockAsInFlight(f, p, {b}, FALSE) ELSE f)
              /\ requests' = [requests EXCEPT ![p] =
                                @ \o (IF new THEN HeadersFirst(b, direct) ELSE <<>>)]
        /\ UNCHANGED <<conn, nPreferred, nSync, chainVars, locked>>
  BY Zenon DEF ReceiveInv
<1>3. PICK b \in Announces[p] :
        /\ LET f == Flight([node EXCEPT ![p] = UpdateBlockAvailability(@, b, index)])
               new == b \notin index /\ b \notin DOMAIN inFlight
               direct == new /\ tip \in Fresh /\ node[p].n < MaxInTransit
           IN /\ SetFlight(IF direct THEN MarkBlockAsInFlight(f, p, {b}, FALSE) ELSE f)
              /\ requests' = [requests EXCEPT ![p] =
                                @ \o (IF new THEN HeadersFirst(b, direct) ELSE <<>>)]
        /\ UNCHANGED <<conn, nPreferred, nSync, chainVars, locked>>
  BY <1>2, Zenon
<1>4. \/ \E d \in BOOLEAN : /\ d => tip \in Fresh
                            /\ requests' = [requests EXCEPT ![p] = @ \o HeadersFirst(b, d)]
      \/ requests' = [requests EXCEPT ![p] = @ \o <<>>]
  BY <1>3
<1>5. UNCHANGED <<index, data, failed, tip, bestHeader, source>>
  BY <1>3 DEF chainVars
<1>6. b \in Blocks /\ (p \notin Slow => b \in Chain[Offers[p]])
  BY BlockDownloadAssumption
<1>7. CausesInv'
  BY <1>5 DEF HInv, CausesInv
<1>8. PICK I : I = index /\ I = index'
  BY <1>5
<1>9. BestKnown(node', I) /\ Unbanned(node')
  BY <1>1, <1>8, StillKnown DEF HInv
<1>10. requests \in [Peers -> Seq(RequestType)]
  BY DEF HInv, IInv, ChainInv
<1>11. ASSUME NEW d \in BOOLEAN, d => tip \in Fresh
       PROVE  HeadersFirst(b, d) \in Seq(RequestType) /\ (Honest(p) => Ordered(p, HeadersFirst(b, d), I))
  <2>1. PICK h \in RequestType, g \in RequestType : h = GetHeaders(bestHeader, b) /\ g = GetData(b)
    BY <1>6, IndexFacts, RequestsTyped
  <2>2. /\ h.ask = "headers" /\ h.block = bestHeader /\ h.stop = b
        /\ g.ask = "data" /\ g.block = b
    BY <2>1 DEF GetHeaders, GetData
  <2>3. PICK u \in Seq(RequestType), v \in Seq(RequestType), w \in Seq(RequestType) :
           u = <<h>> /\ v = <<g>> /\ w = <<>>
    <3>1. <<h>> \in Seq(RequestType) /\ <<g>> \in Seq(RequestType) /\ <<>> \in Seq(RequestType)
      OBVIOUS
    <3> QED BY <3>1
  <2>4. PICK x, y : x = u \o w /\ y = u \o v
    OBVIOUS
  <2>9. HeadersFirst(b, d) = IF d THEN y ELSE x
    BY <2>1, <2>3, <2>4, Zenon DEF HeadersFirst
  <2>5. /\ x \in Seq(RequestType) /\ Len(x) = 1 /\ x[1] = h
        /\ y \in Seq(RequestType) /\ Len(y) = 2 /\ y[1] = h /\ y[2] = g
    <3>1. Len(u) = 1 /\ u[1] = h /\ Len(v) = 1 /\ v[1] = g /\ Len(w) = 0
      BY <2>3
    <3>2. x \in Seq(RequestType) /\ Len(x) = Len(u) + Len(w) /\ x[1] = u[1]
      <4>1. /\ x \in Seq(RequestType) /\ Len(x) = Len(u) + Len(w)
            /\ \A i \in 1..Len(u) : x[i] = u[i]
        BY <2>4, Joined
      <4> QED BY <3>1, <4>1
    <3>3. y \in Seq(RequestType) /\ Len(y) = Len(u) + Len(v) /\ y[1] = u[1] /\ y[2] = v[1]
      <4>1. /\ y \in Seq(RequestType) /\ Len(y) = Len(u) + Len(v)
            /\ \A i \in 1..Len(u) : y[i] = u[i]
            /\ \A i \in 1..Len(v) : y[Len(u) + i] = v[i]
        BY <2>4, Joined
      <4>2. y[1] = u[1]
        BY <3>1, <4>1
      <4>3. y[1 + 1] = v[1]
        BY <3>1, <4>1
      <4> QED BY <4>1, <4>2, <4>3
    <3> QED BY <3>1, <3>2, <3>3
  <2>6. bestHeader \in I
    BY <1>8, IndexFacts
  <2>7. Ordered(p, x, I)
    BY <2>2, <2>5, <2>6 DEF Ordered, Fits
  <2>8. ASSUME Honest(p), d PROVE Ordered(p, y, I)
    <3>1. Near(p, bestHeader)
      <4>1. tip \in Fresh \cap Blocks /\ Work[bestHeader] >= Work[tip] /\ bestHeader \in Blocks
        <5>1. Work[bestHeader] \in Nat /\ Work[tip] \in Nat
          BY IndexFacts, BlockDownloadAssumption
        <5> QED BY <1>11, <2>8, <5>1, IndexFacts
      <4> QED BY <2>8, <4>1 DEF NearTip, Honest
    <3>2. Brings(p, y[1], b)
      BY <2>2, <2>5, <3>1 DEF Brings
    <3>3. b \in Chain[Offers[p]]
      BY <1>6, <2>8 DEF Honest
    <3>4. Fits(p, y, 1, I)
      BY <2>2, <2>5, <2>6 DEF Fits
    <3>5. Fits(p, y, 2, I)
      BY <2>2, <2>5, <3>2, <3>3 DEF Fits
    <3>6. 1..Len(y) = {1, 2}
      BY <2>5
    <3> QED BY <3>4, <3>5, <3>6 DEF Ordered
  <2> QED BY <2>5, <2>7, <2>8, <2>9
<1>12. Expected(requests', I)
  <2>0. Expected(requests, I) /\ requests \in [Peers -> Seq(RequestType)] /\ p \in Peers
    BY <1>8, <1>10 DEF HInv
  <2>1. CASE requests' = [requests EXCEPT ![p] = @ \o <<>>]
    <3>1. <<>> \in Seq(RequestType) /\ Ordered(p, <<>>, I)
      BY DEF Ordered
    <3>2. requests' = Plus(requests, p, <<>>)
      BY <2>1 DEF Plus
    <3> QED BY <2>0, <3>1, <3>2, MoreExpected
  <2>2. ASSUME NEW d \in BOOLEAN, d => tip \in Fresh,
               requests' = [requests EXCEPT ![p] = @ \o HeadersFirst(b, d)]
        PROVE  Expected(requests', I)
    <3>1. PICK x : x = HeadersFirst(b, d)
      OBVIOUS
    <3>2. x \in Seq(RequestType) /\ (Honest(p) => Ordered(p, x, I))
      BY <1>11, <2>2, <3>1
    <3>3. requests' = [requests EXCEPT ![p] = @ \o x]
      BY <2>2, <3>1
    <3>4. requests' = Plus(requests, p, x)
      BY <3>3 DEF Plus
    <3> QED BY <2>0, <3>2, <3>4, MoreExpected
  <2> QED BY <1>4, <2>1, <2>2
<1> QED BY <1>1, <1>7, <1>8, <1>9, <1>12 DEF HInv
-----------------------------------------------------------------------------
(* Misbehaving is about one peer and its flag.                               *)
LEMMA MisbehavingBest ==
  ASSUME NEW N \in [Peers -> CNodeStateType], NEW p \in Peers, NEW dos,
         NEW M \in Misbehaving(N, p, dos), NEW q \in Peers
  PROVE  M[q].best = N[q].best /\ (q # p => M[q].shouldBan = N[q].shouldBan)
<1>1. M = N \/ M = [N EXCEPT ![p].shouldBan = TRUE]
  BY DEF Misbehaving
<1>2. CASE M = [N EXCEPT ![p].shouldBan = TRUE]
  <2>1. PICK s : s = N[p] /\ s \in CNodeStateType
    OBVIOUS
  <2>2. PICK t : t = [s EXCEPT !.shouldBan = TRUE]
    OBVIOUS
  <2>3. t.best = s.best
    BY <2>1, <2>2 DEF CNodeStateType
  <2>4. M = [N EXCEPT ![p] = t]
    BY <1>2, <2>1, <2>2
  <2>5. M[p] = t /\ (q # p => M[q] = N[q])
    BY <2>4
  <2> QED BY <2>1, <2>3, <2>5
<1> QED BY <1>1, <1>2

(* What a block that failed makes of the peers: only who serves a bad block is *)
(* held responsible.                                                        *)
LEMMA ActivateHonest ==
  ASSUME NEW D, NEW N \in [Peers -> CNodeStateType], ActivateBestChain(D, N),
         Caused(failed), Traced(source'), failed \subseteq Blocks
  PROVE  /\ Caused(failed')
         /\ \A q \in Peers : /\ node'[q].best = N[q].best
                             /\ Honest(q) => node'[q].shouldBan = N[q].shouldBan
<1> DEFINE Unfit(b) == Chain[b] \cap (BadSpend \cup failed) # {}
           fit == {b \in Linked(D) : ~Unfit(b)}
           most == {b \in fit : \A c \in fit : Work[c] <= Work[b]}
<1>1. PICK best \in (IF tip \in most THEN {tip} ELSE most) :
       \E tried \in SUBSET {b \in Linked(D) : Unfit(b) /\ Work[b] >= Work[best]} :
       LET marked == {b \in UNION {Chain[c] : c \in tried} : Unfit(b)}
           found == {b \in marked \ failed : Chain[b] \cap (BadSpend \cup failed) = {b}}
           guilty == {source'[b] : b \in found}
       IN /\ {b \in Linked(D) : Unfit(b) /\ Work[b] > Work[best]} \subseteq tried
          /\ tip' = best
          /\ failed' = failed \cup marked
          /\ node' = [p \in Peers |->
                        IF p \in guilty /\ conn[p] \notin {"away", "gone"}
                        THEN [N[p] EXCEPT !.shouldBan = TRUE] ELSE N[p]]
  BY Zenon DEF ActivateBestChain
<1>2. PICK tried \in SUBSET {b \in Linked(D) : Unfit(b) /\ Work[b] >= Work[best]} :
       LET marked == {b \in UNION {Chain[c] : c \in tried} : Unfit(b)}
           found == {b \in marked \ failed : Chain[b] \cap (BadSpend \cup failed) = {b}}
           guilty == {source'[b] : b \in found}
       IN /\ {b \in Linked(D) : Unfit(b) /\ Work[b] > Work[best]} \subseteq tried
          /\ tip' = best
          /\ failed' = failed \cup marked
          /\ node' = [p \in Peers |->
                        IF p \in guilty /\ conn[p] \notin {"away", "gone"}
                        THEN [N[p] EXCEPT !.shouldBan = TRUE] ELSE N[p]]
  BY <1>1, Zenon
<1> DEFINE marked == {b \in UNION {Chain[c] : c \in tried} : Unfit(b)}
           found == {b \in marked \ failed : Chain[b] \cap (BadSpend \cup failed) = {b}}
           guilty == {source'[b] : b \in found}
<1>3. /\ failed' = failed \cup marked
      /\ node' = [p \in Peers |->
                    IF p \in guilty /\ conn[p] \notin {"away", "gone"}
                    THEN [N[p] EXCEPT !.shouldBan = TRUE] ELSE N[p]]
  BY <1>2, Zenon
<1>4. tried \in SUBSET Blocks
  BY DEF Linked
<1>5. marked \in SUBSET Blocks /\ \A b \in marked : Unfit(b)
  BY <1>4, OwnChain
<1>6. \A b \in found : b \in marked /\ b \notin failed /\ b \in BadSpend
  OBVIOUS
<1>7. \A q \in guilty : \E b \in found : q = source'[b]
  OBVIOUS
<1> HIDE DEF marked, found, guilty
<1>8. ASSUME NEW b \in marked PROVE Chain[b] \cap Bad # {}
  <2>1. PICK x \in Chain[b] : x \in BadSpend \/ x \in failed
    BY <1>5
  <2>2. CASE x \in BadSpend
    BY <2>2 DEF Bad
  <2>3. CASE x \in failed
    <3>1. Chain[x] \cap Bad # {} /\ Chain[x] \subseteq Chain[b]
      BY <1>5, <2>3, ChainOfAncestor DEF Caused
    <3> QED BY <3>1
  <2> QED BY <2>1, <2>2, <2>3
<1>9. ASSUME NEW q \in Peers, Honest(q) PROVE q \notin guilty
  <2>1. SUFFICES ASSUME q \in guilty PROVE FALSE
    OBVIOUS
  <2>2. PICK b \in found : q = source'[b]
    BY <1>7, <2>1
  <2>3. b \in BadSpend /\ source'[b] # NoPeer
    BY <1>6, <2>2, BlockDownloadAssumption
  <2>4. b \in Chain[Offers[q]]
    BY <2>2, <2>3 DEF Traced
  <2> QED BY <1>9, <2>3, <2>4 DEF Honest, Bad
<1>10. ASSUME NEW q \in Peers
       PROVE  /\ node'[q].best = N[q].best
              /\ Honest(q) => node'[q].shouldBan = N[q].shouldBan
  <2>1. PICK s : s = N[q] /\ s \in CNodeStateType
    OBVIOUS
  <2>2. PICK t : t = [s EXCEPT !.shouldBan = TRUE]
    OBVIOUS
  <2>3. t.best = s.best
    BY <2>1, <2>2 DEF CNodeStateType
  <2>4. node'[q] = IF q \in guilty /\ conn[q] \notin {"away", "gone"} THEN t ELSE s
    BY <1>3, <2>1, <2>2
  <2> QED BY <1>9, <2>1, <2>3, <2>4
<1>11. Caused(failed')
  BY <1>3, <1>8 DEF Caused
<1> QED BY <1>10, <1>11
-----------------------------------------------------------------------------
(* AcceptBlockHeader takes the headers of S from the lowest: what it takes has *)
(* its parent there.                                                        *)
BelowIn(S, b) == {c \in S : Height[c] < Height[b]}
RefusedOf(S) == {b \in S : ~GoodHeader(b, index \cup BelowIn(S, b))}

LEMMA TakenHaveParents ==
  ASSUME Closed(index), NEW S \in SUBSET Blocks, NEW T \in SUBSET S, T \cap RefusedOf(S) = {},
         \A x \in T : BelowIn(S, x) \subseteq T
  PROVE  \A x \in T : x # Genesis => Parent[x] \in index \cup T
<1> SUFFICES ASSUME NEW x \in T, x # Genesis PROVE Parent[x] \in index \cup T
  OBVIOUS
<1>1. PICK B : B = BelowIn(S, x)
  OBVIOUS
<1>2. GoodHeader(x, index \cup B) /\ B \subseteq T
  BY <1>1 DEF RefusedOf
<1>3. x \notin B
  <2>1. Height[x] \in Nat
    BY BlockDownloadAssumption
  <2> QED BY <1>1, <2>1 DEF BelowIn
<1> QED BY <1>2, <1>3 DEF GoodHeader, Closed

LEMMA FirstRefused ==
  ASSUME NEW S \in SUBSET Blocks, RefusedOf(S) # {}, NEW first,
         first = CHOOSE b \in RefusedOf(S) : BelowIn(S, b) \cap RefusedOf(S) = {}
  PROVE  /\ first \in RefusedOf(S) /\ BelowIn(S, first) \cap RefusedOf(S) = {}
         /\ \A x \in BelowIn(S, first) : BelowIn(S, x) \subseteq BelowIn(S, first)
<1>1. PICK R \in SUBSET S : R = RefusedOf(S)
  BY DEF RefusedOf
<1>2. PICK b \in R : \A c \in R : Height[b] <= Height[c]
  BY <1>1, LowestBlock
<1>3. \A c \in S : c \in Blocks /\ Height[c] \in Nat
  BY BlockDownloadAssumption
<1>4. BelowIn(S, b) \cap R = {}
  BY <1>1, <1>2, <1>3 DEF BelowIn
<1>5. first \in R /\ BelowIn(S, first) \cap R = {}
  BY <1>1, <1>2, <1>4
<1>6. \A x \in BelowIn(S, first) : BelowIn(S, x) \subseteq BelowIn(S, first)
  BY <1>1, <1>3, <1>5 DEF BelowIn
<1> QED BY <1>1, <1>5, <1>6

(* What a "headers" message does.                                            *)
Taken(p, S, last, pending) ==
  /\ Closed(index') /\ MostWork(index', bestHeader') /\ index \subseteq index'
  /\ UNCHANGED <<data, failed, tip, source>>
  /\ \/ /\ S = {} /\ node' = node
        /\ requests' = [requests EXCEPT ![p] = pending]
     \/ /\ RefusedOf(S) # {}
        /\ \E dos : node' \in Misbehaving(node, p, dos)
        /\ requests' = [requests EXCEPT ![p] = pending]
     \/ /\ S # {} /\ S \subseteq index'
        /\ node' = Knowing(node, p, last, index')
        /\ requests' = [requests EXCEPT ![p] =
             IF Cardinality(S) = MaxHeaders THEN Append(pending, GetHeaders(last, NoBlock)) ELSE pending]
LEMMA HeadersTaken ==
  ASSUME ChainInv, Closed(index), MostWork(index, bestHeader),
         NEW o \in Blocks, NEW p, NEW S \in SUBSET Chain[o], NEW pending,
         NEW last, last = Highest(S), ReceiveHeaders(p, S, pending)
  PROVE  Taken(p, S, last, pending)
<1>1. UNCHANGED <<data, failed, tip, source>>
  BY DEF ReceiveHeaders
<1>2. S \in SUBSET Blocks
  BY OwnChain
<1>3. PICK first : first = CHOOSE b \in RefusedOf(S) : BelowIn(S, b) \cap RefusedOf(S) = {}
  OBVIOUS
<1>4. \/ /\ S = {}
         /\ requests' = [requests EXCEPT ![p] = pending]
         /\ UNCHANGED <<node, index, bestHeader>>
      \/ /\ RefusedOf(S) # {}
         /\ AddToBlockIndex(BelowIn(S, first) \ index)
         /\ node' \in Misbehaving(node, p, HeaderDoS(first, index \cup BelowIn(S, first)))
         /\ requests' = [requests EXCEPT ![p] = pending]
      \/ /\ S # {} /\ RefusedOf(S) = {}
         /\ AddToBlockIndex(S \ index)
         /\ node' = [node EXCEPT ![p] = UpdateBlockAvailability(@, last, index')]
         /\ requests' = [requests EXCEPT ![p] =
              IF Cardinality(S) = MaxHeaders THEN Append(pending, GetHeaders(last, NoBlock)) ELSE pending]
  BY <1>3, Zenon DEF ReceiveHeaders, BelowIn, RefusedOf
<1>5. CASE /\ S = {} /\ requests' = [requests EXCEPT ![p] = pending]
           /\ UNCHANGED <<node, index, bestHeader>>
  BY <1>1, <1>5 DEF Taken
<1>6. CASE /\ RefusedOf(S) # {}
           /\ AddToBlockIndex(BelowIn(S, first) \ index)
           /\ node' \in Misbehaving(node, p, HeaderDoS(first, index \cup BelowIn(S, first)))
           /\ requests' = [requests EXCEPT ![p] = pending]
  <2>1. PICK T \in SUBSET S : T = BelowIn(S, first)
    BY DEF BelowIn
  <2>2. T \cap RefusedOf(S) = {} /\ \A x \in T : BelowIn(S, x) \subseteq T
    BY <1>2, <1>3, <1>6, <2>1, FirstRefused
  <2>3. \A x \in T : x # Genesis => Parent[x] \in index \cup T
    BY <1>2, <2>2, TakenHaveParents
  <2>4. index' = index \cup T /\ Closed(index') /\ MostWork(index', bestHeader')
    <3>1. T \in SUBSET Chain[o] /\ AddToBlockIndex(T \ index)
      BY <1>6, <2>1
    <3> QED BY <2>3, <3>1, AddedKeeps
  <2> QED BY <1>1, <1>6, <2>4 DEF Taken
<1>7. CASE /\ S # {} /\ RefusedOf(S) = {}
           /\ AddToBlockIndex(S \ index)
           /\ node' = [node EXCEPT ![p] = UpdateBlockAvailability(@, last, index')]
           /\ requests' = [requests EXCEPT ![p] =
                IF Cardinality(S) = MaxHeaders THEN Append(pending, GetHeaders(last, NoBlock)) ELSE pending]
  <2>1. \A x \in S : BelowIn(S, x) \subseteq S
    BY DEF BelowIn
  <2>2. \A x \in S : x # Genesis => Parent[x] \in index \cup S
    BY <1>2, <1>7, <2>1, TakenHaveParents
  <2>3. index' = index \cup S /\ Closed(index') /\ MostWork(index', bestHeader')
    BY <1>7, <2>2, AddedKeeps
  <2>4. node' = Knowing(node, p, last, index')
    BY <1>7, Zenon DEF Knowing
  <2> QED BY <1>1, <1>7, <2>3, <2>4 DEF Taken
<1> QED BY <1>4, <1>5, <1>6, <1>7
LEMMA HonestFails ==
  ASSUME Caused(failed), NEW p, Honest(p), NEW b \in Chain[Offers[p]]
  PROVE  b \notin failed /\ b \notin Bad
<1>1. Offers[p] \in Blocks /\ b \in Blocks
  BY OwnChain, BlockDownloadAssumption DEF Honest
<1>2. Chain[b] \subseteq Chain[Offers[p]] /\ b \in Chain[b]
  BY <1>1, ChainOfAncestor, OwnChain
<1> QED BY <1>2 DEF Honest, Caused

(* The headers that an honest peer answers with are taken.                   *)
LEMMA HonestHeaders ==
  ASSUME HInv, NEW p \in Peers, Honest(p), NEW r \in RequestType, r.block \in index, NEW S,
         S = HeadersOf(p, r)
  PROVE  RefusedOf(S) = {}
<1>1. S \in SUBSET Chain[Offers[p]] /\ Offers[p] \in Blocks
  BY HeadersReach, BlockDownloadAssumption
<1>2. Caused(failed) /\ Closed(index) /\ Chain[r.block] \subseteq index
  BY IndexFacts DEF HInv, CausesInv
<1>3. ASSUME NEW x \in S PROVE GoodHeader(x, index \cup BelowIn(S, x))
  <2>1. x \in Blocks /\ x \notin failed /\ x \in Chain[Offers[p]]
    BY <1>1, <1>2, HonestFails, OwnChain
  <2>2. CASE x \in index \cup BelowIn(S, x)
    BY <2>1, <2>2 DEF GoodHeader
  <2>3. CASE x \notin index \cup BelowIn(S, x)
    <3>1. x \in Blocks \ {Genesis}
      BY <1>2, <2>1, <2>3 DEF Closed
    <3>2. Parent[x] \in Blocks /\ Height[x] = Height[Parent[x]] + 1 /\ Parent[x] \in Chain[x]
      BY <3>1, ParentOf, OwnChain
    <3>3. Parent[x] \in Chain[Offers[p]]
      BY <1>1, <2>1, <3>2, ChainOfAncestor
    <3>4. Parent[x] \notin failed
      BY <1>2, <3>3, HonestFails
    <3>5. Height[Parent[x]] < Height[x]
      <4>1. Height[Parent[x]] \in Nat
        BY <3>2, BlockDownloadAssumption
      <4> QED BY <3>2, <4>1
    <3>6. Parent[x] \in Chain[r.block] \/ Parent[x] \in S
      BY <3>1, HeadersReach
    <3>7. Parent[x] \in index \cup BelowIn(S, x)
      BY <1>2, <3>5, <3>6 DEF BelowIn
    <3> QED BY <2>3, <3>4, <3>7 DEF GoodHeader
  <2> QED BY <2>2, <2>3
<1> QED BY <1>3 DEF RefusedOf

(* The requests of one peer are replaced.                                    *)
LEMMA ReplacedExpected ==
  ASSUME NEW R \in [Peers -> Seq(RequestType)], NEW I, NEW J, I \subseteq J, Expected(R, I),
         NEW p \in Peers, NEW x, Honest(p) => Ordered(p, x, J), NEW T, T = [R EXCEPT ![p] = x]
  PROVE  Expected(T, J)
<1>1. T[p] = x /\ (\A q \in Peers \ {p} : T[q] = R[q])
  OBVIOUS
<1>2. ASSUME NEW q \in Peers, Honest(q) PROVE Ordered(q, T[q], J)
  <2>1. CASE q = p
    BY <1>1, <1>2, <2>1
  <2>2. CASE q # p
    <3>1. Ordered(q, R[q], I)
      BY <1>2 DEF Expected
    <3> QED BY <1>1, <2>2, <3>1, OrderedAbove
  <2> QED BY <2>1, <2>2
<1> QED BY <1>2 DEF Expected

LEMMA HeadersHonest ==
  ASSUME HInv, IInv', NEW p \in Peers, conn[p] = "up", requests[p] # <<>>, NEW r, r = Head(requests[p]),
         r.ask = "headers", NEW S, S = HeadersOf(p, r), ReceiveHeaders(p, S, Tail(requests[p]))
  PROVE  HInv'
<1>1. requests \in [Peers -> Seq(RequestType)] /\ node \in [Peers -> CNodeStateType]
  BY DEF HInv, IInv, ChainInv, FlightInv
<1>2. PICK q \in Seq(RequestType) : q = requests[p] /\ q # <<>>
  BY <1>1
<1>3. r \in RequestType /\ Tail(q) \in Seq(RequestType) /\ r = q[1] /\ 1 \in 1..Len(q)
  BY <1>2
<1>4. PICK pending \in Seq(RequestType) : pending = Tail(q)
  BY <1>3
<1>5. S \in SUBSET Chain[Offers[p]] /\ Offers[p] \in Blocks
  BY <1>3, HeadersReach, BlockDownloadAssumption
<1>6. PICK last : last = Highest(S)
  OBVIOUS
<1>7. S # {} => last \in S
  BY <1>5, <1>6, HighestHasMostWork
<1>8. ReceiveHeaders(p, S, pending)
  BY <1>2, <1>4
<1>9. /\ Closed(index') /\ MostWork(index', bestHeader') /\ index \subseteq index'
      /\ UNCHANGED <<data, failed, tip, source>>
      /\ \/ /\ S = {} /\ node' = node
            /\ requests' = [requests EXCEPT ![p] = pending]
         \/ /\ RefusedOf(S) # {}
            /\ \E dos : node' \in Misbehaving(node, p, dos)
            /\ requests' = [requests EXCEPT ![p] = pending]
         \/ /\ S # {} /\ S \subseteq index'
            /\ node' = Knowing(node, p, last, index')
            /\ requests' = [requests EXCEPT ![p] =
                 IF Cardinality(S) = MaxHeaders THEN Append(pending, GetHeaders(last, NoBlock)) ELSE pending]
  <2>1. ChainInv /\ Closed(index) /\ MostWork(index, bestHeader)
    BY DEF HInv, IInv, CausesInv
  <2>2. PICK o \in Blocks : o = Offers[p] /\ S \in SUBSET Chain[o]
    BY <1>5
  <2>3. Taken(p, S, last, pending)
    BY <1>6, <1>8, <2>1, <2>2, HeadersTaken
  <2> QED BY <2>3 DEF Taken
<1>10. CausesInv'
  BY <1>9 DEF HInv, CausesInv
<1>11. ASSUME Honest(p)
       PROVE  /\ Ordered(p, q, index) /\ r.block \in index /\ RefusedOf(S) = {}
  <2>1. Ordered(p, q, index)
    BY <1>2, <1>11 DEF HInv, Expected
  <2>2. r.block \in index
    BY <1>3, <2>1 DEF Ordered, Fits
  <2> QED BY <1>3, <1>11, <2>1, <2>2, HonestHeaders
<1>12. ASSUME Honest(p), S \subseteq index' PROVE Ordered(p, pending, index')
  <2>1. ASSUME NEW b \in Chain[Offers[p]], Brings(p, r, b) PROVE b \in index'
    <3>1. b \in Chain[r.block] \/ b \in S
      BY <1>3, <2>1, HeadersReach DEF Brings
    <3>2. Chain[r.block] \subseteq index
      BY <1>11, <1>12, IndexFacts
    <3> QED BY <1>9, <1>12, <3>1, <3>2
  <2> QED BY <1>2, <1>4, <1>9, <1>11, <1>12, <2>1, AnsweredOrdered
<1>13. BestKnown(node', index') /\ Unbanned(node')
  <2>1. CASE node' = node
    BY <1>9, <2>1 DEF HInv, BestKnown
  <2>2. ASSUME NEW dos, node' \in Misbehaving(node, p, dos), ~Honest(p)
        PROVE  BestKnown(node', index') /\ Unbanned(node')
    <3>1. \A x \in Peers : node'[x].best = node[x].best /\ (x # p => node'[x].shouldBan = node[x].shouldBan)
      BY <1>1, <2>2, MisbehavingBest
    <3> QED BY <1>9, <2>2, <3>1 DEF HInv, BestKnown, Unbanned
  <2>3. CASE S # {} /\ S \subseteq index' /\ node' = Knowing(node, p, last, index')
    <3>1. index' \in SUBSET Blocks /\ last \in Blocks
      BY <1>5, <1>7, <2>3, OwnChain DEF IInv, ChainInv
    <3>2. \A x \in Peers : node'[x].best = node[x].best \/ node'[x].best \in index'
      BY <1>1, <2>3, <3>1, KnowingBest
    <3>3. \A x \in Peers : node'[x].shouldBan = node[x].shouldBan
      <4>1. PICK M, J : M = node' /\ J = index'
        OBVIOUS
      <4>2. M = Knowing(node, p, last, J) /\ J \in SUBSET Blocks
        BY <2>3, <3>1, <4>1
      <4>3. Heard(node, M, p, {last})
        BY <1>1, <3>1, <4>2, UpdatedPeer
      <4> QED BY <4>1, <4>3 DEF Heard
    <3> QED BY <1>9, <3>2, <3>3 DEF HInv, BestKnown, Unbanned
  <2> QED BY <1>9, <1>11, <2>1, <2>2, <2>3
<1>14. Expected(requests', index')
  <2>1. Expected(requests, index) /\ index \subseteq index'
    BY <1>9 DEF HInv
  <2>2. CASE requests' = [requests EXCEPT ![p] = pending] /\ (Honest(p) => S \subseteq index')
    BY <1>1, <1>12, <2>1, <2>2, ReplacedExpected
  <2>3. ASSUME S # {}, S \subseteq index',
               requests' = [requests EXCEPT ![p] = Append(pending, GetHeaders(last, NoBlock))]
        PROVE  Expected(requests', index')
    <3>1. last \in Blocks /\ last \in index'
      BY <1>5, <1>7, <2>3, OwnChain
    <3>2. PICK h \in RequestType : h = GetHeaders(last, NoBlock)
      BY <3>1, RequestsTyped
    <3>3. <<h>> \in Seq(RequestType) /\ Len(<<h>>) = 1 /\ <<h>>[1] = h
      OBVIOUS
    <3>4. h.ask = "headers" /\ h.block = last
      BY <3>2 DEF GetHeaders
    <3>5. Ordered(p, <<h>>, index')
      BY <3>1, <3>3, <3>4 DEF Ordered, Fits
    <3>6. Append(pending, h) = pending \o <<h>>
      BY <3>2
    <3>7. PICK x : x = pending \o <<h>>
      OBVIOUS
    <3>8. Honest(p) => Ordered(p, x, index')
      BY <1>12, <2>3, <3>3, <3>5, <3>7, OrderedTogether
    <3>9. requests' = [requests EXCEPT ![p] = x]
      BY <2>3, <3>2, <3>6, <3>7
    <3> QED BY <1>1, <2>1, <3>8, <3>9, ReplacedExpected
  <2> QED BY <1>9, <1>11, <2>2, <2>3
<1> QED BY <1>10, <1>13, <1>14 DEF HInv
-----------------------------------------------------------------------------
(* What a peer is punished for, and what is known of its chain, when a message *)
(* comes of which an honest peer would not be the sender.                    *)
Spared(N, M) == \A q \in Peers :
  /\ M[q].best = N[q].best
  /\ Honest(q) => M[q].shouldBan = N[q].shouldBan

LEMMA MisbehavingSpares ==
  ASSUME NEW N \in [Peers -> CNodeStateType], NEW p \in Peers, ~Honest(p), NEW dos,
         NEW M \in Misbehaving(N, p, dos)
  PROVE  Spared(N, M)
<1>1. \A q \in Peers : M[q].best = N[q].best /\ (q # p => M[q].shouldBan = N[q].shouldBan)
  BY MisbehavingBest
<1> QED BY <1>1 DEF Spared

(* A "block" message: an honest peer sends what is asked for, whose header is   *)
(* known.                                                                   *)
LEMMA BlockHonest ==
  ASSUME HInv, IInv', NEW p \in Peers, NEW b \in Blocks, b \in Chain[Offers[p]],
         NEW checked, NEW pending \in Seq(RequestType), ReceiveBlock(p, b, checked, pending),
         Honest(p) => checked /\ b \in index /\ Ordered(p, pending, index)
  PROVE  HInv'
<1>1. /\ FlightInv(node, inFlight, nQueued) /\ ChainInv
      /\ requests \in [Peers -> Seq(RequestType)] /\ node \in [Peers -> CNodeStateType]
  BY DEF HInv, IInv, FlightInv, ChainInv
<1>2. PICK r : r = MarkBlockAsReceived([node |-> node, map |-> inFlight, queued |-> nQueued], {b})
  OBVIOUS
<1>3. r.node \in [Peers -> CNodeStateType] /\ \A q \in Peers : KeepsRest(node[q], r.node[q])
  <2>1. FlightInv(r.node, r.map, r.queued) /\ \A q \in Peers : KeepsRest(node[q], r.node[q])
    BY <1>1, <1>2, ReceivedFlight
  <2> QED BY <2>1 DEF FlightInv
<1>4. requests' = [requests EXCEPT ![p] = pending]
  BY Zenon DEF ReceiveBlock
<1>5. \/ /\ ~checked
         /\ node' \in Misbehaving(r.node, p, 100)
         /\ UNCHANGED chainVars
      \/ /\ checked /\ ~GoodHeader(b, index)
         /\ node' \in Misbehaving(r.node, p, HeaderDoS(b, index))
         /\ source' = IF b \in index THEN SourceOf(b, p) ELSE source
         /\ UNCHANGED <<index, data, failed, tip, bestHeader>>
      \/ /\ GoodHeader(b, index)
         /\ AddToBlockIndex({b} \ index)
         /\ source' = SourceOf(b, p)
         /\ \/ node' = r.node /\ UNCHANGED <<data, failed, tip>>
            \/ /\ b \in BadBlock
               /\ failed' = failed \cup {b}
               /\ node' \in Misbehaving(r.node, p, 10)
               /\ UNCHANGED <<data, tip>>
            \/ data' = data \cup {b} /\ ActivateBestChain(data', r.node)
  BY <1>2, Zenon DEF ReceiveBlock, Flight
<1>6. /\ Closed(index) /\ MostWork(index, bestHeader) /\ Caused(failed) /\ Traced(source)
      /\ BestKnown(node, index) /\ Unbanned(node) /\ Expected(requests, index)
      /\ failed \subseteq Blocks
  BY <1>1 DEF HInv, CausesInv, ChainInv
<1>7. ASSUME Honest(p) PROVE GoodHeader(b, index) /\ b \notin BadBlock
  BY <1>6, <1>7, HonestFails DEF GoodHeader, Bad
<1>8. Traced(SourceOf(b, p))
  <2>1. ASSUME NEW c \in BadSpend, SourceOf(b, p)[c] # NoPeer
        PROVE  c \in Chain[Offers[SourceOf(b, p)[c]]]
    <3>1. SourceOf(b, p)[c] = IF c = b THEN p ELSE source[c]
      BY DEF SourceOf
    <3> QED BY <1>6, <2>1, <3>1 DEF Traced
  <2> QED BY <2>1 DEF Traced
<1>9. CausesInv' /\ index \subseteq index' /\ Spared(r.node, node')
  <2>1. CASE /\ ~checked /\ node' \in Misbehaving(r.node, p, 100) /\ UNCHANGED chainVars
    <3>1. Spared(r.node, node')
      BY <1>3, <2>1, MisbehavingSpares
    <3> QED BY <1>6, <2>1, <3>1 DEF CausesInv, chainVars
  <2>2. CASE /\ checked /\ ~GoodHeader(b, index)
             /\ node' \in Misbehaving(r.node, p, HeaderDoS(b, index))
             /\ source' = IF b \in index THEN SourceOf(b, p) ELSE source
             /\ UNCHANGED <<index, data, failed, tip, bestHeader>>
    <3>1. Spared(r.node, node')
      BY <1>3, <1>7, <2>2, MisbehavingSpares
    <3>2. Traced(source')
      BY <1>6, <1>8, <2>2
    <3> QED BY <1>6, <2>2, <3>1, <3>2 DEF CausesInv
  <2>3. ASSUME GoodHeader(b, index), AddToBlockIndex({b} \ index), source' = SourceOf(b, p)
        PROVE  index \subseteq index' /\ Closed(index') /\ MostWork(index', bestHeader') /\ Traced(source')
    <3>1. PICK S \in SUBSET Chain[b] : S = {b}
      BY OwnChain
    <3>2. \A x \in S : x # Genesis => Parent[x] \in index \cup S
      BY <1>6, <2>3, <3>1 DEF GoodHeader, Closed
    <3>3. index' = index \cup S /\ Closed(index') /\ MostWork(index', bestHeader')
      BY <1>1, <1>6, <2>3, <3>1, <3>2, AddedKeeps
    <3> QED BY <1>8, <2>3, <3>3
  <2>4. CASE /\ GoodHeader(b, index) /\ AddToBlockIndex({b} \ index) /\ source' = SourceOf(b, p)
             /\ node' = r.node /\ UNCHANGED <<data, failed, tip>>
    <3>1. Spared(r.node, node')
      BY <2>4 DEF Spared
    <3> QED BY <1>6, <2>3, <2>4, <3>1 DEF CausesInv
  <2>5. CASE /\ GoodHeader(b, index) /\ AddToBlockIndex({b} \ index) /\ source' = SourceOf(b, p)
             /\ b \in BadBlock /\ failed' = failed \cup {b}
             /\ node' \in Misbehaving(r.node, p, 10) /\ UNCHANGED <<data, tip>>
    <3>1. Spared(r.node, node')
      BY <1>3, <1>7, <2>5, MisbehavingSpares
    <3>2. Caused(failed')
      BY <1>6, <2>5, OwnChain DEF Caused, Bad
    <3> QED BY <2>3, <2>5, <3>1, <3>2 DEF CausesInv
  <2>6. CASE /\ GoodHeader(b, index) /\ AddToBlockIndex({b} \ index) /\ source' = SourceOf(b, p)
             /\ data' = data \cup {b} /\ ActivateBestChain(data', r.node)
    <3>1. PICK D : D = data'
      OBVIOUS
    <3>2. ActivateBestChain(D, r.node)
      BY <2>6, <3>1
    <3>3. index \subseteq index' /\ Closed(index') /\ MostWork(index', bestHeader') /\ Traced(source')
      BY <2>3, <2>6
    <3>4. /\ Caused(failed')
          /\ \A q \in Peers : /\ node'[q].best = r.node[q].best
                              /\ Honest(q) => node'[q].shouldBan = r.node[q].shouldBan
      BY <1>3, <1>6, <3>2, <3>3, ActivateHonest
    <3> QED BY <3>3, <3>4 DEF CausesInv, Spared
  <2> QED BY <1>5, <2>1, <2>2, <2>4, <2>5, <2>6
<1>10. BestKnown(node', index') /\ Unbanned(node')
  BY <1>3, <1>6, <1>9 DEF Spared, KeepsRest, BestKnown, Unbanned
<1>11. Expected(requests', index')
  <2>1. Honest(p) => Ordered(p, pending, index')
    BY <1>9, OrderedAbove
  <2> QED BY <1>1, <1>4, <1>6, <1>9, <2>1, ReplacedExpected
<1> QED BY <1>9, <1>10, <1>11 DEF HInv
LEMMA AnswerHonest ==
  ASSUME HInv, IInv', Answer
  PROVE  HInv'
<1>1. PICK p \in Peers : AnswerOf(p)
  BY DEF Answer
<1>2. PICK r : r = Head(requests[p])
  OBVIOUS
<1>3. /\ conn[p] = "up" /\ requests[p] # <<>>
      /\ \/ r.ask = "headers" /\ ReceiveHeaders(p, HeadersOf(p, r), Tail(requests[p]))
         \/ /\ r.ask = "data" /\ r.block \in Chain[Offers[p]]
            /\ \E checked \in BOOLEAN : /\ checked \/ p \in Slow
                                        /\ ReceiveBlock(p, r.block, checked, Tail(requests[p]))
  BY <1>1, <1>2, Zenon DEF AnswerOf
<1>4. CASE r.ask = "headers" /\ ReceiveHeaders(p, HeadersOf(p, r), Tail(requests[p]))
  <2>1. PICK S : S = HeadersOf(p, r)
    OBVIOUS
  <2> QED BY <1>2, <1>3, <1>4, <2>1, HeadersHonest
<1>5. ASSUME r.ask = "data", r.block \in Chain[Offers[p]], NEW checked, checked \/ p \in Slow,
             ReceiveBlock(p, r.block, checked, Tail(requests[p]))
      PROVE  HInv'
  <2>1. PICK q \in Seq(RequestType) : q = requests[p] /\ q # <<>>
    BY <1>3 DEF HInv, IInv, ChainInv
  <2>2. Tail(q) \in Seq(RequestType) /\ r = q[1] /\ 1 \in 1..Len(q)
    BY <1>2, <2>1
  <2>3. PICK pending \in Seq(RequestType) : pending = Tail(q)
    BY <2>2
  <2>4. PICK b \in Blocks : b = r.block
    BY <1>5, OwnChain, BlockDownloadAssumption
  <2>5. ASSUME Honest(p) PROVE checked /\ b \in index /\ Ordered(p, pending, index)
    <3>1. Ordered(p, q, index)
      BY <2>1, <2>5 DEF HInv, Expected
    <3>2. b \in index
      BY <1>5, <2>2, <2>4, <3>1 DEF Ordered, Fits
    <3>3. \A c \in Chain[Offers[p]] : Brings(p, r, c) => c \in index
      BY <1>5 DEF Brings
    <3>4. Ordered(p, pending, index)
      BY <1>2, <2>1, <2>3, <3>1, <3>3, AnsweredOrdered
    <3> QED BY <1>5, <2>5, <3>2, <3>4 DEF Honest
  <2>6. ReceiveBlock(p, b, checked, pending) /\ b \in Chain[Offers[p]]
    BY <1>5, <2>1, <2>3, <2>4
  <2> QED BY <2>5, <2>6, BlockHonest
<1> QED BY <1>3, <1>4, <1>5

LEMMA UnrequestedHonest ==
  ASSUME HInv, IInv', Unrequested
  PROVE  HInv'
<1>1. PICK p \in Slow : \E b \in Chain[Offers[p]] : ReceiveBlock(p, b, TRUE, requests[p])
  BY DEF Unrequested
<1>2. PICK b \in Chain[Offers[p]] : ReceiveBlock(p, b, TRUE, requests[p])
  BY <1>1
<1>3. p \in Peers /\ b \in Blocks /\ ~Honest(p)
  BY OwnChain, BlockDownloadAssumption DEF Honest
<1>4. PICK pending \in Seq(RequestType) : pending = requests[p]
  BY <1>3 DEF HInv, IInv, ChainInv
<1> QED BY <1>2, <1>3, <1>4, BlockHonest

(* Steps that are about neither the chain nor the flags: requests are dropped, *)
(* and a CNodeState is made anew.                                           *)
LEMMA OthersHonest ==
  ASSUME HInv, IInv', UNCHANGED <<index, data, failed, tip, bestHeader, source>>,
         \A q \in Peers : /\ node'[q].best \in {node[q].best, NoBlock}
                          /\ node'[q].shouldBan => node[q].shouldBan
                          /\ requests'[q] = requests[q] \/ requests'[q] = <<>> \/ ~Honest(q)
  PROVE  HInv'
<1>1. CausesInv'
  BY DEF HInv, CausesInv
<1>2. BestKnown(node', index') /\ Unbanned(node')
  BY DEF HInv, BestKnown, Unbanned
<1>3. \A q : Ordered(q, <<>>, index)
  BY DEF Ordered
<1>4. Expected(requests', index')
  BY <1>3 DEF HInv, Expected
<1> QED BY <1>1, <1>2, <1>4 DEF HInv

LEMMA InitHonest == Init => HInv
<1> SUFFICES ASSUME Init PROVE HInv
  OBVIOUS
<1>1. /\ node = [p \in Peers |-> CNodeState] /\ requests = [p \in Peers |-> <<>>]
      /\ index = {Genesis} /\ failed = {} /\ bestHeader = Genesis
      /\ source = [b \in BadSpend |-> NoPeer]
  BY DEF Init
<1>2. \A p \in Peers : node[p].best = NoBlock /\ ~node[p].shouldBan /\ requests[p] = <<>>
  BY <1>1 DEF CNodeState
<1>3. CausesInv
  <2>1. Work[Genesis] \in Nat
    BY BlockDownloadAssumption
  <2>2. MostWork(index, bestHeader)
    BY <1>1, <2>1 DEF MostWork
  <2> QED BY <1>1, <2>2 DEF CausesInv, Closed, Caused, Traced
<1>4. BestKnown(node, index) /\ Unbanned(node)
  BY <1>2 DEF BestKnown, Unbanned
<1>5. Expected(requests, index)
  <2>1. \A p : Ordered(p, <<>>, index)
    BY DEF Ordered
  <2> QED BY <1>2, <2>1 DEF Expected
<1> QED BY <1>3, <1>4, <1>5, InitInv DEF HInv

LEMMA NextHonest == NearTip /\ HInv /\ [Next]_vars => HInv'
<1> SUFFICES ASSUME NearTip, HInv, [Next]_vars PROVE HInv'
  OBVIOUS
<1>1. IInv'
  BY NextInv DEF HInv
<1>2. node \in [Peers -> CNodeStateType] /\ requests \in [Peers -> Seq(RequestType)]
  BY DEF HInv, IInv, FlightInv, ChainInv
<1>3. CASE SendMessages
  <2>1. PICK p \in Peers : \E late, closed \in BOOLEAN : SendMessagesTo(p, late, closed)
    BY <1>3 DEF SendMessages
  <2>2. \E start, found, f : Sent(p, start, found, f)
    BY <2>1, Sending DEF HInv
  <2> QED BY <2>2, SentHonest
<1>4. CASE ReceiveInv
  BY <1>4, InvHonest
<1>5. CASE Answer
  BY <1>1, <1>5, AnswerHonest
<1>6. CASE Unrequested
  BY <1>1, <1>6, UnrequestedHonest
<1>7. CASE NoAnswer
  <2>1. PICK p \in Slow :
          /\ requests' = [requests EXCEPT ![p] = Tail(@)]
          /\ UNCHANGED <<conn, node, inFlight, nQueued, nPreferred, nSync, chainVars, locked>>
    BY <1>7 DEF NoAnswer
  <2>2. node' = node /\ UNCHANGED <<index, data, failed, tip, bestHeader, source>>
    BY <2>1 DEF chainVars
  <2>3. \A q \in Peers : requests'[q] = requests[q] \/ ~Honest(q)
    BY <1>2, <2>1 DEF Honest
  <2> QED BY <1>1, <2>2, <2>3, OthersHonest
<1>8. CASE Connect
  <2>1. PICK p \in Peers :
          /\ UpdatePreferredDownload(p)
          /\ UNCHANGED <<inFlight, nQueued, nSync, chainVars, locked, requests>>
    BY <1>8 DEF Connect
  <2>2. \E x : node' = [node EXCEPT ![p] = [CNodeState EXCEPT !.preferred = x]]
    BY <2>1, Zenon DEF UpdatePreferredDownload
  <2>3. PICK x, t : t = [CNodeState EXCEPT !.preferred = x] /\ node' = [node EXCEPT ![p] = t]
    BY <2>2
  <2>4. t.best = NoBlock /\ t.shouldBan = FALSE
    BY <2>3 DEF CNodeState
  <2>5. requests' = requests /\ UNCHANGED <<index, data, failed, tip, bestHeader, source>>
    BY <2>1 DEF chainVars
  <2>6. \A q \in Peers : /\ node'[q].best \in {node[q].best, NoBlock}
                         /\ node'[q].shouldBan => node[q].shouldBan
    BY <1>2, <2>3, <2>4
  <2> QED BY <1>1, <2>5, <2>6, OthersHonest
<1>9. CASE CloseSocketDisconnect
  <2>1. node' = node /\ requests' = requests /\ UNCHANGED <<index, data, failed, tip, bestHeader, source>>
    BY <1>9 DEF CloseSocketDisconnect, chainVars
  <2> QED BY <1>1, <2>1, OthersHonest
<1>10. CASE FinalizeNode
  <2>1. PICK p \in Peers : FinalizeNodeOf(p)
    BY <1>10 DEF FinalizeNode
  <2>2. /\ node' = [node EXCEPT ![p] = CNodeState] /\ requests' = [requests EXCEPT ![p] = <<>>]
        /\ UNCHANGED <<index, data, failed, tip, bestHeader, source>>
    BY <2>1, Zenon DEF FinalizeNodeOf, chainVars
  <2>3. PICK t : t = CNodeState
    OBVIOUS
  <2>4. t.best = NoBlock /\ t.shouldBan = FALSE
    BY <2>3 DEF CNodeState
  <2>5. \A q \in Peers : /\ node'[q].best \in {node[q].best, NoBlock}
                         /\ node'[q].shouldBan => node[q].shouldBan
    BY <1>2, <2>2, <2>3, <2>4
  <2>6. \A q \in Peers : requests'[q] = requests[q] \/ requests'[q] = <<>>
    BY <1>2, <2>2
  <2> QED BY <1>1, <2>2, <2>5, <2>6, OthersHonest
<1>11. CASE UNCHANGED vars
  <2>1. node' = node /\ requests' = requests /\ UNCHANGED <<index, data, failed, tip, bestHeader, source>>
    BY <1>11 DEF vars, chainVars
  <2> QED BY <1>1, <2>1, OthersHonest
<1> QED BY <1>3, <1>4, <1>5, <1>6, <1>7, <1>8, <1>9, <1>10, <1>11 DEF Next

(* ProcessMessage and SendMessages never set fShouldBan of a peer that answers *)
(* every request with the blocks of one chain that is valid: an "inv" makes    *)
(* "getheaders" go before "getdata", FindNextBlocksToDownload asks only for    *)
(* blocks whose headers are here, and ConnectBlock's failures are held against *)
(* whoever sent the bad block.  It rests on one message of headers reaching    *)
(* the end of the peer's chain while the tip is recent.                       *)
THEOREM HonestUnpunishedAlways == ASSUME NearTip PROVE Spec => []HonestUnpunished
<1>1. HInv => HonestUnpunished
  BY DEF HInv, Unbanned, Honest, Bad, HonestUnpunished
<1>2. HInv /\ [Next]_vars => HInv'
  BY NextHonest
<1> QED BY InitHonest, <1>1, <1>2, PTL DEF Spec
=============================================================================
