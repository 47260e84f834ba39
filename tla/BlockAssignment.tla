--------------------------- MODULE BlockAssignment ---------------------------
(***************************************************************************)
(* What mapBlocksInFlight promises to the rest of the node: a block is asked *)
(* of at most one peer at a time, of a peer no more than so many, and it     *)
(* stays with that peer until it comes or the peer goes.                     *)
(***************************************************************************)
EXTENDS Integers, FiniteSets

CONSTANTS Blocks, Peers, NoPeer, MaxInTransit

VARIABLE askedOf   \* the peer that each block is asked of

AskedOf(p) == {b \in Blocks : askedOf[b] = p}
Assigned(S, p) == [b \in Blocks |-> IF b \in S THEN p ELSE askedOf[b]]

Init == askedOf = [b \in Blocks |-> NoPeer]

Ask(p) == \E S \in SUBSET AskedOf(NoPeer) :
  /\ Cardinality(AskedOf(p)) + Cardinality(S) <= MaxInTransit
  /\ askedOf' = Assigned(S, p)
Receive(b) == askedOf' = Assigned({b}, NoPeer)
Lose(p) == askedOf' = Assigned(AskedOf(p), NoPeer)

Next ==
  \/ \E p \in Peers : Lose(p) \/ Ask(p)
  \/ \E b \in Blocks : Receive(b)

Spec == Init /\ [][Next]_askedOf
=============================================================================
