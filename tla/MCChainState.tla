---------------------------- MODULE MCChainState ----------------------------
(***************************************************************************)
(* Block trees for TLC.  Every block has one unit of work.                  *)
(*                                                                          *)
(*    g -- a1 -- a2                                                         *)
(*    |      \-- c2                                                         *)
(*     \-- b1 -- b2 -- b3                                                   *)
(*                                                                          *)
(* Every instance takes a part of it that is closed under ancestors.        *)
(***************************************************************************)
EXTENDS ChainState, TLC

CONSTANTS g, a1, a2, b1, b2, b3, c2, null

MCTree == (g :> null) @@ (a1 :> g) @@ (a2 :> a1) @@ (c2 :> a1)
            @@ (b1 :> g) @@ (b2 :> b1) @@ (b3 :> b2)
MCParent == [b \in Blocks |-> MCTree[b]]
MCChain[b \in Blocks] == {b} \cup (IF b = g THEN {} ELSE MCChain[MCParent[b]])
MCHeight == [b \in Blocks |-> Cardinality(MCChain[b]) - 1]
MCWork == [b \in Blocks |-> Cardinality(MCChain[b])]
MCAddress == (g :> 4) @@ (a1 :> 3) @@ (a2 :> 6) @@ (c2 :> 1) @@ (b1 :> 5) @@ (b2 :> 2) @@ (b3 :> 7)
MCAddr == [b \in Blocks |-> MCAddress[b]]
=============================================================================
