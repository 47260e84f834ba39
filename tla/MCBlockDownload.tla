-------------------------- MODULE MCBlockDownload --------------------------
(***************************************************************************)
(* A block tree for TLC; every block has one unit of work.                  *)
(*                                                                          *)
(*    g -- a1 -- a2 -- a3                                                   *)
(*           \-- b2 -- b3        b2 and b3 are refused                      *)
(*                                                                          *)
(* prompt answers and has the chain of a3; tardy need not answer, has that of  *)
(* b3 and announces a1.                                                     *)
(***************************************************************************)
EXTENDS BlockDownload, TLC

CONSTANTS g, a1, a2, a3, b2, b3, prompt, tardy, null

MCTree == (g :> null) @@ (a1 :> g) @@ (a2 :> a1) @@ (a3 :> a2) @@ (b2 :> a1) @@ (b3 :> b2)
MCParent == [b \in Blocks |-> MCTree[b]]
MCChain[b \in Blocks] == {b} \cup (IF b = g THEN {} ELSE MCChain[MCParent[b]])
MCHeight == [b \in Blocks |-> Cardinality(MCChain[b]) - 1]
MCWork == [b \in Blocks |-> Cardinality(MCChain[b])]
MCOffers == (prompt :> a3) @@ (tardy :> b3)
MCAnnounces == (prompt :> {a3}) @@ (tardy :> {a1})
=============================================================================
