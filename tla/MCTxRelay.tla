----------------------------- MODULE MCTxRelay -----------------------------
(***************************************************************************)
(* A block tree for TLC, the coinbases written in front of the transactions  *)
(*                                                                          *)
(*    r: c0 f -- a1: ca1 p -- a2: ca2 x q                                    *)
(*           \-- b1: cb1 d                                                   *)
(*                                                                          *)
(* f has two outputs; p and d spend the first, and q spends p; u spends the  *)
(* second and pays out two blocks of its interest; w spends u with a bad      *)
(* script, v spends u too, z merges q with the same output of u, claims a     *)
(* block of interest, which q earns in the chain and not in the pool, and is  *)
(* not final on top of r; f and x spend the coinbase of r.                    *)
(***************************************************************************)
EXTENDS TxRelay, TLC

CONSTANTS m, n, r, a1, a2, b1, c0, ca1, ca2, cb1, f, p, q, d, u, v, w, x, z

MCParent == (a1 :> r) @@ (a2 :> a1) @@ (b1 :> r)
MCChain[b \in Blocks] == {b} \cup (IF b = r THEN {} ELSE MCChain[MCParent[b]])
MCHeight == [b \in Blocks |-> Cardinality(MCChain[b])]
MCBlockTxs == (r :> <<c0, f>>) @@ (a1 :> <<ca1, p>>) @@ (a2 :> <<ca2, x, q>>) @@ (b1 :> <<cb1, d>>)

MCSpends == (p :> {<<f, 0>>}) @@ (d :> {<<f, 0>>}) @@ (q :> {<<p, 0>>}) @@ (u :> {<<f, 1>>})
              @@ (f :> {<<c0, 1>>}) @@ (v :> {<<u, 1>>})
              @@ (w :> {<<u, 0>>}) @@ (z :> {<<q, 0>>, <<u, 1>>})
              @@ (x :> {<<c0, 0>>})
MCInputs == [t \in Txs |-> IF t \in DOMAIN MCSpends THEN MCSpends[t] ELSE {}]
MCNOut == [t \in Txs |-> IF t \in {c0, f, u} THEN 2 ELSE 1]
MCClaim == [t \in Txs |-> CASE t = u -> 2 [] t = z -> 1 [] OTHER -> 0]
MCLock == [t \in Txs |-> IF t = z THEN 2 ELSE 0]
PeerSymmetry == Permutations(Peers)
=============================================================================
