----------------------------- MODULE MCCoinsView -----------------------------
(***************************************************************************)
(* A block tree small enough for TLC with reorganisations in it:            *)
(*                                                                          *)
(*    g -- b1 -- b2 -- b3 -- b4                                             *)
(*           \-- c2 -- c3 -- bad, dup                                       *)
(*           \-- d2                                                         *)
(*                                                                          *)
(* b1 creates t1.  The transaction t2, which spends half of t1, is mined at *)
(* height 2 in b2 and at height 3 in c3; d2 mines one that spends all of    *)
(* t1.  b3 spends what b2 left of both, so that b4 may create t1 again.     *)
(* bad spends one output twice, dup overwrites the live t2.  The outputs    *)
(* of t3 and t4 are unspendable.                                            *)
(***************************************************************************)
EXTENDS CoinsView, TLC

CONSTANTS t1, t2, t3, t4, g, b1, b2, b3, b4, c2, c3, d2, bad, dup, null, none

MCTxIds == {t1, t2, t3, t4}
MCBlocks == {g, b1, b2, b3, b4, c2, c3, d2, bad, dup}
MCParent == (g :> null) @@ (b1 :> g) @@ (b2 :> b1) @@ (b3 :> b2) @@ (b4 :> b3)
            @@ (c2 :> b1) @@ (c3 :> c2) @@ (d2 :> b1) @@ (bad :> c3) @@ (dup :> c3)
MCHeight == (g :> 0) @@ (b1 :> 1) @@ (b2 :> 2) @@ (b3 :> 3) @@ (b4 :> 4)
            @@ (c2 :> 2) @@ (c3 :> 3) @@ (d2 :> 2) @@ (bad :> 4) @@ (dup :> 4)
MCVout == (t1 :> {0, 1}) @@ (t2 :> {0}) @@ (t3 :> {}) @@ (t4 :> {})

Spends(t, k) == [op |-> "spend", tx |-> t, n |-> k]
Creates(t) == [op |-> "create", tx |-> t, n |-> 0]
MCAccesses ==
  (g :> << >>)
  @@ (b1 :> <<Creates(t1)>>)
  @@ (b2 :> <<Creates(t3), Spends(t1, 0), Creates(t2)>>)
  @@ (b3 :> <<Creates(t3), Spends(t2, 0), Spends(t1, 1), Creates(t4)>>)
  @@ (b4 :> <<Creates(t1)>>)
  @@ (c2 :> <<Creates(t3)>>)
  @@ (c3 :> <<Creates(t4), Spends(t1, 0), Creates(t2)>>)
  @@ (d2 :> <<Creates(t3), Spends(t1, 1), Spends(t1, 0), Creates(t2)>>)
  @@ (bad :> <<Creates(t3), Spends(t1, 1), Spends(t1, 1), Creates(t4)>>)
  @@ (dup :> <<Creates(t2)>>)
=============================================================================
