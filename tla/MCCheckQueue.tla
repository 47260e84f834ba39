---------------------------- MODULE MCCheckQueue ----------------------------
(***************************************************************************)
(* Two workers, a thread that connects blocks, and four checks, one of      *)
(* which fails: enough for a batch of two, and for every thread to have one.*)
(***************************************************************************)
EXTENDS CheckQueue

CONSTANTS w1, w2, m1, c1, c2, c3, bad, none
=============================================================================
