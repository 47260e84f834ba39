----------------------------- MODULE MCInterest -----------------------------
(* A chain of seven blocks with the fork at the third, and a year of five    *)
(* blocks: short enough to cross the fork, the thirty days and the year.     *)
EXTENDS Interest

MCNoTerm == -1
=============================================================================
