------------------------- MODULE ScriptVerification -------------------------
(***************************************************************************)
(* What ConnectBlock relies on when it has the scripts of a block checked   *)
(* in parallel: one block at a time hands over its checks, in any number of *)
(* batches, and is told in the end whether every one of them succeeded.  It *)
(* may also leave without asking.                                           *)
(***************************************************************************)
CONSTANTS
  Checks,   \* script checks
  Failing   \* those whose script does not verify

VARIABLES
  active,   \* a block's checks are being collected or run
  added,    \* the checks that block has handed over
  verdict   \* what the last block was told

vars == <<active, added, verdict>>

Verdict(S) == IF S \cap Failing = {} THEN "valid" ELSE "invalid"

Init == active = FALSE /\ added = {} /\ verdict = "none"

Open == ~active /\ active' = TRUE /\ added' = {} /\ verdict' = "none"

Add == \E S \in SUBSET (Checks \ added) :
  active /\ added' = added \cup S /\ UNCHANGED <<active, verdict>>

Close ==
  /\ active /\ active' = FALSE /\ UNCHANGED added
  /\ verdict' \in {Verdict(added), "none"}

Next == Open \/ Add \/ Close

Spec == Init /\ [][Next]_vars
=============================================================================
