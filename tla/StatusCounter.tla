---------------------------- MODULE StatusCounter ----------------------------
(***************************************************************************)
(* What a status word promises: two counters, the copies of a constraint   *)
(* that are pending and those that are claimed, changed in single steps.   *)
(* Engine builds on this: its Take, Release and Consume are these.         *)
(***************************************************************************)
EXTENDS Integers

VARIABLES pending, claimed

Init == pending = 1 /\ claimed = 0

AddPending == pending' = pending + 1 /\ UNCHANGED claimed

TryClaim == pending > 0 /\ pending' = pending - 1 /\ claimed' = claimed + 1

Consume == claimed > 0 /\ claimed' = claimed - 1 /\ UNCHANGED pending

Rollback == claimed > 0 /\ claimed' = claimed - 1 /\ pending' = pending + 1

Next == AddPending \/ TryClaim \/ Consume \/ Rollback

Spec == Init /\ [][Next]_<<pending, claimed>>
==============================================================================
