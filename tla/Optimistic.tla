------------------------------ MODULE Optimistic -----------------------------
(***************************************************************************)
(* OPTIMISTIC_RESTART: try_goal_sj_opt2.  If a claim on the match fails,   *)
(* those made are rolled back and the whole goal starts again.             *)
(***************************************************************************)
EXTENDS OptimisticSearch

\* A goal without a match becomes passive: do_retry is still false then.
TryGoal(t) ==
  /\ pc[t] = "try" /\ job[t].run
  /\ NextRule(t, "commit", FALSE)
  /\ UNCHANGED <<store, tasks, used_mode, calls, keys, held>>

Scan(t, c) == IF Exhausted(t, c) THEN NextRule(t, "commit", FALSE) ELSE ScanOn(t, c)

\* (A set with one element names a value without having it computed again.)
OpenBucket(t) ==
  /\ pc[t] = "open"
  /\ \E k \in {Hint(list[t].rule, list[t].m)} : \E c \in {Opened(t, k)} : Scan(t, c)
  /\ UNCHANGED <<store, tasks, used_mode, calls, keys, held>>

LoadClaims(t) ==
  /\ pc[t] = "claims"
  /\ IF claimed[Here(t)] > Threshold(t) THEN AddHere(t)
     ELSE Scan(t, [cur[t] EXCEPT !.at = @ + 1])
  /\ UNCHANGED <<store, tasks, used_mode, calls, keys, held>>

ClaimFails(t) ==
  /\ pc[t] = "commit" /\ pending[list[t].used[cur[t].at]] = 0
  /\ IF held[t] = {} THEN Return(t, FALSE, TRUE)
     ELSE Search(t, "rollback", list[t], Rewound)
  /\ UNCHANGED <<store, tasks, used_mode, calls, keys, held>>

Rollback(t) ==
  /\ GiveBack(t)
  /\ IF held[t] = {Least(held[t])} THEN Return(t, FALSE, TRUE)
     ELSE Search(t, "rollback", list[t], cur[t])

Try(t) ==
  \/ TryGoal(t) \/ OpenBucket(t) \/ LoadPending(t) \/ LoadClaims(t)
  \/ Claim(t) \/ ClaimFails(t) \/ Rollback(t) \/ Consume(t)

Step(t) == Common(t) \/ Try(t)

Next == (\E t \in Thread : Step(t)) \/ Terminated

Spec == Init /\ [][Next]_vars
FairSpec == Spec /\ \A t \in Thread : WF_vars(Step(t))
==============================================================================
