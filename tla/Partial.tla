-------------------------------- MODULE Partial ------------------------------
(***************************************************************************)
(* OPTIMISTIC_PARTIAL_RESTART: try_goal_sj_opt_partial_restart2.  It tries *)
(* the first rule with a head for the goal; if a claim on the match fails, *)
(* only the status concerned leaves the checklist and the search goes on   *)
(* from the rest, at most three times.                                     *)
(***************************************************************************)
EXTENDS OptimisticSearch

VARIABLE left     \* per thread: the rounds of the loop that remain

partialVars == <<vars, left>>
Attempts == 3

InitPartial == Init /\ left = [t \in Thread |-> 0]

\* A goal that no rule has a head for is not tried: the code would use a null
\* rule.
TryGoal(t) ==
  /\ pc[t] = "try" /\ job[t].run /\ RulesAfter(t) # {}
  /\ Search(t, "again", Add(NewChecklist(Least(RulesAfter(t))), Goal(t)), Rewound)
  /\ left' = [left EXCEPT ![t] = Attempts]
  /\ UNCHANGED <<store, tasks, used_mode, calls, keys, held>>

\* The condition of the loop, num_pendings() or num_claims() of the goal.
Attempt(t) ==
  Search(t, IF Complete(list[t].rule, list[t].m) THEN "commit" ELSE "open", list[t], Rewound)

Again(t) ==
  /\ pc[t] = "again"
  /\ IF pending[Goal(t)] > 0 THEN Attempt(t) ELSE Search(t, "againclaims", list[t], cur[t])
  /\ UNCHANGED <<store, tasks, used_mode, calls, keys, held, left>>

\* left is a local variable of the call and ends with it.
Leave(t, retry) == Return(t, FALSE, retry) /\ left' = [left EXCEPT ![t] = 0]

AgainClaims(t) ==
  /\ pc[t] = "againclaims"
  /\ IF claimed[Goal(t)] > 0 THEN Attempt(t) /\ left' = left ELSE Leave(t, TRUE)
  /\ UNCHANGED <<store, tasks, used_mode, calls, keys, held>>

\* An incomplete match ends the goal; try_matching2 never asks for a retry.
Scan(t, c) == IF Exhausted(t, c) THEN Leave(t, FALSE) ELSE ScanOn(t, c) /\ left' = left

OpenBucket(t) ==
  /\ pc[t] = "open"
  /\ \E k \in {Hint(list[t].rule, list[t].m)} : \E c \in {Opened(t, k)} : Scan(t, c)
  /\ UNCHANGED <<store, tasks, used_mode, calls, keys, held>>

LoadClaims(t) ==
  /\ pc[t] = "claims"
  /\ IF claimed[Here(t)] > Threshold(t) THEN AddHere(t) /\ left' = left
     ELSE Scan(t, [cur[t] EXCEPT !.at = @ + 1])
  /\ UNCHANGED <<store, tasks, used_mode, calls, keys, held>>

\* The status that could not be claimed leaves the checklist.  The reference e
\* then names what has moved to its place in used_stati_, or, after the last one,
\* still the same status; the loop ends if that has the goal's value.
NextAttempt(t) ==
  \E l \in {Remove(list[t], list[t].used[cur[t].at])} :
    LET e == IF Len(l.used) < Len(list[t].used) /\ cur[t].at < Len(list[t].used)
             THEN list[t].used[cur[t].at + 1] ELSE list[t].used[cur[t].at]
    IN  IF left[t] = 1 \/ con[e] = con[Goal(t)] THEN Leave(t, TRUE)
        ELSE Search(t, "again", l, Rewound) /\ left' = [left EXCEPT ![t] = @ - 1]

ClaimAll(t) ==
  /\ Claim(t)
  /\ left' = [left EXCEPT ![t] = IF cur[t].at = Len(list[t].used) THEN 0 ELSE @]

ClaimFails(t) ==
  /\ pc[t] = "commit" /\ pending[list[t].used[cur[t].at]] = 0
  /\ IF held[t] = {} THEN NextAttempt(t)
     ELSE Search(t, "rollback", list[t], cur[t]) /\ left' = left
  /\ UNCHANGED <<store, tasks, used_mode, calls, keys, held>>

\* (What leaves the checklist does so here, after the rollbacks: it is local.)
Rollback(t) ==
  /\ GiveBack(t)
  /\ IF held[t] = {Least(held[t])} THEN NextAttempt(t)
     ELSE Search(t, "rollback", list[t], cur[t]) /\ left' = left

\* Only a status of a sync call gets a token; jumped_myself is set by the first
\* use without one.
Silent(t, i) ==
  LET own(j) == list[t].used[j] = Goal(t)
      sync(j) == mod[list[t].used[j]] = "SYNC"
  IN  ~sync(i) \/ (own(i) /\ \A j \in 1..(i - 1) : sync(j) /\ ~own(j))

ConsumeClaimed(t) == ConsumeUse(t, Silent(t, cur[t].at))

Try(t) ==
  \/ TryGoal(t) \/ AgainClaims(t) \/ OpenBucket(t) \/ LoadClaims(t)
  \/ ClaimAll(t) \/ ClaimFails(t) \/ Rollback(t) \/ Again(t)
  \/ (LoadPending(t) \/ ConsumeClaimed(t)) /\ UNCHANGED left

Step(t) == (Common(t) /\ UNCHANGED left) \/ Try(t)

Next == (\E t \in Thread : Step(t)) \/ (Terminated /\ UNCHANGED left)

Spec == InitPartial /\ [][Next]_partialVars
==============================================================================
