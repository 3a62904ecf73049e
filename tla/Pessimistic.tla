------------------------------ MODULE Pessimistic ----------------------------
(***************************************************************************)
(* PESSIMISTIC_RESTART: try_goal_sj2.  The goal is claimed first and every *)
(* partner when it is found; going back rolls back the last partner, a     *)
(* failed rule rolls back all it used, the goal included.                  *)
(***************************************************************************)
EXTENDS Engine

\* try_claim of the goal.  One that no rule accepts stays claimed; one that
\* others hold is retried.
TryGoal(t) ==
  LET s == Goal(t) IN
  /\ pc[t] = "try" /\ job[t].run
  /\ \/ /\ pending[s] > 0
        /\ Take(s)
        /\ held' = [held EXCEPT ![t] = IF RulesAfter(t) = {} THEN {} ELSE {1}]
        /\ NextRule(t, "consume", FALSE)
     \/ /\ pending[s] = 0
        /\ IF claimed[s] > 0 THEN Return(t, FALSE, TRUE) ELSE Search(t, "recheck", list[t], cur[t])
        /\ UNCHANGED <<pending, claimed, held>>
  /\ UNCHANGED <<con, mod, tokens, bucket, tasks, used_mode, calls, keys>>

\* pendings_and_claims() after the claim failed.
Recheck(t) ==
  /\ pc[t] = "recheck"
  /\ Return(t, FALSE, pending[Goal(t)] + claimed[Goal(t)] > 0)
  /\ UNCHANGED <<store, tasks, used_mode, calls, keys, held>>

\* The next entry worth loading, else what was claimed is rolled back while the
\* accessor is still held.
Scan(t, c) ==
  IF Candidates(t, c) # {}
  THEN Move(t, "pending", list[t], [c EXCEPT !.at = Least(Candidates(t, c))])
  ELSE IF c.stack # << >> THEN Move(t, "undo", list[t], c)
  ELSE Move(t, "rollback", list[t], [c EXCEPT !.at = 1])

\* (A set with one element names a value without having it computed again.)
ScanPast(t) == \E c \in {[cur[t] EXCEPT !.at = @ + 1]} : Scan(t, c)

OpenBucket(t) ==
  /\ pc[t] = "open"
  /\ \E k \in {Hint(list[t].rule, list[t].m)} : \E c \in {Opened(t, k)} : Scan(t, c)
  /\ UNCHANGED <<store, tasks, used_mode, calls, job, keys, held>>

PeekPending(t) ==
  /\ pc[t] = "pending"
  /\ Jump(t, IF pending[Here(t)] > 0 THEN "claim" ELSE "claims")
  /\ UNCHANGED <<store, tasks, used_mode, calls, job, keys, list, cur, held>>

LoadClaims(t) ==
  /\ pc[t] = "claims"
  /\ IF claimed[Here(t)] > 0 THEN Move(t, "claim", list[t], cur[t]) ELSE ScanPast(t)
  /\ UNCHANGED <<store, tasks, used_mode, calls, job, keys, held>>

ClaimHere(t) ==
  /\ pc[t] = "claim" /\ pending[Here(t)] > 0
  /\ Take(Here(t))
  /\ \E l \in {Add(list[t], Here(t))} :
       /\ held' = [held EXCEPT ![t] = @ \cup {Len(l.used)}]
       /\ IF Complete(l.rule, l.m) THEN Search(t, "consume", l, Rewound) ELSE Search(t, "open", l, Found(t))
  /\ UNCHANGED <<con, mod, tokens, bucket, tasks, used_mode, calls, keys>>

\* A variant that ignores the result of try_claim.
ClaimIgnored(t) ==
  LET l == Add(list[t], Here(t))
  IN  /\ pc[t] = "claim" /\ pending[Here(t)] = 0
      /\ IF Complete(l.rule, l.m) THEN Search(t, "consume", l, Rewound) ELSE Search(t, "open", l, Found(t))
      /\ UNCHANGED <<store, tasks, used_mode, calls, keys, held>>

ClaimFails(t) ==
  /\ pc[t] = "claim" /\ pending[Here(t)] = 0
  /\ Jump(t, "sawclaims")
  /\ UNCHANGED <<store, tasks, used_mode, calls, job, keys, list, cur, held>>

\* Whether the claim failed because others hold the entry: two loads again.
SawClaims(t) ==
  /\ pc[t] = "sawclaims"
  /\ IF claimed[Here(t)] > (IF Here(t) = Goal(t) THEN 1 ELSE 0)
     THEN job' = [job EXCEPT ![t].saw = TRUE] /\ ScanPast(t)
     ELSE Search(t, "sawpending", list[t], cur[t])
  /\ UNCHANGED <<store, tasks, used_mode, calls, keys, held>>

SawPending(t) ==
  /\ pc[t] = "sawpending"
  /\ job' = [job EXCEPT ![t].saw = @ \/ pending[Here(t)] > 0]
  /\ ScanPast(t)
  /\ UNCHANGED <<store, tasks, used_mode, calls, keys, held>>

\* The last partner found is rolled back and leaves the checklist; held follows
\* used_stati_, which loses the first status of that value.
Undo(t) ==
  LET s == Top(cur[t]).s
      uses == {i \in DOMAIN list[t].used : list[t].used[i] = s}
      rest == held[t] \ {CHOOSE i \in uses : \A j \in uses : j <= i}
      gap == Least({i \in DOMAIN list[t].used : con[list[t].used[i]] = con[s]})
  IN  /\ pc[t] = "undo"
      /\ Release(s)
      /\ \E l \in {Remove(list[t], s)} :
           /\ held' = [held EXCEPT ![t] =
                IF Len(l.used) = Len(list[t].used) THEN rest
                ELSE {i \in rest : i < gap} \cup {i - 1 : i \in {j \in rest : j > gap}}]
           /\ Search(t, "open", l, GoBack(cur[t]))
      /\ UNCHANGED <<con, mod, tokens, bucket, tasks, used_mode, calls, keys>>

\* The rule has failed.  The next one starts from the goal without claiming it.
Rollback(t) ==
  /\ pc[t] = "rollback"
  /\ Release(list[t].used[cur[t].at])
  /\ held' = [held EXCEPT ![t] = @ \ {cur[t].at}]
  /\ IF cur[t].at = Len(list[t].used) THEN NextRule(t, "consume", job[t].saw)
     ELSE Search(t, "rollback", list[t], [cur[t] EXCEPT !.at = @ + 1])
  /\ UNCHANGED <<con, mod, tokens, bucket, tasks, used_mode, calls, keys>>

Try(t) ==
  \/ TryGoal(t) \/ Recheck(t) \/ OpenBucket(t) \/ PeekPending(t) \/ LoadClaims(t)
  \/ ClaimHere(t) \/ ClaimFails(t) \/ SawClaims(t) \/ SawPending(t) \/ Undo(t) \/ Rollback(t)
  \/ Consume(t)

Step(t) == Common(t) \/ Try(t)

Next == (\E t \in Thread : Step(t)) \/ Terminated

Spec == Init /\ [][Next]_vars
FairSpec == Spec /\ \A t \in Thread : WF_vars(Step(t))

(***************************************************************************)
(* README.md:12, "immediately locked by setting their state to claimed":   *)
(* while the goal's thread searches for partners, it has claimed every     *)
(* constraint that is in its match so far, the goal included.              *)
(***************************************************************************)
Seeking == {"open", "pending", "claims", "claim", "sawclaims", "sawpending", "undo"}
UsesAreClaimed == \A t \in Thread : pc[t] \in Seeking => held[t] = DOMAIN list[t].used

\* Programs for which it holds: every constraint has one rule with a head for it.
\* A goal of no rule stays claimed for ever, and a second rule searches with a
\* goal that the failure of the first has given back.
OneRule == \A c \in Con : \E r \in RuleId :
             {q \in RuleId : \E h \in Heads(q) : HeadName(q, h) = c.name} = {r}
==============================================================================
