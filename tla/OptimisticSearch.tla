--------------------------- MODULE OptimisticSearch --------------------------
(***************************************************************************)
(* What the two optimistic strategies share, try_goal_sj_opt2 and, with    *)
(* the same text, try_matching2: a search that claims nothing, and the     *)
(* claims on a complete match, status by status.                           *)
(***************************************************************************)
EXTENDS Engine

\* The next entry worth loading, else the entry before it on the stack.
ScanOn(t, c) ==
  IF Candidates(t, c) # {}
  THEN Search(t, "pending", list[t], [c EXCEPT !.at = Least(Candidates(t, c))])
  ELSE \E l \in {Remove(list[t], Top(c).s)} : Search(t, "open", l, GoBack(c))

Exhausted(t, c) == c.stack = << >> /\ Candidates(t, c) = {}

\* A variant in which the goal may be its own partner.
NoThreshold(t) == 0

\* num_pendings() and num_claims() are two loads; the goal's own status must
\* have one more than the use the goal itself makes of it.
Threshold(t) == IF Here(t) = Goal(t) THEN 1 ELSE 0

AddHere(t) ==
  \E l \in {Add(list[t], Here(t))} :
    IF Complete(l.rule, l.m) THEN Search(t, "commit", l, Rewound) ELSE Search(t, "open", l, Found(t))

LoadPending(t) ==
  /\ pc[t] = "pending"
  /\ IF pending[Here(t)] > Threshold(t) THEN AddHere(t) ELSE Search(t, "claims", list[t], cur[t])
  /\ UNCHANGED <<store, tasks, used_mode, calls, keys, held>>

\* try_claim on the next used status.
Claim(t) ==
  /\ pc[t] = "commit" /\ pending[list[t].used[cur[t].at]] > 0
  /\ Take(list[t].used[cur[t].at])
  /\ held' = [held EXCEPT ![t] = @ \cup {cur[t].at}]
  /\ IF cur[t].at = Len(list[t].used) THEN Search(t, "consume", list[t], Rewound)
     ELSE Search(t, "commit", list[t], [cur[t] EXCEPT !.at = @ + 1])
  /\ UNCHANGED <<con, mod, tokens, bucket, tasks, used_mode, calls, keys>>

\* claimed_stats are rolled back in the order they were claimed.
GiveBack(t) ==
  LET i == Least(held[t])
  IN  /\ pc[t] = "rollback"
      /\ Release(list[t].used[i])
      /\ held' = [held EXCEPT ![t] = @ \ {i}]
      /\ UNCHANGED <<con, mod, tokens, bucket, tasks, used_mode, calls, keys>>
==============================================================================
