---------------------------- MODULE UncountedSearch --------------------------
(***************************************************************************)
(* How the uncounted engine tries a goal: try_goal_sj (pessimistic),       *)
(* try_goal_sj_opt (optimistic) and try_goal_sj_opt_partial_restart with   *)
(* try_matching.  None of them goes back in its search.                    *)
(***************************************************************************)
EXTENDS Uncounted

Quiet == UNCHANGED <<queue, tasks, mode, batch, new, keys>>
Set(s, x) == state' = [state EXCEPT ![s] = x]

(***************************************************************************)
(* The uncounted checklist.  used_constraints_ is sorted by id whenever a  *)
(* constraint is added; consumable_ (eat) and consumable_constraints_      *)
(* (spare) are filled and used up in the order of adding.                  *)
(***************************************************************************)
\* A variant without the sort.
AppendUsed(q, s) == Append(q, s)

InsertById(q, s) ==
  LET n == Cardinality({i \in DOMAIN q : q[i] <= s})
  IN  SubSeq(q, 1, n) \o <<s>> \o SubSeq(q, n + 1, Len(q))

EmptyList(r) ==
  [rule |-> r, m |-> [h \in Heads(r) |-> None], used |-> << >>, eat |-> << >>,
   spare |-> IF Rules[r].simpagation THEN {h \in Heads(r) : h > Rules[r].keep} ELSE {}]

Use(l, s) ==
  LET same == {h \in l.spare : HeadName(l.rule, h) = con[s].name}
  IN  [l EXCEPT !.m = [@ EXCEPT ![Least(FreeHeads(l.rule, l.m, s))] = s],
                !.used = InsertById(@, s),
                !.eat = IF same = {} THEN @ ELSE Append(@, s),
                !.spare = IF same = {} THEN @ ELSE @ \ {Least(same)}]

\* remove_constraint: everything is taken out, and all but s is matched again
\* until one does not match.  What was used up of spare is not put back.
Rematch(l, s, d, k) ==
  IF /\ l.used[k] # s
     /\ Len(d.used) = Cardinality({j \in 1..(k - 1) : l.used[j] # s})
     /\ Convenient(l.rule, d.m, l.used[k])
  THEN Use(d, l.used[k])
  ELSE d

TakeOut(l, s) ==
  LET replay[k \in 0..Len(l.used)] ==
        IF k = 0 THEN [EmptyList(l.rule) EXCEPT !.spare = l.spare] ELSE Rematch(l, s, replay[k - 1], k)
  IN  replay[Len(l.used)]

Ordered(l) == [h \in Heads(l.rule) |-> con[ById(l.rule, l.m)[h]]]

(***************************************************************************)
(* The rules, in order, that have a head for the goal.                     *)
(***************************************************************************)
Move(t, p, l, c) ==
  /\ Jump(t, p)
  /\ list' = [list EXCEPT ![t] = l]
  /\ cur' = [cur EXCEPT ![t] = c]
Search(t, p, l, c) == Move(t, p, l, c) /\ UNCHANGED job
At(n) == [NoScan EXCEPT !.at = n]

RulesAfter(t) == {r \in RuleId : r > list[t].rule /\ Accepts(r, Goal(t))}

\* Where a complete match goes: the pessimistic search has claimed it already.
Matching(t, match) ==
  \E l \in {match} :
    Search(t, IF ~Complete(l.rule, l.m) THEN "open"
              ELSE IF mode = "PESSIMISTIC" THEN "consume" ELSE "commit", l, NoScan)

NextRule(t) ==
  IF RulesAfter(t) = {} THEN Return(t, FALSE, mode = "PESSIMISTIC" /\ job[t].saw)
  ELSE Matching(t, Use(EmptyList(Least(RulesAfter(t))), Goal(t)))

(***************************************************************************)
(* Beginning.  The pessimistic search claims the goal; if it cannot, two   *)
(* loads decide whether it is worth another try.  The partial restart      *)
(* takes the first rule only, and must have one.                           *)
(***************************************************************************)
ClaimGoal(t) ==
  /\ pc[t] = "try" /\ mode = "PESSIMISTIC"
  /\ IF state[Goal(t)] = "PENDING"
     THEN /\ Set(Goal(t), "CLAIMED")
          /\ held' = [held EXCEPT ![t] = {Goal(t)}]
          /\ NextRule(t)
     ELSE Jump(t, "stolen") /\ UNCHANGED <<state, job, search>>
  /\ Quiet /\ UNCHANGED <<con, bucket, calls>>

Stolen(t) ==
  /\ pc[t] \in {"stolen", "stolenpending"}
  /\ IF state[Goal(t)] = (IF pc[t] = "stolen" THEN "CLAIMED" ELSE "PENDING") THEN Return(t, FALSE, TRUE)
     ELSE IF pc[t] = "stolen" THEN Search(t, "stolenpending", list[t], cur[t])
     ELSE Return(t, FALSE, FALSE)
  /\ Quiet /\ UNCHANGED <<store, calls, held>>

TryGoal(t) ==
  /\ pc[t] = "try" /\ mode = "OPTIMISTIC"
  /\ NextRule(t)
  /\ Quiet /\ UNCHANGED <<store, calls, held>>

TryFirstRule(t) ==
  /\ pc[t] = "try" /\ mode = "PARTIAL" /\ RulesAfter(t) # {}
  /\ Move(t, "again", Use(EmptyList(Least(RulesAfter(t))), Goal(t)), NoScan)
  /\ job' = [job EXCEPT ![t].left = 3]
  /\ Quiet /\ UNCHANGED <<store, calls, held>>

\* The condition of the loop over three rounds; abort leaves no round.
Again(t) ==
  /\ pc[t] = "again"
  /\ IF job[t].left = 0 \/ state[Goal(t)] = "CONSUMED" THEN Return(t, FALSE, TRUE)
     ELSE /\ Move(t, IF Complete(list[t].rule, list[t].m) THEN "commit" ELSE "open", list[t], NoScan)
          /\ job' = [job EXCEPT ![t].left = @ - 1]
  /\ Quiet /\ UNCHANGED <<store, calls, held>>

(***************************************************************************)
(* The scan of the hinted bucket, from its first entry or, without claims, *)
(* from a random one and around.  Only convenient entries are looked at.   *)
(***************************************************************************)
Fitting(t, b) ==
  {i \in DOMAIN b : b[i] # Goal(t) /\ Convenient(list[t].rule, list[t].m, b[i])}

\* The entries that come after the current one.
Turn(c, i, n) == (i - c.off + n) % n
Later(t) ==
  LET b == Bucket(cur[t].bkt)
  IN  {i \in Fitting(t, b) : Turn(cur[t], i, Len(b)) > Turn(cur[t], cur[t].at, Len(b))}

Here(t) == Bucket(cur[t].bkt)[cur[t].at]

\* No constraint for the hint: the pessimistic search gives back its claims
\* (still holding the accessor c.bkt) and takes the next rule, the optimistic
\* one takes the next rule, the partial restart gives up.
NotFound(t, c) ==
  CASE mode = "PESSIMISTIC" -> Search(t, "giveback", list[t], [c EXCEPT !.at = 1])
    [] mode = "OPTIMISTIC" -> NextRule(t)
    [] mode = "PARTIAL" -> Return(t, FALSE, FALSE)

Onward(t) ==
  LET turn(i) == Turn(cur[t], i, Len(Bucket(cur[t].bkt)))
  IN  [cur[t] EXCEPT !.at = CHOOSE i \in Later(t) : \A j \in Later(t) : turn(i) <= turn(j)]

GoOn(t) ==
  IF Later(t) = {} THEN NotFound(t, cur[t]) ELSE \E c \in {Onward(t)} : Search(t, "look", list[t], c)

HintEntry(r, m) == Xor(Hint(r, m), DOMAIN Hint(r, m).vals # {})

Open(t) ==
  /\ pc[t] = "open"
  /\ \E k \in {HintEntry(list[t].rule, list[t].m)} : \E fit \in {Fitting(t, Bucket(k))} :
       LET bkt == IF k \in Entries THEN k ELSE NoKey
       IN  IF fit = {} THEN NotFound(t, [NoScan EXCEPT !.bkt = bkt])
           ELSE \E i \in IF mode = "PESSIMISTIC" THEN {Least(fit)} ELSE fit :
                  Search(t, "look", list[t],
                         [bkt |-> bkt, off |-> IF mode = "PESSIMISTIC" THEN 1 ELSE i, at |-> i])
  /\ Quiet /\ UNCHANGED <<store, calls, held>>

Look(t) ==
  /\ pc[t] = "look"
  /\ IF state[Here(t)] = "CONSUMED" THEN GoOn(t)
     ELSE IF mode = "PESSIMISTIC" THEN Search(t, "claim", list[t], cur[t])
     ELSE Matching(t, Use(list[t], Here(t)))
  /\ Quiet /\ UNCHANGED <<store, calls, held>>

ClaimHere(t) ==
  /\ pc[t] = "claim"
  /\ IF state[Here(t)] = "PENDING"
     THEN /\ Set(Here(t), "CLAIMED")
          /\ held' = [held EXCEPT ![t] = @ \cup {Here(t)}]
          /\ Matching(t, Use(list[t], Here(t)))
     ELSE Search(t, "saw", list[t], cur[t]) /\ UNCHANGED <<state, held>>
  /\ Quiet /\ UNCHANGED <<con, bucket, calls>>

\* saw_claimed; the scan goes on.
Saw(t) ==
  /\ pc[t] = "saw"
  /\ job' = [job EXCEPT ![t].saw = @ \/ state[Here(t)] = "CLAIMED"]
  /\ IF Later(t) = {} THEN Move(t, "giveback", list[t], [cur[t] EXCEPT !.at = 1])
     ELSE \E c \in {Onward(t)} : Move(t, "look", list[t], c)
  /\ Quiet /\ UNCHANGED <<store, calls, held>>

\* The rule has failed; its claims go back to PENDING, the one on the goal too,
\* and the next rule starts from the goal without claiming it.
GiveBack(t) ==
  LET s == list[t].used[cur[t].at]
  IN  /\ pc[t] = "giveback"
      /\ IF state[s] = "CLAIMED" THEN Set(s, "PENDING") ELSE state' = state
      /\ held' = [held EXCEPT ![t] = @ \ {s}]
      /\ IF cur[t].at = Len(list[t].used) THEN NextRule(t)
         ELSE Search(t, "giveback", list[t], [cur[t] EXCEPT !.at = @ + 1])
      /\ Quiet /\ UNCHANGED <<con, bucket, calls>>

(***************************************************************************)
(* The claims on a complete match, in the order of the ids; all or none.   *)
(***************************************************************************)
\* The partial restart goes on without the constraint it could not claim.  The
\* reference e then names what has moved to its place in used_constraints_, or,
\* behind the last one, still the same constraint; the loop ends if that is the goal.
Restart(t) ==
  LET i == cur[t].at
      e(l) == IF i <= Len(l.used) THEN l.used[i] ELSE list[t].used[i]
  IN  IF mode = "OPTIMISTIC" THEN Return(t, FALSE, TRUE)
      ELSE \E l \in {TakeOut(list[t], list[t].used[i])} :
             /\ Move(t, "again", l, NoScan)
             /\ job' = IF e(l) = Goal(t) THEN [job EXCEPT ![t].left = 0] ELSE job

CommitIf(t, free(_)) ==
  LET s == list[t].used[cur[t].at]
  IN  /\ pc[t] = "commit"
      /\ IF free(s)
         THEN /\ Set(s, "CLAIMED")
              /\ held' = [held EXCEPT ![t] = @ \cup {s}]
              /\ IF cur[t].at = Len(list[t].used) THEN Search(t, "consume", list[t], NoScan)
                 ELSE Search(t, "commit", list[t], At(cur[t].at + 1))
         ELSE /\ UNCHANGED <<state, held>>
              /\ IF held[t] = {} THEN Restart(t) ELSE Search(t, "rollback", list[t], cur[t])
      /\ Quiet /\ UNCHANGED <<con, bucket, calls>>

\* A variant that stores CLAIMED without comparing.
CommitStore(t) == CommitIf(t, LAMBDA s : state[s] # "CONSUMED")
Commit(t) == CommitIf(t, LAMBDA s : state[s] = "PENDING")

Rollback(t) ==
  LET s == Least(held[t])
  IN  /\ pc[t] = "rollback"
      /\ Set(s, "PENDING")
      /\ held' = [held EXCEPT ![t] = @ \ {s}]
      /\ IF held[t] = {s} THEN Restart(t) ELSE Search(t, "rollback", list[t], cur[t])
      /\ Quiet /\ UNCHANGED <<con, bucket, calls>>

(***************************************************************************)
(* After a match: a simplification rule consumes all it used; a simpaga-   *)
(* tion rule what is consumable, and the rest goes back to PENDING.  Then  *)
(* the body runs.                                                          *)
(***************************************************************************)
Settled(l) == IF Rules[l.rule].simpagation THEN l.eat \o l.used ELSE l.used
\* A variant that forgets that heads are kept.
ConsumesAll(l, i) == TRUE
Consumes(l, i) == ~Rules[l.rule].simpagation \/ i <= Len(l.eat)

Consume(t) ==
  LET l == list[t]
      s == Settled(l)[cur[t].at]
  IN  /\ pc[t] = "consume"
      /\ IF state[s] = "CLAIMED"
         THEN Set(s, IF Consumes(l, cur[t].at) THEN "CONSUMED" ELSE "PENDING") ELSE state' = state
      /\ held' = [held EXCEPT ![t] = @ \ {s}]
      /\ IF cur[t].at = Len(Settled(l)) THEN Search(t, "body", l, NoScan)
         ELSE Search(t, "consume", l, At(cur[t].at + 1))
      /\ Quiet /\ UNCHANGED <<con, bucket, calls>>

RunBody(t) ==
  /\ pc[t] = "body"
  /\ calls' = [calls EXCEPT ![t] = Body(list[t].rule, Ordered(list[t])) \o @]
  /\ Return(t, TRUE, mode = "OPTIMISTIC")
  /\ Quiet /\ UNCHANGED <<store, held>>

Trying(t) ==
  \/ ClaimGoal(t) \/ Stolen(t) \/ TryGoal(t) \/ TryFirstRule(t) \/ Again(t) \/ Open(t) \/ Look(t)
  \/ ClaimHere(t) \/ Saw(t) \/ GiveBack(t) \/ Commit(t) \/ Rollback(t) \/ Consume(t) \/ RunBody(t)

Step(t) == Adding(t) \/ Looping(t) \/ Driving(t) \/ Trying(t)

Done ==
  /\ tasks = << >> /\ ~batch.due
  /\ \A t \in Thread : pc[t] = "ready" /\ calls[t] = << >> /\ Goal(t) = None
Terminated == Done /\ UNCHANGED vars

Next == (\E t \in Thread : Step(t)) \/ Terminated
Spec == Init /\ [][Next]_vars
FairSpec == Spec /\ \A t \in Thread : WF_vars(Step(t))
==============================================================================
