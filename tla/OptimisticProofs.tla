--------------------------- MODULE OptimisticProofs --------------------------
(***************************************************************************)
(* Proofs about Optimistic, for any rules, programs and threads: its       *)
(* inductive invariant, that its checklists stay tidy, that the callers of *)
(* sync are served, and that it refines the multiset rewriting of CHR.     *)
(***************************************************************************)
EXTENDS Optimistic, EngineProofs

(***************************************************************************)
(* The steps of try_goal_sj_opt2 keep IInv.                                *)
(***************************************************************************)
\* The next rule starts its search, or its claims if the goal is all it needs.
LEMMA NextRuleStarts ==
  ASSUME TypeOK, NEW t \in Thread, NextRule(t, "commit", FALSE), Goal(t) # None
  PROVE  \/ Return(t, FALSE, FALSE)
         \/ /\ RulesAfter(t) # {}
            /\ \E p \in {"open", "commit"} : \E l :
                 /\ l = Add(NewChecklist(Least(RulesAfter(t))), Goal(t))
                 /\ GoodList(l) /\ l.used # << >>
                 /\ Search(t, p, l, Rewound)
                 /\ p = "commit" => Complete(l.rule, l.m)
<1>1. CASE RulesAfter(t) = {}  BY <1>1 DEF NextRule
<1>2. CASE RulesAfter(t) # {}
  <2> DEFINE r == Least(RulesAfter(t))
             l == Add(NewChecklist(r), Goal(t))
             p == IF Complete(r, l.m) THEN "commit" ELSE "open"
  <2>1. Search(t, p, l, Rewound)  BY <1>2 DEF NextRule
  <2>2. GoodList(l) /\ l.rule = r /\ l.used # << >>  BY <1>2, RuleStarts
  <2>3. p \in {"open", "commit"} /\ (p = "commit" => Complete(l.rule, l.m))  BY <2>2
  <2> HIDE DEF p
  <2> QED  BY <1>2, <2>1, <2>2, <2>3
<1> QED  BY <1>1, <1>2

LEMMA NextRuleInv ==
  ASSUME IInv, NEW t \in Thread, NextRule(t, "commit", FALSE),
         UNCHANGED <<store, tasks, used_mode, calls, keys, held>>, held[t] = {}, Goal(t) # None
  PROVE  IInv'
<1>1. CASE Return(t, FALSE, FALSE)  BY <1>1, SearchReturns
<1>2. CASE \E p \in {"open", "commit"} : \E l :
             /\ GoodList(l) /\ l.used # << >> /\ Search(t, p, l, Rewound)
             /\ p = "commit" => Complete(l.rule, l.m)
  <2>1. PICK p, l :
          /\ p \in {"open", "commit"}
          /\ GoodList(l) /\ l.used # << >> /\ Search(t, p, l, Rewound)
          /\ p = "commit" => Complete(l.rule, l.m)
    BY <1>2
  <2> QED  BY <2>1, RewoundTyped, SearchStep
<1> QED  BY <1>1, <1>2, NextRuleStarts DEF IInv, EngineInv

\* The next entry of the bucket, the entry before it on the stack, or the next rule.
LEMMA ScanInv ==
  ASSUME IInv, NEW t \in Thread, NEW c \in Cursor, c.stop <= Len(Bucket(c.bkt)),
         Scan(t, c), GoodList(list[t]),
         UNCHANGED <<store, tasks, used_mode, calls, keys, held>>, held[t] = {}, Goal(t) # None
  PROVE  IInv'
<1>1. CASE Exhausted(t, c)  BY <1>1, NextRuleInv DEF Scan
<1>2. CASE ~Exhausted(t, c)  BY <1>2, ScanOnInv DEF Scan
<1> QED  BY <1>1, <1>2

LEMMA TryGoalInv == ASSUME IInv, NEW t \in Thread, TryGoal(t) PROVE IInv'
<1>1. held[t] = {} /\ Goal(t) # None
  BY DEF TryGoal, IInv, EngineInv, ThreadInv, Empty
<1> QED  BY <1>1, NextRuleInv DEF TryGoal

LEMMA OpenBucketInv == ASSUME IInv, NEW t \in Thread, OpenBucket(t) PROVE IInv'
<1> DEFINE c == Opened(t, Hint(list[t].rule, list[t].m))
<1>1. /\ pc[t] = "open" /\ Scan(t, c)
      /\ UNCHANGED <<store, tasks, used_mode, calls, keys, held>>
  BY DEF OpenBucket
<1>2. held[t] = {} /\ Goal(t) # None /\ GoodList(list[t])
  BY <1>1 DEF IInv, EngineInv, SearchInv, ThreadInv, Matching
<1>3. c \in Cursor /\ c.stop <= Len(Bucket(c.bkt))  BY OpenedTyped DEF IInv, EngineInv
<1> HIDE DEF c
<1> QED  BY <1>1, <1>2, <1>3, ScanInv

LEMMA LoadClaimsInv == ASSUME IInv, NEW t \in Thread, LoadClaims(t) PROVE IInv'
<1> DEFINE c == [cur[t] EXCEPT !.at = @ + 1]
<1>1. CASE AddHere(t)  BY <1>1, AddHereInv DEF LoadClaims
<1>2. CASE Scan(t, c)
  <2>1. pc[t] = "claims" /\ held[t] = {} /\ Goal(t) # None /\ GoodList(list[t])
    BY DEF LoadClaims, IInv, EngineInv, SearchInv, ThreadInv, Matching
  <2>2. c \in Cursor /\ c.stop <= Len(Bucket(c.bkt))
    BY <2>1, PassedTyped DEF IInv, EngineInv, SearchInv
  <2> HIDE DEF c
  <2> QED  BY <1>2, <2>1, <2>2, ScanInv DEF LoadClaims
<1> QED  BY <1>1, <1>2 DEF LoadClaims

LEMMA ClaimFailsInv == ASSUME IInv, NEW t \in Thread, ClaimFails(t) PROVE IInv'
<1>1. pc[t] = "commit" /\ Goal(t) # None
  BY DEF ClaimFails, IInv, EngineInv, ThreadInv, Matching
<1>2. CASE held[t] = {}  BY <1>1, <1>2, SearchReturns DEF ClaimFails
<1>3. CASE held[t] # {}  BY <1>1, <1>3, RollbackBegins DEF ClaimFails
<1> QED  BY <1>2, <1>3

LEMMA RollbackInv == ASSUME IInv, NEW t \in Thread, Rollback(t) PROVE IInv'
<1>1. PICK l : l = list[t]  OBVIOUS
<1>2. pc[t] = "rollback"  BY DEF Rollback, GiveBack
<1>3. GoodList(l)  BY <1>1, <1>2 DEF IInv, EngineInv, ThreadInv, Matching
<1> QED  BY <1>3, GiveBackInv DEF Rollback

\* IInv is inductive: it holds when the program starts, and every step of every
\* thread in OPTIMISTIC_RESTART keeps it.
THEOREM Invariance == Spec => []IInv
<1>1. Init => IInv
  <2>1. ASSUME Init PROVE \A t \in Thread : SearchInv(t)  BY <2>1 DEF Init, SearchInv
  <2> QED  BY <2>1, Initially DEF IInv
<1>2. IInv /\ [Next]_vars => IInv'
  <2> SUFFICES ASSUME IInv, [Next]_vars PROVE IInv'  OBVIOUS
  <2>1. ASSUME NEW t \in Thread, Common(t) \/ Consume(t) PROVE IInv'
    BY <2>1, SharedSteps DEF Consume
  <2>2. ASSUME NEW t \in Thread, TryGoal(t) PROVE IInv'  BY <2>2, TryGoalInv
  <2>3. ASSUME NEW t \in Thread, OpenBucket(t) PROVE IInv'  BY <2>3, OpenBucketInv
  <2>4. ASSUME NEW t \in Thread, LoadPending(t) PROVE IInv'  BY <2>4, LoadPendingInv
  <2>5. ASSUME NEW t \in Thread, LoadClaims(t) PROVE IInv'  BY <2>5, LoadClaimsInv
  <2>6. ASSUME NEW t \in Thread, Claim(t) PROVE IInv'  BY <2>6, ClaimInv
  <2>7. ASSUME NEW t \in Thread, ClaimFails(t) PROVE IInv'  BY <2>7, ClaimFailsInv
  <2>8. ASSUME NEW t \in Thread, Rollback(t) PROVE IInv'  BY <2>8, RollbackInv
  <2>9. CASE UNCHANGED vars  BY <2>9, Stutter
  <2> QED  BY <2>1, <2>2, <2>3, <2>4, <2>5, <2>6, <2>7, <2>8, <2>9
           DEF Next, Step, Try, Terminated
<1> QED  BY <1>1, <1>2, PTL DEF Spec

\* Every status that a bucket, a task, a checklist or a place of a search mentions
\* has been allocated, and a thread's checklist is one of a rule of the program.
THEOREM TypeCorrect == Spec => []TypeOK
<1>1. IInv => TypeOK  BY DEF IInv, EngineInv
<1> QED  BY <1>1, Invariance, PTL

\* In OPTIMISTIC_RESTART the claimed half of every status word is the number of
\* uses that searching threads have claimed and neither consumed nor rolled back.
THEOREM ClaimsHaveOwners == Spec => []ClaimsOwned
<1>1. IInv => ClaimsOwned  BY DEF IInv, EngineInv
<1> QED  BY <1>1, Invariance, PTL

\* In OPTIMISTIC_RESTART consume() and rollback() never find a word without a claim:
\* the if in them is never false.
THEOREM NoneUnclaimed == Spec => []NeverUnclaimed
BY ClaimedOnes, Invariance, PTL

(***************************************************************************)
(* They keep the checklists of orderly rules tidy.                         *)
(***************************************************************************)
LEMMA NextRuleTidy ==
  ASSUME Orderly, IInv, NEW t \in Thread, NextRule(t, "commit", FALSE), con' = con,
         bucket' = bucket, held' = held, held[t] = {}, Goal(t) # None
  PROVE  TidyInv(t)'
<1> USE DEF IInv, EngineInv
<1>1. CASE Return(t, FALSE, FALSE)  BY <1>1, TidyReturn
<1>2. CASE RulesAfter(t) # {} /\ \E p \in {"open", "commit"} : \E l :
             /\ l = Add(NewChecklist(Least(RulesAfter(t))), Goal(t))
             /\ GoodList(l) /\ Search(t, p, l, Rewound)
  <2>1. PICK p, l :
          /\ p \in {"open", "commit"}
          /\ l = Add(NewChecklist(Least(RulesAfter(t))), Goal(t))
          /\ GoodList(l) /\ Search(t, p, l, Rewound)
    BY <1>2
  <2>2. Tidy(l) /\ Stacked(l, << >>)  BY <1>2, <2>1, StartsTidy
  <2>3. Rewound.stack = << >>  BY DEF Rewound
  <2> QED  BY <2>1, <2>2, <2>3, SameTypes, TidySearch
<1> QED  BY <1>1, <1>2, NextRuleStarts

LEMMA ScanTidy ==
  ASSUME Orderly, IInv, NEW t \in Thread, NEW c \in Cursor, c.stop <= Len(Bucket(c.bkt)),
         Scan(t, c), GoodList(list[t]), Tidy(list[t]), Stacked(list[t], c.stack),
         con' = con, bucket' = bucket, held' = held, held[t] = {}, Goal(t) # None
  PROVE  TidyInv(t)'
<1>1. CASE Exhausted(t, c)  BY <1>1, NextRuleTidy DEF Scan
<1>2. CASE ~Exhausted(t, c)  BY <1>2, ScanOnTidy DEF Scan
<1> QED  BY <1>1, <1>2

LEMMA StepFrame ==
  ASSUME IInv, NEW t \in Thread, Step(t)
  PROVE  Frame(t) /\ Grown /\ Longer
<1> USE DEF IInv, EngineInv
<1>1. CASE Common(t) \/ Consume(t)
  BY <1>1, CommonInv, CommonLonger, ConsumeUseInv, ConsumeUseLonger DEF Consume
<1>2. NextRule(t, "commit", FALSE) => Searches(t)  BY DEF NextRule, Searches
<1>3. \A c : Scan(t, c) => Searches(t)  BY <1>2, Searching DEF Scan
<1>4. CASE TryGoal(t)  BY <1>2, <1>4, SearchFrame DEF TryGoal
<1>5. CASE OpenBucket(t)  BY <1>3, <1>5, SearchFrame DEF OpenBucket
<1>6. CASE LoadPending(t)  BY <1>6, Searching, SearchFrame DEF LoadPending
<1>7. CASE LoadClaims(t)  BY <1>3, <1>7, Searching, SearchFrame DEF LoadClaims
<1>8. CASE Claim(t)  BY <1>8, ClaimFrame
<1>9. CASE ClaimFails(t)
  <2>1. Searches(t)  BY <1>9 DEF ClaimFails, Searches
  <2> QED  BY <1>9, <2>1, SearchFrame DEF ClaimFails
<1>10. CASE Rollback(t)
  <2>1. Searches(t)  BY <1>10 DEF Rollback, Searches
  <2>2. \A u \in Thread \ {t} : held'[u] = held[u]  BY <1>10 DEF Rollback, GiveBack, TypeOK
  <2> QED  BY <1>10, <2>1, <2>2, SearchFrame DEF Rollback, GiveBack
<1> QED  BY <1>1, <1>4, <1>5, <1>6, <1>7, <1>8, <1>9, <1>10 DEF Step, Try

LEMMA TidyStep ==
  ASSUME Orderly, IInv, IInv', \A u \in Thread : TidyInv(u), NEW t \in Thread, Step(t)
  PROVE  \A u \in Thread : TidyInv(u)'
<1> USE DEF IInv, EngineInv
<1>1. Frame(t) /\ Grown /\ Longer  BY StepFrame
<1>2. \A u \in Thread \ {t} : TidyInv(u)'  BY <1>1, OtherTidy DEF Frame
<1>3. TidyInv(t)'
  <2>1. CASE Common(t) \/ Consume(t)  BY <2>1, SharedTidy DEF Consume
  <2>2. CASE TryGoal(t)
    <3>1. held[t] = {} /\ Goal(t) # None  BY <2>2 DEF TryGoal, ThreadInv, Empty
    <3> QED  BY <2>2, <3>1, NextRuleTidy DEF TryGoal, store
  <2>3. CASE OpenBucket(t)
    <3> DEFINE c == Opened(t, Hint(list[t].rule, list[t].m))
    <3>1. /\ pc[t] = "open" /\ Scan(t, c) /\ con' = con /\ bucket' = bucket /\ held' = held
      BY <2>3 DEF OpenBucket, store
    <3>2. /\ held[t] = {} /\ Goal(t) # None /\ GoodList(list[t]) /\ Tidy(list[t])
          /\ Stacked(list[t], cur[t].stack)
      BY <3>1 DEF SearchInv, ThreadInv, Matching, TidyInv
    <3>3. c \in Cursor /\ c.stop <= Len(Bucket(c.bkt)) /\ c.stack = cur[t].stack  BY OpenedTyped
    <3> HIDE DEF c
    <3> QED  BY <3>1, <3>2, <3>3, ScanTidy
  <2>4. CASE LoadPending(t)  BY <2>4, LoadPendingTidy
  <2>5. CASE LoadClaims(t)
    <3> DEFINE c == [cur[t] EXCEPT !.at = @ + 1]
    <3>1. pc[t] = "claims" /\ con' = con /\ bucket' = bucket /\ held' = held
      BY <2>5 DEF LoadClaims, store
    <3>2. CASE AddHere(t)  BY <3>1, <3>2, AddHereTidy
    <3>3. CASE Scan(t, c)
      <4>1. /\ held[t] = {} /\ Goal(t) # None /\ GoodList(list[t]) /\ Tidy(list[t])
            /\ Stacked(list[t], cur[t].stack)
        BY <3>1 DEF SearchInv, ThreadInv, Matching, TidyInv
      <4>2. c \in Cursor /\ c.stop <= Len(Bucket(c.bkt)) /\ c.stack = cur[t].stack
        BY <3>1, PassedTyped DEF IInv, EngineInv, SearchInv
      <4> HIDE DEF c
      <4> QED  BY <3>1, <3>3, <4>1, <4>2, ScanTidy
    <3> QED  BY <2>5, <3>2, <3>3 DEF LoadClaims
  <2>6. CASE Claim(t)  BY <2>6, ClaimTidy
  <2>7. CASE ClaimFails(t)
    <3>1. pc[t] = "commit" /\ con' = con /\ held' = held  BY <2>7 DEF ClaimFails, store
    <3>2. CASE held[t] = {}  BY <2>7, <3>1, <3>2, TidyReturn DEF ClaimFails
    <3>3. CASE held[t] # {}  BY <2>7, <3>1, <3>3, RollbackBeginsTidy DEF ClaimFails
    <3> QED  BY <3>2, <3>3
  <2>8. CASE Rollback(t)
    <3>1. PICK l : l = list[t]  OBVIOUS
    <3>2. GoodList(l)  BY <2>8, <3>1 DEF Rollback, GiveBack, ThreadInv, Matching
    <3> QED  BY <2>8, <3>2, GiveBackTidy DEF Rollback
  <2> QED  BY <2>1, <2>2, <2>3, <2>4, <2>5, <2>6, <2>7, <2>8 DEF Step, Try
<1> QED  BY <1>2, <1>3

LEMMA TidyNext ==
  ASSUME Orderly, TidyAll, IInv', [Next]_vars PROVE TidyAll'
<1>1. CASE \E t \in Thread : Step(t)  BY <1>1, TidyStep DEF TidyAll
<1>2. CASE UNCHANGED vars  BY <1>2, TidyStutter DEF TidyAll
<1> QED  BY <1>1, <1>2 DEF Next, Terminated

\* In OPTIMISTIC_RESTART the checklists of orderly rules are tidy: what they use,
\* keep and spare is what their heads match, whatever partners the search tried
\* and took back.
THEOREM TidyInvariance == Orderly => (Spec => []TidyAll)
<1>1. SUFFICES ASSUME Orderly PROVE Spec => []TidyAll  OBVIOUS
<1>2. Init => TidyAll  BY TidyInitially, Initially DEF TidyAll, IInv, Init, SearchInv
<1>3. TidyAll /\ IInv' /\ [Next]_vars => TidyAll'  BY <1>1, TidyNext
<1> QED  BY <1>2, <1>3, Invariance, PTL DEF Spec

\* Rule.h:50, "only those are consumed": in OPTIMISTIC_RESTART an orderly
\* simpagation rule adds again what its kept heads matched and nothing else.
THEOREM KeptReturn == Orderly => (Spec => []KeptHeadsReturn)
<1>1. SUFFICES ASSUME Orderly PROVE Spec => []KeptHeadsReturn  OBVIOUS
<1> QED  BY <1>1, TidyReturns, TidyInvariance, PTL

\* README.md:16, "the found constraints are locked": in OPTIMISTIC_RESTART what a
\* thread claims and consumes for an orderly rule is what the rule's heads matched.
THEOREM MatchedClaimed == Orderly => (Spec => []ClaimsAreMatched)
<1>1. SUFFICES ASSUME Orderly PROVE Spec => []ClaimsAreMatched  OBVIOUS
<1> QED  BY <1>1, TidyReturns, TidyInvariance, PTL

(***************************************************************************)
(* They serve the callers of sync.                                         *)
(***************************************************************************)
LEMMA NextRuleSync ==
  ASSUME IInv, IInv', SyncAll, NEW t \in Thread, ~Firing(t), NextRule(t, "commit", FALSE),
         UNCHANGED <<store, tasks, used_mode, calls, keys, held>>, Goal(t) # None
  PROVE  SyncAll'
<1> USE DEF IInv, EngineInv
<1>1. CASE Return(t, FALSE, FALSE)  BY <1>1, SyncAllReturns
<1>2. CASE RulesAfter(t) # {} /\ \E p \in {"open", "commit"} : \E l :
             /\ l = Add(NewChecklist(Least(RulesAfter(t))), Goal(t))
             /\ Search(t, p, l, Rewound)
  <2>1. PICK p, l :
          /\ p \in {"open", "commit"}
          /\ l = Add(NewChecklist(Least(RulesAfter(t))), Goal(t))
          /\ Search(t, p, l, Rewound)
    BY <1>2
  <2>2. l.used = Append(<< >>, Goal(t))  BY <2>1 DEF Add, NewChecklist
  <2>3. Led(l, Goal(t))
    <3>1. << >> \in Seq({Goal(t)}) /\ Len(<< >>) = 0  BY EmptySeq
    <3>2. /\ Append(<< >>, Goal(t)) \in Seq({Goal(t)}) /\ Len(Append(<< >>, Goal(t))) = 0 + 1
          /\ Append(<< >>, Goal(t))[0 + 1] = Goal(t)
      BY <3>1, AppendProperties
    <3> QED  BY <2>2, <3>2, EmptySeq DEF Led
  <2>4. Partners(Rewound.stack, Goal(t))  BY DEF Rewound, Partners
  <2> QED  BY <2>1, <2>3, <2>4, SyncSearch
<1> QED  BY <1>1, <1>2, NextRuleStarts

LEMMA ScanSync ==
  ASSUME TidyAll, IInv', SyncAll, NEW t \in Thread, pc[t] \in {"open", "pending", "claims"},
         NEW c \in Cursor, c.stack = cur[t].stack, Scan(t, c),
         UNCHANGED <<store, tasks, used_mode, calls, keys, held>>
  PROVE  SyncAll'
<1>1. /\ GoodList(list[t]) /\ Tidy(list[t]) /\ Stacked(list[t], c.stack) /\ Goal(t) # None
      /\ Led(list[t], Goal(t)) /\ ~Firing(t)
      /\ Partners(c.stack, Goal(t))
  BY DEF TidyAll, IInv, EngineInv, ThreadInv, Matching, TidyInv, SyncAll, SyncInv, CallerInv,
         Firing, Rooted
<1>2. CASE Exhausted(t, c)  BY <1>1, <1>2, NextRuleSync DEF Scan, TidyAll
<1>3. CASE ~Exhausted(t, c)  BY <1>1, <1>3, ScanOnSync DEF Scan
<1> QED  BY <1>2, <1>3

LEMMA SyncNext ==
  ASSUME Orderly, TidyAll, IInv', SyncAll, NEW t \in Thread, Step(t)
  PROVE  SyncAll'
<1> USE DEF TidyAll, IInv, EngineInv
<1>1. CASE Common(t) \/ Consume(t)  BY <1>1, SharedSync
<1>2. CASE TryGoal(t)
  <2>1. Goal(t) # None /\ ~Firing(t)  BY <1>2 DEF TryGoal, ThreadInv, Firing
  <2> QED  BY <1>2, <2>1, NextRuleSync DEF TryGoal
<1>3. CASE OpenBucket(t)
  <2> DEFINE c == Opened(t, Hint(list[t].rule, list[t].m))
  <2>1. c \in Cursor /\ c.stack = cur[t].stack  BY OpenedTyped
  <2>2. Scan(t, c)  BY <1>3 DEF OpenBucket
  <2> HIDE DEF c
  <2> QED  BY <1>3, <2>1, <2>2, ScanSync DEF OpenBucket
<1>4. CASE LoadPending(t)  BY <1>4, LoadPendingSync
<1>5. CASE LoadClaims(t)
  <2> DEFINE c == [cur[t] EXCEPT !.at = @ + 1]
  <2>1. pc[t] = "claims"  BY <1>5 DEF LoadClaims
  <2>2. CASE AddHere(t)  BY <1>5, <2>1, <2>2, AddHereSync DEF LoadClaims
  <2>3. CASE Scan(t, c)
    <3>1. c \in Cursor /\ c.stack = cur[t].stack
      BY <2>1, PassedTyped DEF TidyAll, IInv, EngineInv, SearchInv
    <3> HIDE DEF c
    <3> QED  BY <1>5, <2>1, <2>3, <3>1, ScanSync DEF LoadClaims
  <2> QED  BY <1>5, <2>2, <2>3 DEF LoadClaims
<1>6. CASE Claim(t)  BY <1>6, ClaimSync
<1>7. CASE ClaimFails(t)
  <2>1. pc[t] = "commit" /\ Goal(t) # None /\ ~Firing(t)  BY <1>7 DEF ClaimFails, ThreadInv, Firing
  <2>2. CASE held[t] = {}  BY <1>7, <2>1, <2>2, SyncAllReturns DEF ClaimFails
  <2>3. CASE held[t] # {}  BY <1>7, <2>1, <2>3, RollbackBeginsSync DEF ClaimFails
  <2> QED  BY <2>2, <2>3
<1>8. CASE Rollback(t)  BY <1>8, GiveBackSync DEF Rollback
<1> QED  BY <1>1, <1>2, <1>3, <1>4, <1>5, <1>6, <1>7, <1>8 DEF Step, Try

\* In OPTIMISTIC_RESTART with orderly rules no caller of sync waits for a constraint
\* that was taken without leaving it a token, and no token lets a caller return
\* whose constraint is not taken.
THEOREM SyncsAreServed == Orderly => (Spec => []SyncServed)
<1>1. SUFFICES ASSUME Orderly PROVE Spec => []SyncServed  OBVIOUS
<1>2. Init => SyncAll
  <2>1. ASSUME Init PROVE \A t \in Thread : Rooted(t)  BY <2>1 DEF Init, Rooted
  <2> QED  BY <2>1, SyncInitially DEF SyncAll
<1>3. TidyAll /\ IInv' /\ SyncAll /\ [Next]_vars => SyncAll'
  <2> SUFFICES ASSUME TidyAll, IInv', SyncAll, [Next]_vars PROVE SyncAll'  OBVIOUS
  <2>1. CASE \E t \in Thread : Step(t)  BY <1>1, <2>1, SyncNext
  <2>2. CASE UNCHANGED vars
    <3>1. \A t \in Thread : Rooted(t)'  BY <2>2 DEF vars, local, SyncAll, Rooted, Goal
    <3> QED  BY <2>2, <3>1, SyncStutter DEF SyncAll
  <2> QED  BY <2>1, <2>2 DEF Next, Terminated
<1>4. SyncAll => SyncServed  BY DEF SyncAll, SyncInv
<1> QED  BY <1>2, <1>3, <1>4, Invariance, TidyInvariance, <1>1, PTL DEF Spec

(***************************************************************************)
(* They try a goal before sync waits for it.                               *)
(***************************************************************************)
LEMMA TryTried ==
  ASSUME IInv, TriedInv, NEW t \in Thread, Try(t)
  PROVE  TriedInv'
<1> USE DEF IInv, EngineInv
<1>1. NextRule(t, "commit", FALSE) => Searches(t)  BY DEF NextRule, Searches
<1>2. \A c : Scan(t, c) => Searches(t)  BY <1>1, Searching DEF Scan
<1>3. CASE Searches(t) /\ UNCHANGED <<con, mod, used_mode, calls>>
           /\ pc[t] \notin {"allocate", "index", "enqueue"}
  <2>1. CASE \E fired, retry : Return(t, fired, retry)
    <3>1. Quiet(t)  BY <2>1, ReturnQuiet
    <3> QED  BY <1>3, <2>1, <3>1, TriedLoop
  <2>2. CASE \E p \in {"open", "pending", "claims", "commit", "again", "againclaims", "rollback"} : \E l, c :
               Search(t, p, l, c)
    <3>1. Quiet(t) /\ job'[t] = job[t] /\ pc'[t] \notin {"allocate", "poll", "wait"}
      BY <2>2, SearchQuiet
    <3> QED  BY <1>3, <2>2, <3>1, TriedLoop
  <2> QED  BY <1>3, <2>1, <2>2 DEF Searches
<1>4. CASE TryGoal(t) \/ OpenBucket(t) \/ LoadPending(t) \/ LoadClaims(t) \/ ClaimFails(t)
  <2>1. Searches(t)
    BY <1>1, <1>2, <1>4, Searching DEF TryGoal, OpenBucket, LoadClaims, ClaimFails, Searches
  <2>2. /\ UNCHANGED <<con, mod, used_mode, calls>>
        /\ pc[t] \notin {"allocate", "index", "enqueue"}
    BY <1>4 DEF TryGoal, OpenBucket, LoadPending, LoadClaims, ClaimFails, store
  <2> QED  BY <1>3, <2>1, <2>2
<1>5. CASE Rollback(t)
  <2>1. /\ UNCHANGED <<con, mod, used_mode, calls>>
        /\ pc[t] \notin {"allocate", "index", "enqueue"}
    BY <1>5 DEF Rollback, GiveBack
  <2>2. Searches(t)  BY <1>5 DEF Rollback, Searches
  <2> QED  BY <1>3, <2>1, <2>2
<1>6. CASE Claim(t)
  <2>1. PICK p \in {"consume", "commit"} : \E l, c : Search(t, p, l, c)  BY <1>6 DEF Claim
  <2>2. Quiet(t) /\ job'[t] = job[t] /\ pc'[t] \in {"consume", "commit"}  BY <2>1, SearchQuiet
  <2>3. UNCHANGED <<con, mod, used_mode, calls>> /\ pc[t] = "commit"  BY <1>6 DEF Claim
  <2> QED  BY <2>2, <2>3, TriedLoop
<1>7. CASE Consume(t)  BY <1>7, ConsumeTried DEF Consume
<1> QED  BY <1>4, <1>5, <1>6, <1>7 DEF Try

\* WorkerCHR.cpp:31-33: in OPTIMISTIC_RESTART sync blocks only on a goal that the
\* rules have been tried on, in programs with orderly rules in which a call of
\* async sets used_mode_ before sync adds what a rule may keep.
THEOREM TriedGoalsWait == Orderly /\ ModeIsSet => (Spec => []OnlyTriedGoalsWait)
<1>1. SUFFICES ASSUME Orderly, ModeIsSet PROVE Spec => []OnlyTriedGoalsWait  OBVIOUS
<1>2. Init => TriedInv  BY <1>1, TriedInitially
<1>3. TidyAll /\ TriedInv /\ [Next]_vars => TriedInv'
  <2> SUFFICES ASSUME TidyAll, TriedInv, [Next]_vars PROVE TriedInv'  OBVIOUS
  <2>1. ASSUME NEW t \in Thread, Step(t) PROVE TriedInv'
    <3>1. IInv /\ EngineInv /\ (pc[t] = "body" => Tidy(list[t]))
      BY DEF TidyAll, IInv, TidyInv, Matching
    <3> QED  BY <1>1, <2>1, <3>1, CommonTried, TryTried DEF Step
  <2>2. CASE UNCHANGED vars  BY <2>2, TriedStutter
  <2> QED  BY <2>1, <2>2 DEF Next, Terminated
<1>4. TriedInv => OnlyTriedGoalsWait  BY TriedWaits
<1> QED  BY <1>1, <1>2, <1>3, <1>4, TidyInvariance, PTL DEF Spec

(***************************************************************************)
(* They are steps of CHR.                                                  *)
(***************************************************************************)
LEMMA StepRewrites ==
  ASSUME Orderly, TidyAll, TidyAll', NEW t \in Thread, Step(t)
  PROVE  Abstract!Next
<1>1. IInv /\ IInv' /\ \A u \in Thread : TidyInv(u)  BY DEF TidyAll
<1>2. EngineInv /\ EngineInv' /\ HeldIn  BY <1>1 DEF IInv, TidyInv, HeldIn
<1>3. pc[t] \in {"try", "open", "pending", "claims"} => ~Firing(t) /\ held[t] = {}
  BY <1>1, <1>2 DEF Firing, EngineInv, ThreadInv, IInv, SearchInv, Empty
<1>4. NextRule(t, "commit", FALSE) => Searches(t)  BY DEF NextRule, Searches
<1>5. \A c : Scan(t, c) => Searches(t)  BY <1>4, Searching DEF Scan
<1>6. CASE Common(t)  BY <1>2, <1>6, CommonStep
<1>7. CASE TryGoal(t)  BY <1>1, <1>3, <1>4, <1>7, SearchIdle DEF TryGoal
<1>8. CASE OpenBucket(t)  BY <1>1, <1>3, <1>5, <1>8, SearchIdle DEF OpenBucket
<1>9. CASE LoadPending(t)
  BY <1>1, <1>3, <1>9, Searching, SearchIdle DEF LoadPending
<1>10. CASE LoadClaims(t)
  BY <1>1, <1>3, <1>5, <1>10, Searching, SearchIdle DEF LoadClaims
<1>11. CASE Claim(t)  BY <1>1, <1>11, ClaimStep
<1>12. CASE ClaimFails(t)
  <2>1. pc[t] = "commit" /\ ~Firing(t)  BY <1>12 DEF ClaimFails, Firing
  <2>2. CASE held[t] = {}
    <3>1. Searches(t)  BY <1>12 DEF ClaimFails, Searches
    <3> QED  BY <1>1, <1>12, <2>1, <2>2, <3>1, SearchIdle DEF ClaimFails
  <2>3. CASE held[t] # {}
    BY <1>1, <1>12, <2>1, <2>3, RollbackBeginsIdle DEF ClaimFails
  <2> QED  BY <2>2, <2>3
<1>13. CASE Rollback(t)
  <2>1. PICK l : l = list[t]  OBVIOUS
  <2> QED  BY <1>1, <1>13, <2>1, GiveBackStep DEF Rollback
<1>14. CASE Consume(t)  BY <1>2, <1>14, AfterUseStep DEF Consume
<1> QED  BY <1>6, <1>7, <1>8, <1>9, <1>10, <1>11, <1>12, <1>13, <1>14 DEF Step, Try

\* OPTIMISTIC_RESTART refines CHR, for all orderly rules, programs and threads: the
\* loads, claims, rollbacks, consumes and re-adds of all threads, in any order,
\* lose, duplicate or mismatch no constraint, and no two rules take the same one.
THEOREM Rewriting == Orderly => (Spec => MultisetRewriting)
<1>1. SUFFICES ASSUME Orderly PROVE Spec => MultisetRewriting  OBVIOUS
<1>2. TidyAll /\ TidyAll' /\ [Next]_vars => [Abstract!Next]_<<Live, Owed>>
  BY <1>1, StepRewrites, StutterStep DEF Next, Terminated
<1>3. Init => Abstract!Init  BY InitRewrites
<1> QED  BY <1>1, <1>2, <1>3, TidyInvariance, PTL DEF Spec, MultisetRewriting, Abstract!Spec
==============================================================================
