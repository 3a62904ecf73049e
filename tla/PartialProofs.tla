----------------------------- MODULE PartialProofs ---------------------------
(***************************************************************************)
(* Proofs about Partial, for any programs and threads and for plain rules: *)
(* its type invariant, the owners of the claims, and that it refines the   *)
(* multiset rewriting of CHR.                                              *)
(***************************************************************************)
EXTENDS Partial, EngineProofs

\* Plain rules are orderly.
LEMMA PlainOrderly == Plain => Orderly
BY DEF Plain, Apart, Orderly, OrderlyRule

\* A complete and tidy match claims something.
LEMMA CompleteUses ==
  ASSUME TypeOK, NEW l, GoodList(l), Tidy(l), Complete(l.rule, l.m)
  PROVE  l.used # << >>
<1>1. l.rule \in RuleId /\ l.m \in Match(l.rule, Known)  BY DEF GoodList
<1>2. Rules[l.rule].keep \in Nat /\ Rules[l.rule].keep < Len(Rules[l.rule].heads)
  BY <1>1, KeptHeadNumbers, RulesAssumption
<1>3. Heads(l.rule) = 1..Len(Rules[l.rule].heads) /\ Len(Rules[l.rule].heads) \in Nat
  BY <1>1, HeadNumbers
<1>4. 1 \in Heads(l.rule)  BY <1>2, <1>3
<1>5. PICK s : s = l.m[1]  OBVIOUS
<1>6. s \in Status
  <2>1. s \in Maybe /\ s # None  BY <1>1, <1>4, <1>5 DEF Match, Complete, Matched, Maybe
  <2> QED  BY <2>1, Stati DEF Maybe
<1>7. 1 \in Fiber(Heads(l.rule), l.m, s)  BY <1>4, <1>5 DEF Fiber
<1>8. IsFiniteSet(Fiber(Heads(l.rule), l.m, s))
  <2>1. IsFiniteSet(Heads(l.rule))  BY <1>3, FS_Interval
  <2> QED  BY <2>1, FS_Subset DEF Fiber
<1>9. Cardinality(Fiber(Heads(l.rule), l.m, s)) # 0  BY <1>7, <1>8, FS_EmptySet
<1>10. Number(l.used, {s}) # 0  BY <1>6, <1>9 DEF Tidy
<1> SUFFICES ASSUME l.used = << >> PROVE FALSE  OBVIOUS
<1>11. Pick(l.used, {s}) = {}  BY DEF Pick
<1> QED  BY <1>10, <1>11, FS_EmptySet DEF Number

\* The status that could not be claimed is in the match, and leaves it tidy.
LEMMA RemoveUsed ==
  ASSUME Plain, TypeOK, NEW k, GoodList(k), Tidy(k), NEW i \in DOMAIN k.used,
         NEW l, l = Remove(k, k.used[i])
  PROVE  GoodList(l) /\ Tidy(l)
<1>1. PICK s : s = k.used[i]  OBVIOUS
<1>2. k.used \in Seq(Known) /\ k.rule \in RuleId  BY DEF GoodList, List
<1>3. s \in Known /\ Known \subseteq Status /\ Known \subseteq Nat
  BY <1>1, <1>2, LenProperties, ElementOfSeq, Stati
<1>4. i \in Pick(k.used, {s})  BY <1>1 DEF Pick
<1>5. IsFiniteSet(Pick(k.used, {s}))
  <2>1. DOMAIN k.used = 1..Len(k.used) /\ Len(k.used) \in Nat  BY <1>2, LenProperties
  <2>2. 1 \in Int /\ Len(k.used) \in Int  BY <2>1
  <2>3. IsFiniteSet(DOMAIN k.used)  BY <2>1, <2>2, FS_Interval
  <2> QED  BY <2>3, FS_Subset DEF Pick
<1>6. Number(k.used, {s}) # 0  BY <1>4, <1>5, FS_EmptySet DEF Number
<1>7. Cardinality(Fiber(Heads(k.rule), k.m, s)) # 0  BY <1>3, <1>6 DEF Tidy
<1>8. Fiber(Heads(k.rule), k.m, s) # {}  BY <1>7, FS_EmptySet
<1>9. \E h \in Heads(k.rule) : k.m[h] = s  BY <1>8 DEF Fiber
<1>10. DistinctNames(k.rule) /\ ~Rules[k.rule].simpagation  BY <1>2 DEF Plain, Apart
<1> QED  BY <1>1, <1>3, <1>9, <1>10, RemoveGood, RemoveTidy

(***************************************************************************)
(* What the steps of the loop have in common: from a tidy checklist they   *)
(* go to a place that looks at no entry, or they leave.                    *)
(***************************************************************************)
LEMMA LoopSearch ==
  ASSUME Plain, TidyAll, NEW t \in Thread, NEW p \in {"open", "commit", "again", "againclaims"},
         NEW l, GoodList(l), Tidy(l), NEW c \in Cursor, Search(t, p, l, c),
         p = "open" => c.stack = << >>, p = "commit" => Complete(l.rule, l.m) /\ c = Rewound,
         UNCHANGED <<store, tasks, used_mode, calls, keys, held>>, held[t] = {}, Goal(t) # None
  PROVE  IInv' /\ TidyInv(t)'
<1> USE DEF TidyAll
<1>1. p = "commit" => l.used # << >>  BY CompleteUses DEF IInv, EngineInv
<1>2. IInv'  BY <1>1, SearchStep
<1>3. con' = con /\ bucket' = bucket /\ held' = held  BY DEF store
<1>4. p = "open" => Stacked(l, c.stack)  BY DEF Stacked, Plain, GoodList
<1>5. TidyInv(t)'  BY <1>3, <1>4, SameTypes, TidySearch DEF IInv, EngineInv
<1> QED  BY <1>2, <1>5

LEMMA LoopReturns ==
  ASSUME TidyAll, NEW t \in Thread, NEW fired, NEW retry, Return(t, fired, retry),
         UNCHANGED <<store, tasks, used_mode, calls, keys, held>>, held[t] = {}, Goal(t) # None
  PROVE  IInv' /\ TidyInv(t)'
BY SearchReturns, TidyReturn DEF TidyAll, IInv, EngineInv

\* After a failed claim the loop goes on without the status, or ends.
LEMMA NextAttemptGoes ==
  ASSUME Plain, TidyAll, NEW t \in Thread, NextAttempt(t), pc[t] \in {"commit", "rollback"}
  PROVE  \E l : /\ GoodList(l) /\ Tidy(l)
                /\ Return(t, FALSE, TRUE) \/ Search(t, "again", l, Rewound)
<1>1. GoodList(list[t]) /\ Tidy(list[t]) /\ cur[t].at \in DOMAIN list[t].used
  BY DEF TidyAll, TidyInv, IInv, EngineInv, ThreadInv, SearchInv, Matching, Whole
<1>2. PICK l : /\ l = Remove(list[t], list[t].used[cur[t].at])
               /\ Return(t, FALSE, TRUE) \/ Search(t, "again", l, Rewound)
  BY DEF NextAttempt, Leave
<1>3. GoodList(l) /\ Tidy(l)  BY <1>1, <1>2, RemoveUsed DEF TidyAll, IInv, EngineInv
<1> QED  BY <1>2, <1>3

(***************************************************************************)
(* The steps of try_goal_sj_opt_partial_restart2.                          *)
(***************************************************************************)
LEMMA TryGoalKeeps ==
  ASSUME Plain, TidyAll, NEW t \in Thread, TryGoal(t) PROVE IInv' /\ TidyInv(t)'
<1>1. /\ held[t] = {} /\ Goal(t) # None /\ RulesAfter(t) # {}
      /\ UNCHANGED <<store, tasks, used_mode, calls, keys, held>>
  BY DEF TryGoal, TidyAll, IInv, EngineInv, ThreadInv, Empty
<1>2. PICK l : /\ l = Add(NewChecklist(Least(RulesAfter(t))), Goal(t))
               /\ Search(t, "again", l, Rewound)
  BY DEF TryGoal
<1>3. GoodList(l)  BY <1>1, <1>2, RuleStarts DEF TidyAll, IInv, EngineInv
<1>4. Tidy(l)  BY <1>1, <1>2, StartsTidy, PlainOrderly DEF TidyAll, IInv, EngineInv
<1> QED  BY <1>1, <1>2, <1>3, <1>4, RewoundTyped, LoopSearch

LEMMA AttemptKeeps ==
  ASSUME Plain, TidyAll, NEW t \in Thread, Attempt(t), pc[t] \in {"again", "againclaims"},
         UNCHANGED <<store, tasks, used_mode, calls, keys, held>>
  PROVE  IInv' /\ TidyInv(t)'
<1>1. held[t] = {} /\ Goal(t) # None /\ GoodList(list[t]) /\ Tidy(list[t])
  BY DEF TidyAll, TidyInv, IInv, EngineInv, ThreadInv, Empty, Matching
<1>2. PICK p \in {"open", "commit"} :
        /\ Search(t, p, list[t], Rewound)
        /\ p = "commit" => Complete(list[t].rule, list[t].m)
  BY DEF Attempt
<1>3. Rewound.stack = << >>  BY DEF Rewound
<1> QED  BY <1>1, <1>2, <1>3, RewoundTyped, LoopSearch

LEMMA AgainKeeps ==
  ASSUME Plain, TidyAll, NEW t \in Thread, Again(t) PROVE IInv' /\ TidyInv(t)'
<1>1. pc[t] = "again" /\ UNCHANGED <<store, tasks, used_mode, calls, keys, held>>  BY DEF Again
<1>2. CASE Attempt(t)  BY <1>1, <1>2, AttemptKeeps
<1>3. CASE Search(t, "againclaims", list[t], cur[t])
  <2>1. held[t] = {} /\ Goal(t) # None /\ GoodList(list[t]) /\ Tidy(list[t]) /\ cur[t] \in Cursor
    BY <1>1 DEF TidyAll, TidyInv, IInv, EngineInv, TypeOK, ThreadInv, Empty, Matching
  <2> QED  BY <1>1, <1>3, <2>1, LoopSearch
<1> QED  BY <1>2, <1>3 DEF Again

LEMMA AgainClaimsKeeps ==
  ASSUME Plain, TidyAll, NEW t \in Thread, AgainClaims(t) PROVE IInv' /\ TidyInv(t)'
<1>1. /\ pc[t] = "againclaims" /\ held[t] = {} /\ Goal(t) # None
      /\ UNCHANGED <<store, tasks, used_mode, calls, keys, held>>
  BY DEF AgainClaims, TidyAll, IInv, EngineInv, ThreadInv, Empty
<1>2. CASE Attempt(t)  BY <1>1, <1>2, AttemptKeeps
<1>3. CASE Return(t, FALSE, TRUE)  BY <1>1, <1>3, LoopReturns
<1> QED  BY <1>2, <1>3 DEF AgainClaims, Leave

\* The search of try_matching2: the next entry, the place before, or the end.
LEMMA ScanKeeps ==
  ASSUME Plain, TidyAll, NEW t \in Thread, NEW c \in Cursor, c.stop <= Len(Bucket(c.bkt)),
         Scan(t, c), c.stack = cur[t].stack, pc[t] \in {"open", "pending", "claims"},
         UNCHANGED <<store, tasks, used_mode, calls, keys, held>>
  PROVE  IInv' /\ TidyInv(t)'
<1>1. /\ held[t] = {} /\ Goal(t) # None /\ GoodList(list[t]) /\ Tidy(list[t])
      /\ Stacked(list[t], c.stack) /\ IInv
      /\ con' = con /\ bucket' = bucket /\ held' = held
  BY DEF TidyAll, TidyInv, IInv, EngineInv, SearchInv, ThreadInv, Matching, store
<1>2. CASE Exhausted(t, c)
  <2>1. Return(t, FALSE, FALSE)  BY <1>2 DEF Scan, Leave
  <2> QED  BY <1>1, <2>1, LoopReturns
<1>3. CASE ~Exhausted(t, c)
  <2>1. ScanOn(t, c)  BY <1>3 DEF Scan
  <2>2. IInv'  BY <1>1, <1>3, <2>1, ScanOnInv
  <2> QED  BY <1>1, <1>3, <2>1, <2>2, ScanOnTidy
<1> QED  BY <1>2, <1>3

LEMMA OpenBucketKeeps ==
  ASSUME Plain, TidyAll, NEW t \in Thread, OpenBucket(t) PROVE IInv' /\ TidyInv(t)'
<1> DEFINE c == Opened(t, Hint(list[t].rule, list[t].m))
<1>1. /\ pc[t] = "open" /\ Scan(t, c)
      /\ UNCHANGED <<store, tasks, used_mode, calls, keys, held>>
  BY DEF OpenBucket
<1>2. c \in Cursor /\ c.stop <= Len(Bucket(c.bkt)) /\ c.stack = cur[t].stack
  BY OpenedTyped DEF TidyAll, IInv, EngineInv
<1> HIDE DEF c
<1> QED  BY <1>1, <1>2, ScanKeeps

LEMMA LoadClaimsKeeps ==
  ASSUME Plain, TidyAll, NEW t \in Thread, LoadClaims(t) PROVE IInv' /\ TidyInv(t)'
<1> DEFINE c == [cur[t] EXCEPT !.at = @ + 1]
<1>1. /\ pc[t] = "claims" /\ con' = con /\ bucket' = bucket /\ held' = held
      /\ UNCHANGED <<store, tasks, used_mode, calls, keys, held>>
  BY DEF LoadClaims, store
<1>2. CASE AddHere(t)
  <2>1. IInv'  BY <1>1, <1>2, AddHereInv DEF TidyAll
  <2>2. TidyInv(t)'  BY <1>1, <1>2, AddHereTidy, PlainOrderly DEF TidyAll
  <2> QED  BY <2>1, <2>2
<1>3. CASE Scan(t, c)
  <2>1. c \in Cursor /\ c.stop <= Len(Bucket(c.bkt)) /\ c.stack = cur[t].stack
    BY <1>1, PassedTyped DEF TidyAll, IInv, EngineInv, SearchInv
  <2> HIDE DEF c
  <2> QED  BY <1>1, <1>3, <2>1, ScanKeeps
<1> QED  BY <1>2, <1>3 DEF LoadClaims

LEMMA ClaimFailsKeeps ==
  ASSUME Plain, TidyAll, NEW t \in Thread, ClaimFails(t) PROVE IInv' /\ TidyInv(t)'
<1>1. /\ pc[t] = "commit" /\ Goal(t) # None /\ con' = con /\ held' = held
      /\ UNCHANGED <<store, tasks, used_mode, calls, keys, held>>
  BY DEF ClaimFails, TidyAll, IInv, EngineInv, ThreadInv, Matching, store
<1>2. CASE held[t] = {}
  <2>1. NextAttempt(t)  BY <1>2 DEF ClaimFails
  <2>2. PICK l : /\ GoodList(l) /\ Tidy(l)
                 /\ Return(t, FALSE, TRUE) \/ Search(t, "again", l, Rewound)
    BY <1>1, <2>1, NextAttemptGoes
  <2> QED  BY <1>1, <1>2, <2>2, RewoundTyped, LoopSearch, LoopReturns
<1>3. CASE held[t] # {}
  <2>1. Search(t, "rollback", list[t], cur[t])  BY <1>3 DEF ClaimFails
  <2>2. IInv'  BY <1>1, <1>3, <2>1, RollbackBegins DEF TidyAll
  <2> QED  BY <1>1, <2>1, <2>2, RollbackBeginsTidy DEF TidyAll
<1> QED  BY <1>2, <1>3

\* What Rollback does, as the lemmas about GiveBack ask for it.
LEMMA RollbackGoes ==
  ASSUME Plain, TidyAll, NEW t \in Thread, Rollback(t)
  PROVE  /\ GiveBack(t)
         /\ \E l : /\ GoodList(l) /\ Tidy(l)
                   /\ IF held[t] = {Least(held[t])}
                      THEN Return(t, FALSE, TRUE) \/ Search(t, "again", l, Rewound)
                      ELSE Search(t, "rollback", list[t], cur[t])
<1>1. GiveBack(t) /\ pc[t] = "rollback"  BY DEF Rollback, GiveBack
<1>2. CASE held[t] = {Least(held[t])}
  <2>1. NextAttempt(t)  BY <1>2 DEF Rollback
  <2> QED  BY <1>1, <1>2, <2>1, NextAttemptGoes
<1>3. CASE held[t] # {Least(held[t])}
  <2>1. Search(t, "rollback", list[t], cur[t])  BY <1>3 DEF Rollback
  <2>2. GoodList(list[t]) /\ Tidy(list[t])
    BY <1>1 DEF TidyAll, TidyInv, IInv, EngineInv, ThreadInv, Matching
  <2> QED  BY <1>1, <1>3, <2>1, <2>2
<1> QED  BY <1>2, <1>3

LEMMA RollbackKeeps ==
  ASSUME Plain, TidyAll, NEW t \in Thread, Rollback(t) PROVE IInv' /\ TidyInv(t)'
<1>1. GiveBack(t)  BY RollbackGoes
<1>2. PICK l : /\ GoodList(l) /\ Tidy(l)
               /\ IF held[t] = {Least(held[t])}
                  THEN Return(t, FALSE, TRUE) \/ Search(t, "again", l, Rewound)
                  ELSE Search(t, "rollback", list[t], cur[t])
  BY RollbackGoes
<1>3. IInv'  BY <1>1, <1>2, GiveBackInv DEF TidyAll
<1>4. TidyInv(t)'  BY <1>1, <1>2, GiveBackTidy DEF TidyAll
<1> QED  BY <1>3, <1>4

LEMMA StepFrame ==
  ASSUME TypeOK, NEW t \in Thread,
         \/ TryGoal(t) \/ Again(t) \/ AgainClaims(t) \/ OpenBucket(t) \/ LoadPending(t)
         \/ LoadClaims(t) \/ ClaimFails(t) \/ Rollback(t)
  PROVE  Searches(t) /\ Frame(t) /\ Grown /\ Longer
<1>1. Searches(t)
  <2>1. ASSUME NEW retry, Leave(t, retry) PROVE Searches(t)  BY <2>1 DEF Leave, Searches
  <2>2. ASSUME NEW p \in {"open", "pending", "claims", "commit", "again", "againclaims", "rollback"},
               NEW l, NEW c, Search(t, p, l, c)
        PROVE  Searches(t)
    BY <2>2 DEF Searches
  <2>3. Attempt(t) => Searches(t)  BY <2>2 DEF Attempt
  <2>4. \A c : Scan(t, c) => Searches(t)  BY <2>1, Searching DEF Scan
  <2>5. NextAttempt(t) => Searches(t)  BY <2>1, <2>2 DEF NextAttempt
  <2>6. CASE TryGoal(t)  BY <2>2, <2>6 DEF TryGoal
  <2>7. CASE Again(t) \/ AgainClaims(t)  BY <2>1, <2>2, <2>3, <2>7 DEF Again, AgainClaims
  <2>8. CASE OpenBucket(t)  BY <2>4, <2>8 DEF OpenBucket
  <2>9. CASE LoadPending(t)  BY <2>9, Searching
  <2>10. CASE LoadClaims(t)  BY <2>4, <2>10, Searching DEF LoadClaims
  <2>11. CASE ClaimFails(t) \/ Rollback(t)  BY <2>2, <2>5, <2>11 DEF ClaimFails, Rollback
  <2> QED  BY <2>6, <2>7, <2>8, <2>9, <2>10, <2>11
<1>2. CASE Rollback(t)
  <2>1. \A u \in Thread \ {t} : held'[u] = held[u]  BY <1>2 DEF Rollback, GiveBack, TypeOK
  <2> QED  BY <1>1, <1>2, <2>1, SearchFrame DEF Rollback, GiveBack
<1>3. CASE UNCHANGED <<store, tasks, used_mode, calls, keys, held>>  BY <1>1, <1>3, SearchFrame
<1> QED  BY <1>1, <1>2, <1>3
         DEF TryGoal, Again, AgainClaims, OpenBucket, LoadPending, LoadClaims, ClaimFails

LEMMA StepKeeps ==
  ASSUME Plain, TidyAll, NEW t \in Thread, Step(t) PROVE TidyAll'
<1> USE DEF TidyAll
<1>1. IInv' /\ TidyInv(t)' /\ Frame(t) /\ Grown /\ Longer
  <2>1. ASSUME NEW silent, Common(t) \/ ConsumeUse(t, silent)
        PROVE  IInv' /\ TidyInv(t)' /\ Frame(t) /\ Grown /\ Longer
    <3>1. Frame(t) /\ Grown /\ Longer
      BY <2>1, CommonInv, CommonLonger, ConsumeUseInv, ConsumeUseLonger DEF IInv
    <3>2. IInv'  BY <2>1, SharedSteps
    <3> QED  BY <2>1, <3>1, <3>2, SharedTidy
  <2>2. CASE Common(t) \/ ConsumeClaimed(t)  BY <2>1, <2>2 DEF ConsumeClaimed
  <2>3. CASE ClaimAll(t)  BY <2>3, ClaimInv, ClaimTidy, ClaimFrame DEF ClaimAll
  <2>4. CASE \/ TryGoal(t) \/ Again(t) \/ AgainClaims(t) \/ OpenBucket(t) \/ LoadPending(t)
             \/ LoadClaims(t) \/ ClaimFails(t) \/ Rollback(t)
    <3>1. Frame(t) /\ Grown /\ Longer  BY <2>4, StepFrame DEF IInv, EngineInv
    <3>2. LoadPending(t) => IInv' /\ TidyInv(t)'  BY LoadPendingInv, LoadPendingTidy, PlainOrderly
    <3> QED  BY <2>4, <3>1, <3>2, TryGoalKeeps, AgainKeeps, AgainClaimsKeeps, OpenBucketKeeps,
                LoadClaimsKeeps, ClaimFailsKeeps, RollbackKeeps
  <2> QED  BY <2>2, <2>3, <2>4 DEF Step, Try
<1>2. \A u \in Thread \ {t} : TidyInv(u)'  BY <1>1, OtherTidy DEF Frame, IInv, EngineInv
<1> QED  BY <1>1, <1>2

\* In OPTIMISTIC_PARTIAL_RESTART, of plain rules, what a checklist uses is what its
\* heads match, through every status that leaves it after a failed claim.
THEOREM TidyInvariance == Plain => (Spec => []TidyAll)
<1>1. SUFFICES ASSUME Plain PROVE Spec => []TidyAll  OBVIOUS
<1>2. InitPartial => TidyAll
  BY TidyInitially, Initially DEF InitPartial, TidyAll, IInv, Init, SearchInv
<1>3. TidyAll /\ [Next]_partialVars => TidyAll'
  <2> SUFFICES ASSUME TidyAll, [Next]_partialVars PROVE TidyAll'  OBVIOUS
  <2>1. ASSUME NEW t \in Thread, Step(t) PROVE TidyAll'  BY <1>1, <2>1, StepKeeps
  <2>2. CASE UNCHANGED vars  BY <2>2, Stutter, TidyStutter DEF TidyAll
  <2> QED  BY <2>1, <2>2 DEF Next, Terminated, partialVars
<1> QED  BY <1>2, <1>3, PTL DEF Spec

\* Every status that a bucket, a task, a checklist or a place of a search mentions
\* has been allocated, and the checklist of a thread is one of a rule.
THEOREM TypeCorrect == Plain => (Spec => []TypeOK)
<1>1. SUFFICES ASSUME Plain PROVE Spec => []TypeOK  OBVIOUS
<1>2. TidyAll => TypeOK  BY DEF TidyAll, IInv, EngineInv
<1> QED  BY <1>1, <1>2, TidyInvariance, PTL

\* In OPTIMISTIC_PARTIAL_RESTART the claimed half of every status word is the number
\* of uses that threads have claimed and neither consumed nor rolled back.
THEOREM ClaimsHaveOwners == Plain => (Spec => []ClaimsOwned)
<1>1. SUFFICES ASSUME Plain PROVE Spec => []ClaimsOwned  OBVIOUS
<1>2. TidyAll => ClaimsOwned  BY DEF TidyAll, IInv, EngineInv
<1> QED  BY <1>1, <1>2, TidyInvariance, PTL

\* README.md:16, "the found constraints are locked": in OPTIMISTIC_PARTIAL_RESTART
\* what a thread claims and consumes for a plain rule is what the rule's heads
\* matched, however far a smaller match rewound the search.
THEOREM MatchedClaimed == Plain => (Spec => []ClaimsAreMatched)
<1>1. SUFFICES ASSUME Plain PROVE Spec => []ClaimsAreMatched  OBVIOUS
<1> QED  BY <1>1, TidyReturns, TidyInvariance, PTL

LEMMA StepRewrites ==
  ASSUME Plain, TidyAll, TidyAll', NEW t \in Thread, Step(t)
  PROVE  Abstract!Next
<1>1. IInv /\ IInv' /\ \A u \in Thread : TidyInv(u)  BY DEF TidyAll
<1>2. EngineInv /\ EngineInv' /\ TypeOK /\ HeldIn  BY <1>1 DEF IInv, EngineInv, TidyInv, HeldIn
<1>3. pc[t] \in {"try", "again", "againclaims", "open", "pending", "claims"} =>
        ~Firing(t) /\ held[t] = {}
  BY <1>1, <1>2 DEF Firing, EngineInv, ThreadInv, IInv, SearchInv, Empty
<1>4. CASE Common(t)  BY <1>2, <1>4, CommonStep
<1>5. CASE ConsumeClaimed(t)  BY <1>2, <1>5, AfterUseStep DEF ConsumeClaimed
<1>6. CASE ClaimAll(t)  BY <1>1, <1>6, ClaimStep, PlainOrderly DEF ClaimAll
<1>7. CASE \/ TryGoal(t) \/ Again(t) \/ AgainClaims(t) \/ OpenBucket(t) \/ LoadPending(t)
           \/ LoadClaims(t)
  <2>1. Searches(t)  BY <1>2, <1>7, StepFrame
  <2>2. /\ pc[t] \in {"try", "again", "againclaims", "open", "pending", "claims"}
        /\ UNCHANGED <<store, tasks, used_mode, calls, keys, held>>
    BY <1>7 DEF TryGoal, Again, AgainClaims, OpenBucket, LoadPending, LoadClaims
  <2> QED  BY <1>1, <1>3, <2>1, <2>2, SearchIdle
<1>8. CASE ClaimFails(t)
  <2>1. pc[t] = "commit" /\ ~Firing(t)  BY <1>8 DEF ClaimFails, Firing
  <2>2. CASE held[t] = {}
    <3>1. Searches(t)  BY <1>2, <1>8, StepFrame
    <3> QED  BY <1>1, <1>8, <2>1, <2>2, <3>1, SearchIdle DEF ClaimFails
  <2>3. CASE held[t] # {}  BY <1>1, <1>8, <2>1, <2>3, RollbackBeginsIdle DEF ClaimFails
  <2> QED  BY <2>2, <2>3
<1>9. CASE Rollback(t)
  <2>1. GiveBack(t)  BY <1>9, RollbackGoes
  <2>2. PICK l : IF held[t] = {Least(held[t])}
                 THEN Return(t, FALSE, TRUE) \/ Search(t, "again", l, Rewound)
                 ELSE Search(t, "rollback", list[t], cur[t])
    BY <1>9, RollbackGoes
  <2> QED  BY <1>1, <2>1, <2>2, GiveBackStep
<1> QED  BY <1>4, <1>5, <1>6, <1>7, <1>8, <1>9 DEF Step, Try

\* OPTIMISTIC_PARTIAL_RESTART refines CHR for all plain rules, programs and threads:
\* its searches, claims, rollbacks and smaller matches lose, duplicate or mismatch
\* no constraint, and no two rules take the same one.
THEOREM Rewriting == Plain => (Spec => MultisetRewriting)
<1>1. SUFFICES ASSUME Plain PROVE Spec => MultisetRewriting  OBVIOUS
<1>2. TidyAll /\ TidyAll' /\ [Next]_partialVars => [Abstract!Next]_<<Live, Owed>>
  BY <1>1, StepRewrites, StutterStep DEF Next, Terminated, partialVars
<1>3. InitPartial => Abstract!Init  BY InitRewrites DEF InitPartial
<1> QED  BY <1>1, <1>2, <1>3, TidyInvariance, PTL DEF Spec, MultisetRewriting, Abstract!Spec
==============================================================================
