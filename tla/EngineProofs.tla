---------------------------- MODULE EngineProofs -----------------------------
(***************************************************************************)
(* Proofs about Engine: what the steps that the strategies share preserve, *)
(* what each of them does to the live constraints and to the calls that    *)
(* are owed, and to the copies and the callers of a constraint that only   *)
(* sync adds; and what the search that the two optimistic strategies share *)
(* keeps.  For any rules, programs and threads.                            *)
(***************************************************************************)
EXTENDS OptimisticSearch, EngineProperties, ChecklistProofs

\* Where a thread has a checklist in use, where its match is complete, and where
\* it holds no claim.
Matching == {"open", "pending", "claims", "claim", "sawclaims", "sawpending", "undo", "rollback",
             "commit", "consume", "token", "body", "again", "againclaims"}
Whole == {"commit", "consume", "token", "body"}
Empty == {"ready", "allocate", "index", "enqueue", "check", "try", "recheck", "body", "poll", "wait",
          "again", "againclaims"}

ThreadInv(t) ==
  /\ pc[t] \notin {"ready", "allocate"} => Goal(t) # None
  /\ pc[t] = "allocate" => calls[t] # << >>
  /\ pc[t] \in Matching => GoodList(list[t])
  /\ pc[t] \in Whole => Complete(list[t].rule, list[t].m)
  /\ pc[t] \in Whole \ {"body"} => cur[t].at \in DOMAIN list[t].used
  /\ pc[t] \in Empty => held[t] = {}
  /\ pc[t] = "consume" => held[t] = cur[t].at..Len(list[t].used)
  /\ pc[t] = "token" => held[t] = (cur[t].at + 1)..Len(list[t].used)
  /\ IsFiniteSet(held[t])

EngineInv == TypeOK /\ ClaimsOwned /\ \A t \in Thread : ThreadInv(t)

(***************************************************************************)
(* The frame of a step: the other threads stay as they are, and the stati  *)
(* allocated so far stay what they are.                                    *)
(***************************************************************************)
Same(u) == /\ pc'[u] = pc[u] /\ calls'[u] = calls[u] /\ job'[u] = job[u]
           /\ list'[u] = list[u] /\ cur'[u] = cur[u] /\ held'[u] = held[u]
Frame(t) == \A u \in Thread \ {t} : Same(u)

LEMMA Stati ==
  ASSUME TypeOK
  PROVE  /\ Known = 1..Len(con) /\ Len(con) \in Nat /\ Known \subseteq Status
         /\ Known \subseteq Nat \ {0} /\ None \notin Known
<1>1. Known = 1..Len(con) /\ Len(con) \in Nat  BY LenProperties DEF TypeOK, Known
<1>2. Len(con) <= MaxStatus /\ MaxStatus \in Nat  BY RulesAssumption DEF TypeOK
<1> QED  BY <1>1, <1>2 DEF Status, None

\* A step that allocates nothing leaves the types alone.
LEMMA SameTypes ==
  ASSUME con' = con
  PROVE  /\ Known' = Known /\ Maybe' = Maybe /\ Task' = Task /\ Job' = Job
         /\ List' = List /\ Cursor' = Cursor /\ Grown
BY DEF Known, Maybe, Task, Job, List, Place, Cursor, Grown

LEMMA GoodListStable ==
  ASSUME NEW l, GoodList(l), Grown
  PROVE  GoodList(l)' /\ (Complete(l.rule, l.m) => Complete(l.rule, l.m)')
<1>1. Known \subseteq Known' /\ Maybe \subseteq Maybe'  BY DEF Grown, Maybe
<1>2. l \in [rule : Nat, m : Seq(Maybe), used : Seq(Known), keep : Seq(Known), spare : SUBSET Nat]
  BY DEF GoodList, List
<1>3. l.m \in Seq(Maybe') /\ l.used \in Seq(Known') /\ l.keep \in Seq(Known')
  BY <1>1, <1>2, SeqMonotonic
<1>4. l \in List'  BY <1>2, <1>3 DEF List
<1>5. l.m \in Match(l.rule, Known')  BY <1>1 DEF GoodList, Match
<1>6. Named(l.rule, l.m)'  BY DEF GoodList, Named, Grown, Match
<1> QED  BY <1>4, <1>5, <1>6 DEF GoodList, Complete, Matched

LEMMA OtherThreads ==
  ASSUME NEW u \in Thread, ThreadInv(u), Grown, Same(u)
  PROVE  ThreadInv(u)'
<1>1. PICK l : l = list[u]  OBVIOUS
<1>2. list'[u] = l  BY <1>1 DEF Same
<1>3. GoodList(l) => GoodList(l)'  BY GoodListStable
<1>4. GoodList(l) /\ Complete(l.rule, l.m) => Complete(l.rule, l.m)'  BY GoodListStable
<1>5. GoodList(list[u]) => GoodList(list[u])'  BY <1>1, <1>2, <1>3
<1>6. GoodList(list[u]) /\ Complete(list[u].rule, list[u].m) => Complete(list[u].rule, list[u].m)'
  BY <1>1, <1>2, <1>4
<1> QED  BY <1>5, <1>6 DEF ThreadInv, Same, Goal

(***************************************************************************)
(* Counting the owners of a status.                                        *)
(***************************************************************************)
LEMMA OwnersFinite ==
  ASSUME \A u \in Thread : IsFiniteSet(held[u]), NEW s
  PROVE  IsFiniteSet(Owners(s)) /\ Cardinality(Owners(s)) \in Nat
<1> DEFINE H == {held[u] : u \in Thread}
           f == [u \in Thread |-> held[u]]
<1>1. f \in Surjection(Thread, H)  BY DEF Surjection
<1>2. IsFiniteSet(H)  BY <1>1, ThreadAssumption, FS_Surjection
<1>3. IsFiniteSet(Position)  BY <1>2, FS_UNION DEF Position
<1>4. IsFiniteSet(Thread \X Position)  BY <1>3, ThreadAssumption, FS_Product
<1>5. Owners(s) \in SUBSET (Thread \X Position)  BY DEF Owners
<1> QED  BY <1>4, <1>5, FS_Subset, FS_CardinalityType

LEMMA OwnerIs ==
  ASSUME NEW s, NEW o
  PROVE  o \in Owners(s) <=> \E u \in Thread : \E i \in held[u] : o = <<u, i>> /\ list[u].used[i] = s
BY DEF Owners, Position

\* Nothing is claimed or given up, and checklists with claims stay as they are.
LEMMA OwnersSame ==
  ASSUME NEW t \in Thread, Frame(t), held' = held,
         held[t] # {} => list'[t].used = list[t].used, NEW s
  PROVE  Owners(s)' = Owners(s)
<1>1. \A u \in Thread : held[u] # {} => list'[u].used = list[u].used  BY DEF Frame, Same
<1>2. Position' = Position  BY DEF Position
<1> QED  BY <1>1, <1>2 DEF Owners

\* The thread gives up one of its claims.
LEMMA OwnersDrop ==
  ASSUME NEW t \in Thread, Frame(t), held \in [Thread -> SUBSET Nat],
         NEW i \in held[t], held' = [held EXCEPT ![t] = @ \ {i}],
         held'[t] # {} => list'[t].used = list[t].used, NEW s
  PROVE  /\ Owners(s)' = Owners(s) \ {<<t, i>>}
         /\ <<t, i>> \in Owners(s) <=> list[t].used[i] = s
<1>1. \A u \in Thread : held'[u] = IF u = t THEN held[u] \ {i} ELSE held[u]  OBVIOUS
<1>2. \A u \in Thread : held'[u] # {} => list'[u].used = list[u].used  BY DEF Frame, Same
<1>3. ASSUME NEW o
      PROVE  o \in Owners(s)' <=> o \in Owners(s) \ {<<t, i>>}
  <2>1. o \in Owners(s)' <=>
          \E u \in Thread : \E j \in held'[u] : o = <<u, j>> /\ list'[u].used[j] = s
    BY DEF Owners, Position
  <2>2. o \in Owners(s)' <=>
          \E u \in Thread : \E j \in held'[u] : o = <<u, j>> /\ list[u].used[j] = s
    BY <1>2, <2>1
  <2> QED  BY <1>1, <2>2, OwnerIs
<1> QED  BY <1>3, OwnerIs

\* The thread claims the status at one more of its positions.
LEMMA OwnersAdd ==
  ASSUME NEW t \in Thread, Frame(t), held \in [Thread -> SUBSET Nat],
         NEW i \in Nat, i \notin held[t], held' = [held EXCEPT ![t] = @ \cup {i}],
         held[t] # {} => list'[t].used = list[t].used, NEW s
  PROVE  Owners(s)' = IF list'[t].used[i] = s THEN Owners(s) \cup {<<t, i>>} ELSE Owners(s)
<1>1. \A u \in Thread : held'[u] = IF u = t THEN held[u] \cup {i} ELSE held[u]  OBVIOUS
<1>2. \A u \in Thread : held[u] # {} => list'[u].used = list[u].used  BY DEF Frame, Same
<1>3. ASSUME NEW o
      PROVE  o \in Owners(s)' <=> o \in Owners(s) \/ (o = <<t, i>> /\ list'[t].used[i] = s)
  <2>1. o \in Owners(s)' <=>
          \E u \in Thread : \E j \in held'[u] : o = <<u, j>> /\ list'[u].used[j] = s
    BY DEF Owners, Position
  <2>2. o \in Owners(s) <=>
          \E u \in Thread : \E j \in held[u] : o = <<u, j>> /\ list'[u].used[j] = s
    BY <1>2, OwnerIs
  <2> QED  BY <1>1, <2>1, <2>2
<1> QED  BY <1>3

(***************************************************************************)
(* A step that changes no claim keeps the invariant if it keeps the types  *)
(* and what is said of its own thread.                                     *)
(***************************************************************************)
LEMMA QuietStep ==
  ASSUME EngineInv, NEW t \in Thread, Frame(t), Grown, TypeOK', ThreadInv(t)',
         claimed' = claimed, held' = held, held[t] # {} => list'[t].used = list[t].used
  PROVE  EngineInv'
<1>1. \A s : Owners(s)' = Owners(s)  BY OwnersSame
<1>2. ClaimsOwned'  BY <1>1 DEF EngineInv, ClaimsOwned
<1>3. \A u \in Thread : ThreadInv(u)'  BY OtherThreads DEF EngineInv, Frame
<1> QED  BY <1>2, <1>3 DEF EngineInv

LEMMA Initially == ASSUME Init PROVE EngineInv
<1>1. Rewound \in Cursor
  BY EmptySeq, RulesAssumption DEF Rewound, Cursor, Maybe
<1>2. NoJob \in Job  BY DEF NoJob, NewJob, Job, Maybe
<1>3. NoList \in List  BY EmptySeq DEF NoList, List
<1>4. calls \in [Thread -> Seq(Call)]
  BY ThreadAssumption, EmptySeq DEF Init, Thread
<1>5. TypeOK
  BY <1>1, <1>2, <1>3, <1>4, EmptySeq, RulesAssumption DEF Init, TypeOK, Mode, PC
<1>6. \A t \in Thread : ThreadInv(t)
  BY FS_EmptySet DEF Init, ThreadInv, Matching, Whole, Empty
<1>7. \A s : Owners(s) = {}  BY DEF Init, Owners
<1>8. ClaimsOwned  BY <1>7, FS_EmptySet DEF ClaimsOwned, Init
<1> QED  BY <1>5, <1>6, <1>8 DEF EngineInv

(***************************************************************************)
(* Leaving a checklist: the goal loop goes on, or the thread is ready.     *)
(***************************************************************************)
LEMMA RewoundTyped == Rewound \in Cursor /\ NoList \in List /\ NoJob \in Job
<1>1. Rewound \in Cursor
  BY EmptySeq, RulesAssumption DEF Rewound, Cursor, Maybe
<1>2. NoJob \in Job  BY DEF NoJob, NewJob, Job, Maybe
<1>3. NoList \in List  BY EmptySeq DEF NoList, List
<1> QED  BY <1>1, <1>2, <1>3

Looping == {"ready", "check", "poll", "wait"}

LEMMA ReturnEffect ==
  ASSUME TypeOK, NEW t \in Thread, NEW fired, NEW retry, Return(t, fired, retry)
  PROVE  /\ pc' \in [Thread -> PC] /\ job' \in [Thread -> Job]
         /\ list' \in [Thread -> List] /\ cur' \in [Thread -> Cursor]
         /\ pc'[t] \in Looping /\ (pc'[t] # "ready" => job'[t].goal = Goal(t))
         /\ \A u \in Thread \ {t} : /\ pc'[u] = pc[u] /\ job'[u] = job[u]
                                    /\ list'[u] = list[u] /\ cur'[u] = cur[u]
<1> DEFINE p == IF fired THEN "ready"
                ELSE IF job[t].op = "async" THEN (IF retry THEN "check" ELSE "ready")
                ELSE (IF retry THEN "poll" ELSE "wait")
           j == IF p = "ready" THEN NoJob ELSE [job[t] EXCEPT !.saw = FALSE]
<1>1. /\ pc' = [pc EXCEPT ![t] = p] /\ job' = [job EXCEPT ![t] = j]
      /\ list' = [list EXCEPT ![t] = NoList] /\ cur' = [cur EXCEPT ![t] = Rewound]
  BY DEF Return, Jump
<1>2. p \in Looping /\ p \in PC  BY DEF Looping, PC
<1>3. job[t] \in Job  BY DEF TypeOK
<1>4. j \in Job /\ (p # "ready" => j.goal = job[t].goal)
  BY <1>3, RewoundTyped DEF Job
<1> HIDE DEF p, j
<1> QED  BY <1>1, <1>2, <1>4, RewoundTyped DEF TypeOK, Goal

\* A thread that returns holds no claim, and knows its goal if it goes on.
LEMMA ReturnInv ==
  ASSUME TypeOK, NEW t \in Thread, NEW fired, NEW retry, Return(t, fired, retry),
         Goal(t) # None, held'[t] = {}
  PROVE  ThreadInv(t)'
<1>1. pc'[t] \in Looping /\ (pc'[t] # "ready" => job'[t].goal # None)
  BY ReturnEffect
<1> QED  BY <1>1, FS_EmptySet DEF ThreadInv, Looping, Matching, Whole, Empty, Goal

LEMMA EnqueueInv ==
  ASSUME EngineInv, NEW t \in Thread, Enqueue(t)
  PROVE  EngineInv' /\ Frame(t) /\ Grown
<1> USE DEF EngineInv
<1>1. con' = con  BY DEF Enqueue, store
<1>2. Frame(t) /\ Grown
  BY <1>1, SameTypes DEF Enqueue, Jump, Frame, Same, TypeOK
<1>3. Goal(t) \in Known /\ job[t] \in Job  BY DEF Enqueue, ThreadInv, TypeOK, Job, Maybe, Goal
<1>4. tasks' \in Seq(Task)
  <2>1. [goal |-> Goal(t), run |-> job[t].run] \in Task  BY <1>3 DEF Task, Job
  <2> QED  BY <2>1, AppendProperties DEF Enqueue, TypeOK
<1>5. TypeOK'
  BY <1>1, <1>4, SameTypes, RewoundTyped DEF Enqueue, Jump, TypeOK, store, PC
<1>6. ThreadInv(t)'
  BY FS_EmptySet DEF Enqueue, Jump, TypeOK, ThreadInv, Matching, Whole, Empty
<1> QED  BY <1>2, <1>5, <1>6, QuietStep DEF Enqueue, store

LEMMA TakeTaskInv ==
  ASSUME EngineInv, NEW t \in Thread, TakeTask(t)
  PROVE  EngineInv' /\ Frame(t) /\ Grown
<1> USE DEF EngineInv
<1>1. con' = con  BY DEF TakeTask, store
<1>2. Frame(t) /\ Grown
  BY <1>1, SameTypes DEF TakeTask, Jump, Frame, Same, TypeOK
<1>3. Head(tasks) \in Task /\ tasks' \in Seq(Task)
  BY HeadTailProperties DEF TakeTask, TypeOK
<1>4. NewJob(Head(tasks).goal, "async", Head(tasks).run) \in Job /\ Head(tasks).goal # None
  BY <1>3, Stati DEF Task, NewJob, Job, Maybe
<1>5. TypeOK'
  BY <1>1, <1>3, <1>4, SameTypes DEF TakeTask, Jump, TypeOK, store, PC
<1>6. ThreadInv(t)'
  BY <1>4, FS_EmptySet
  DEF TakeTask, Jump, TypeOK, ThreadInv, Matching, Whole, Empty, Goal, NewJob
<1> QED  BY <1>2, <1>5, <1>6, QuietStep DEF TakeTask, store

LEMMA CheckLiveInv ==
  ASSUME EngineInv, NEW t \in Thread, CheckLive(t)
  PROVE  EngineInv' /\ Frame(t) /\ Grown
<1> USE DEF EngineInv
<1>1. con' = con /\ UNCHANGED <<store, tasks, used_mode, calls, keys, held>>
  BY DEF CheckLive, store
<1>2. Grown  BY <1>1, SameTypes
<1>3. held[t] = {} /\ Goal(t) # None  BY DEF CheckLive, ThreadInv, Empty
<1>4. CASE Return(t, TRUE, FALSE)
  <2>1. Frame(t)  BY <1>1, <1>4, ReturnEffect DEF Frame, Same
  <2>2. TypeOK'  BY <1>1, <1>4, ReturnEffect, SameTypes DEF TypeOK, store
  <2>3. ThreadInv(t)'  BY <1>1, <1>3, <1>4, ReturnInv
  <2> QED  BY <1>1, <1>2, <1>3, <2>1, <2>2, <2>3, QuietStep DEF store
<1>5. CASE Jump(t, "try") /\ UNCHANGED <<job, list, cur>>
  <2>1. Frame(t)  BY <1>1, <1>5 DEF Frame, Same, Jump, TypeOK
  <2>2. TypeOK'  BY <1>1, <1>5, SameTypes DEF TypeOK, store, Jump, PC
  <2>3. ThreadInv(t)'
    BY <1>1, <1>3, <1>5, FS_EmptySet DEF ThreadInv, Jump, TypeOK, Matching, Whole, Empty, Goal
  <2> QED  BY <1>1, <1>2, <1>3, <2>1, <2>2, <2>3, QuietStep DEF store
<1> QED  BY <1>4, <1>5 DEF CheckLive

\* A return from a goal loop's attempt that changes nothing else but the tokens.
LEMMA ReturnStep ==
  ASSUME EngineInv, NEW t \in Thread, NEW fired, NEW retry, Return(t, fired, retry),
         UNCHANGED <<con, mod, pending, claimed, bucket, tasks, used_mode, keys, held>>,
         tokens' \in [Status -> Nat], calls' \in [Thread -> Seq(Call)],
         \A u \in Thread \ {t} : calls'[u] = calls[u],
         held[t] = {}, Goal(t) # None
  PROVE  EngineInv' /\ Frame(t) /\ Grown
<1> USE DEF EngineInv
<1>1. Grown  BY SameTypes
<1>2. Frame(t)  BY ReturnEffect DEF Frame, Same
<1>3. TypeOK'  BY ReturnEffect, SameTypes DEF TypeOK
<1>4. ThreadInv(t)'  BY ReturnInv
<1> QED  BY <1>1, <1>2, <1>3, <1>4, QuietStep

LEMMA NoModeInv ==
  ASSUME EngineInv, NEW t \in Thread, NoMode(t)
  PROVE  EngineInv' /\ Frame(t) /\ Grown
<1>1. held[t] = {} /\ Goal(t) # None  BY DEF NoMode, EngineInv, ThreadInv, Empty
<1>2. tokens' \in [Status -> Nat] /\ calls' \in [Thread -> Seq(Call)] /\ calls' = calls
  BY DEF NoMode, EngineInv, TypeOK, store
<1> QED  BY <1>1, <1>2, ReturnStep DEF NoMode, store

LEMMA PopTokenInv ==
  ASSUME EngineInv, NEW t \in Thread, PopToken(t)
  PROVE  EngineInv' /\ Frame(t) /\ Grown
<1>1. held[t] = {} /\ Goal(t) # None  BY DEF PopToken, EngineInv, ThreadInv, Empty
<1>2. Goal(t) \in Status  BY <1>1, Stati DEF EngineInv, TypeOK, Job, Maybe, Goal
<1>3. tokens' \in [Status -> Nat]
  <2>1. tokens[Goal(t)] \in Nat /\ tokens[Goal(t)] > 0  BY <1>2 DEF PopToken, EngineInv, TypeOK
  <2>2. tokens[Goal(t)] - 1 \in Nat  BY <2>1
  <2> QED  BY <2>2 DEF PopToken, EngineInv, TypeOK
<1>4. calls' \in [Thread -> Seq(Call)] /\ calls' = calls  BY DEF PopToken, EngineInv, TypeOK
<1> QED  BY <1>1, <1>3, <1>4, ReturnStep DEF PopToken

LEMMA NoTokenInv ==
  ASSUME EngineInv, NEW t \in Thread, NoToken(t)
  PROVE  EngineInv' /\ Frame(t) /\ Grown
<1> USE DEF EngineInv
<1>1. con' = con /\ UNCHANGED <<store, tasks, used_mode, calls, job, keys, list, cur, held>>
  BY DEF NoToken, store
<1>2. Grown /\ Frame(t)  BY <1>1, SameTypes DEF NoToken, Jump, Frame, Same, TypeOK
<1>3. TypeOK'  BY <1>1, SameTypes DEF NoToken, TypeOK, store, Jump, PC
<1>4. ThreadInv(t)'
  BY <1>1, FS_EmptySet DEF NoToken, ThreadInv, Jump, TypeOK, Matching, Whole, Empty, Goal
<1> QED  BY <1>1, <1>2, <1>3, <1>4, QuietStep DEF store

\* What the body of a rule and the kept constraints add are calls.
LEMMA EpilogueCalls ==
  ASSUME TypeOK, NEW l, GoodList(l), Complete(l.rule, l.m)
  PROVE  Epilogue(l) \in Seq(Call)
<1>1. /\ RuleOrdered(l) \in [Heads(l.rule) -> Con]
      /\ \A h \in Heads(l.rule) : RuleOrdered(l)[h].name = HeadName(l.rule, h)
  BY RuleOrderedNames DEF TypeOK
<1>2. Body(l.rule, RuleOrdered(l)) \in Seq(Call)  BY <1>1, ThreadAssumption DEF GoodList
<1>3. l.keep \in Seq(Known)  BY DEF GoodList, List
<1>4. DOMAIN l.keep = 1..Len(l.keep) /\ Len(l.keep) \in Nat  BY <1>3, LenProperties
<1>5. ASSUME NEW i \in DOMAIN l.keep PROVE Kept(l)[i] \in Call
  <2>1. l.keep[i] \in Known  BY <1>3, <1>4, <1>5, ElementOfSeq
  <2>2. con[l.keep[i]] \in Con  BY <2>1, LenProperties, ElementOfSeq DEF TypeOK, Known
  <2> QED  BY <2>2 DEF Kept, Call
<1>6. Kept(l) \in [1..Len(l.keep) -> Call]  BY <1>4, <1>5 DEF Kept
<1>7. Kept(l) \in Seq(Call)  BY <1>4, <1>6, SeqDef
<1> QED  BY <1>2, <1>7, ConcatProperties DEF Epilogue

LEMMA RunBodyInv ==
  ASSUME EngineInv, NEW t \in Thread, RunBody(t)
  PROVE  EngineInv' /\ Frame(t) /\ Grown
<1>1. held[t] = {} /\ Goal(t) # None /\ GoodList(list[t]) /\ Complete(list[t].rule, list[t].m)
  BY DEF RunBody, EngineInv, ThreadInv, Empty, Matching, Whole
<1>2. Epilogue(list[t]) \in Seq(Call)  BY <1>1, EpilogueCalls DEF EngineInv
<1>3. calls' \in [Thread -> Seq(Call)] /\ \A u \in Thread \ {t} : calls'[u] = calls[u]
  <2>1. calls[t] \in Seq(Call)  BY DEF EngineInv, TypeOK
  <2>2. Epilogue(list[t]) \o calls[t] \in Seq(Call)  BY <1>2, <2>1, ConcatProperties
  <2> QED  BY <2>2 DEF RunBody, EngineInv, TypeOK
<1>4. tokens' \in [Status -> Nat]  BY DEF RunBody, EngineInv, TypeOK, store
<1> QED  BY <1>1, <1>3, <1>4, ReturnStep DEF RunBody, store

(***************************************************************************)
(* Adding a constraint.                                                    *)
(***************************************************************************)
LEMMA InsertCountedInv ==
  ASSUME EngineInv, NEW t \in Thread, pc[t] = "ready", calls[t] # << >>,
         NEW c \in Con, NEW op \in {"async", "sync", "add"}, NEW run \in BOOLEAN,
         InsertCounted(t, c, op, run), used_mode' \in {"NONE", "SET"}
  PROVE  EngineInv' /\ Frame(t) /\ Grown
<1> USE DEF EngineInv
<1> DEFINE b == Bucket(FirstArgKey(c))
           twins == {i \in DOMAIN b : con[b[i]] = c}
           d == IF twins = {} THEN None ELSE b[Least(twins)]
<1>1. /\ job' = [job EXCEPT ![t] = NewJob(d, op, run)]
      /\ IF d = None
         THEN Jump(t, "allocate") /\ UNCHANGED <<pending, calls>>
         ELSE /\ pending' = [pending EXCEPT ![d] = @ + 1]
              /\ calls' = [calls EXCEPT ![t] = Tail(@)]
              /\ Jump(t, IF op = "sync" THEN "try" ELSE "enqueue")
      /\ UNCHANGED <<con, mod, claimed, tokens, bucket, tasks, keys, list, cur, held>>
  BY DEF InsertCounted
<1>2. b \in Seq(Known)  BY EmptySeq DEF Bucket, TypeOK
<1> HIDE DEF b
<1>3. d \in Maybe
  <2>1. CASE twins = {}  BY <2>1 DEF Maybe
  <2>2. CASE twins # {}
    <3>1. DOMAIN b = 1..Len(b) /\ Len(b) \in Nat  BY <1>2, LenProperties
    <3>2. twins \in SUBSET Nat  BY <3>1
    <3>3. Least(twins) \in 1..Len(b)
      <4> HIDE DEF twins
      <4>1. Least(twins) \in twins  BY <2>2, <3>2, LeastIn
      <4> QED  BY <3>1, <4>1 DEF twins
    <3>4. b[Least(twins)] \in Known  BY <1>2, <3>3, ElementOfSeq
    <3> QED  BY <2>2, <3>4 DEF Maybe
  <2> QED  BY <2>1, <2>2
<1> HIDE DEF d
<1>4. NewJob(d, op, run) \in Job /\ NewJob(d, op, run).goal = d
  BY <1>3 DEF NewJob, Job
<1>5. Grown /\ Frame(t)
  BY <1>1, SameTypes DEF Frame, Same, Jump, TypeOK
<1>6. pending' \in [Status -> Nat] /\ calls' \in [Thread -> Seq(Call)]
  <2>1. calls[t] \in Seq(Call)  BY DEF TypeOK
  <2>2. Tail(calls[t]) \in Seq(Call)  BY <2>1, HeadTailProperties
  <2>3. pending \in [Status -> Nat] /\ calls \in [Thread -> Seq(Call)]  BY DEF TypeOK
  <2>4. d # None => d \in Status /\ pending[d] + 1 \in Nat
    BY <1>3, <2>3, Stati DEF Maybe
  <2> QED  BY <1>1, <2>2, <2>3, <2>4
<1>7. TypeOK'
  BY <1>1, <1>4, <1>6, SameTypes DEF TypeOK, Jump, PC
<1>8. ThreadInv(t)'
  BY <1>1, <1>4, FS_EmptySet DEF ThreadInv, Jump, TypeOK, Matching, Whole, Empty, Goal
<1> QED  BY <1>1, <1>5, <1>7, <1>8, QuietStep

LEMMA MakeCallInv ==
  ASSUME EngineInv, NEW t \in Thread, MakeCall(t)
  PROVE  EngineInv' /\ Frame(t) /\ Grown
<1> DEFINE c == Head(calls[t])
           m == IF c.keep THEN used_mode ELSE "SET"
<1>1. calls[t] \in Seq(Call) /\ calls[t] # << >>  BY DEF MakeCall, EngineInv, TypeOK
<1>2. c \in Call  BY <1>1, HeadTailProperties
<1>3. c.con \in Con /\ c.op \in {"async", "sync", "add"}  BY <1>2 DEF Call
<1>4. used_mode' \in {"NONE", "SET"}  BY DEF MakeCall, EngineInv, TypeOK
<1>5. pc[t] = "ready" /\ InsertCounted(t, c.con, c.op, m = "SET")  BY DEF MakeCall
<1>6. (m = "SET") \in BOOLEAN  OBVIOUS
<1> HIDE DEF c, m
<1> QED  BY <1>1, <1>3, <1>4, <1>5, <1>6, InsertCountedInv

\* Allocating a status extends the types.
LEMMA TypesGrow ==
  ASSUME Grown
  PROVE  /\ Maybe \subseteq Maybe' /\ Task \subseteq Task' /\ Job \subseteq Job'
         /\ List \subseteq List' /\ Cursor \subseteq Cursor'
         /\ \A q : q \in Seq(Known) => q \in Seq(Known')
         /\ \A q : q \in Seq(Task) => q \in Seq(Task')
<1>1. Known \subseteq Known' /\ Maybe \subseteq Maybe'  BY DEF Grown, Maybe
<1>2. Task \subseteq Task' /\ Job \subseteq Job' /\ Place \subseteq Place'
  BY <1>1 DEF Task, Job, Place
<1>3. \A q : q \in Seq(Known) => q \in Seq(Known')  BY <1>1, SeqMonotonic
<1>4. \A q : q \in Seq(Maybe) => q \in Seq(Maybe')  BY <1>1, SeqMonotonic
<1>5. \A q : q \in Seq(Task) => q \in Seq(Task')  BY <1>2, SeqMonotonic
<1>6. \A q : q \in Seq(Place) => q \in Seq(Place')  BY <1>2, SeqMonotonic
<1>7. List \subseteq List'  BY <1>3, <1>4 DEF List
<1>8. Cursor \subseteq Cursor'  BY <1>1, <1>6 DEF Cursor
<1> QED  BY <1>1, <1>2, <1>3, <1>5, <1>7, <1>8

LEMMA AllocateInv ==
  ASSUME EngineInv, NEW t \in Thread, Allocate(t)
  PROVE  EngineInv' /\ Frame(t) /\ Grown
<1> USE DEF EngineInv
<1> DEFINE c == Head(calls[t]).con
           s == Len(con) + 1
           k == NameKey(c)
<1>1. /\ pc[t] = "allocate" /\ s \in Status
      /\ con' = Append(con, c)
      /\ mod' = [mod EXCEPT ![s] = IF job[t].op = "sync" THEN "SYNC" ELSE "ASYNC"]
      /\ pending' = [pending EXCEPT ![s] = 1]
      /\ bucket' = [bucket EXCEPT ![k] = Append(@, s)]
      /\ job' = [job EXCEPT ![t].goal = s]
      /\ keys' = [keys EXCEPT ![t] = ArgSets(c)]
      /\ calls' = [calls EXCEPT ![t] = Tail(@)]
      /\ Jump(t, "index")
      /\ UNCHANGED <<claimed, tokens, tasks, used_mode, list, cur, held>>
  BY DEF Allocate
<1>2. calls[t] \in Seq(Call) /\ calls[t] # << >>  BY <1>1 DEF ThreadInv, TypeOK
<1>3. Head(calls[t]) \in Call /\ Tail(calls[t]) \in Seq(Call)  BY <1>2, HeadTailProperties
<1>4. c \in Con  BY <1>3 DEF Call
<1>5. con \in Seq(Con) /\ Len(con) \in Nat  BY Stati DEF TypeOK
<1> HIDE DEF c, k
<1>6. /\ con' \in Seq(Con) /\ Len(con') = s
      /\ \A i \in 1..Len(con) : con'[i] = con[i]
  BY <1>1, <1>4, <1>5, AppendProperties
<1>7. Known' = 1..s  BY <1>6, LenProperties DEF Known
<1>8. s \in Known' /\ s # None /\ Len(con') <= MaxStatus
  BY <1>1, <1>5, <1>6, <1>7, RulesAssumption DEF Status, None
<1> HIDE DEF s
<1>9. Grown
  <2>1. Known = 1..Len(con) /\ s = Len(con) + 1  BY Stati DEF s
  <2> QED  BY <1>5, <1>6, <1>7, <2>1 DEF Grown
<1>10. Frame(t)  BY <1>1 DEF Frame, Same, Jump, TypeOK
<1>11. bucket' \in [Buckets -> Seq(Known')]
  <2>1. \A x \in Buckets : bucket[x] \in Seq(Known')  BY <1>9, TypesGrow DEF TypeOK
  <2>2. \A x \in Buckets : Append(bucket[x], s) \in Seq(Known')
    BY <1>8, <2>1, AppendProperties
  <2> QED  BY <1>1, <2>1, <2>2 DEF TypeOK
<1>12. ArgSets(c) \in SUBSET SUBSET Nat
  <2>1. c.args \in Seq(Nat)  BY <1>4, RulesAssumption
  <2>2. DOMAIN c.args \subseteq Nat  BY <2>1, LenProperties
  <2> QED  BY <2>2 DEF ArgSets
<1>13. job' \in [Thread -> Job'] /\ job'[t].goal = s
  <2>1. job[t] \in Job  BY DEF TypeOK
  <2>2. [job[t] EXCEPT !.goal = s] \in Job'  BY <1>8, <1>9, <2>1, TypesGrow DEF Job, Maybe
  <2>3. \A u \in Thread : job[u] \in Job'  BY <1>9, TypesGrow DEF TypeOK
  <2>4. job' = [job EXCEPT ![t] = [job[t] EXCEPT !.goal = s]]  BY <1>1 DEF TypeOK
  <2> QED  BY <2>1, <2>2, <2>3, <2>4 DEF TypeOK, Job
<1>14. tasks' \in Seq(Task') /\ list' \in [Thread -> List'] /\ cur' \in [Thread -> Cursor']
  BY <1>1, <1>9, TypesGrow DEF TypeOK
<1>15. TypeOK'
  BY <1>1, <1>3, <1>6, <1>8, <1>11, <1>12, <1>13, <1>14 DEF TypeOK, Mode, Jump, PC
<1>16. ThreadInv(t)'
  BY <1>1, <1>8, <1>13, FS_EmptySet DEF ThreadInv, TypeOK, Jump, Matching, Whole, Empty, Goal
<1> QED  BY <1>1, <1>9, <1>10, <1>15, <1>16, QuietStep

LEMMA IndexInv ==
  ASSUME EngineInv, NEW t \in Thread, Index(t)
  PROVE  EngineInv' /\ Frame(t) /\ Grown
<1> USE DEF EngineInv
<1> DEFINE S == CHOOSE S \in keys[t] : \A T \in keys[t] \ {S} : Before(S, T)
           k == Key(con[Goal(t)], S)
<1> HIDE DEF S, k
<1>1. /\ pc[t] = "index"
      /\ bucket' = [bucket EXCEPT ![k] = IF Goal(t) \in In(@) THEN @ ELSE Append(@, Goal(t))]
      /\ keys' = [keys EXCEPT ![t] = @ \ {S}]
      /\ Jump(t, IF keys[t] # {S} THEN "index"
                 ELSE IF job[t].op = "sync" THEN "try" ELSE "enqueue")
      /\ UNCHANGED <<con, mod, pending, claimed, tokens, tasks, used_mode, calls, job, list, cur, held>>
  BY DEF Index, S, k
<1>2. Goal(t) \in Known /\ Goal(t) # None  BY <1>1 DEF ThreadInv, TypeOK, Job, Maybe, Goal
<1>3. Grown /\ Frame(t)
  BY <1>1, SameTypes DEF Frame, Same, Jump, TypeOK
<1>4. bucket' \in [Buckets -> Seq(Known)]
  <2>1. \A x \in Buckets : Append(bucket[x], Goal(t)) \in Seq(Known)
    BY <1>2, AppendProperties DEF TypeOK
  <2> QED  BY <1>1, <2>1 DEF TypeOK
<1>5. TypeOK'
  BY <1>1, <1>4, SameTypes DEF TypeOK, Jump, PC
<1>6. ThreadInv(t)'
  BY <1>1, <1>2, FS_EmptySet DEF ThreadInv, Jump, TypeOK, Matching, Whole, Empty, Goal
<1> QED  BY <1>1, <1>3, <1>5, <1>6, QuietStep

(***************************************************************************)
(* Searching and consuming.                                                *)
(***************************************************************************)
LEMMA MoveEffect ==
  ASSUME TypeOK, NEW t \in Thread, NEW p \in PC, NEW l \in List, NEW c \in Cursor, Move(t, p, l, c)
  PROVE  /\ pc' \in [Thread -> PC] /\ list' \in [Thread -> List] /\ cur' \in [Thread -> Cursor]
         /\ pc'[t] = p /\ list'[t] = l /\ cur'[t] = c
         /\ \A u \in Thread \ {t} : pc'[u] = pc[u] /\ list'[u] = list[u] /\ cur'[u] = cur[u]
BY DEF Move, Jump, TypeOK

\* One claim of thread t ends: the status has one claim and one owner less.
LEMMA ClaimEnds ==
  ASSUME EngineInv, NEW t \in Thread, Frame(t), NEW i \in held[t],
         NEW s \in Status, list[t].used[i] = s,
         held' = [held EXCEPT ![t] = @ \ {i}],
         held'[t] # {} => list'[t].used = list[t].used,
         claimed' = [claimed EXCEPT ![s] = IF @ > 0 THEN @ - 1 ELSE @]
  PROVE  ClaimsOwned' /\ claimed[s] > 0
<1> USE DEF EngineInv
<1>1. /\ held \in [Thread -> SUBSET Nat] /\ claimed \in [Status -> Nat]
      /\ \A u \in Thread : IsFiniteSet(held[u])
  BY DEF TypeOK, ThreadInv
<1>2. \A x : IsFiniteSet(Owners(x)) /\ Cardinality(Owners(x)) \in Nat
  BY <1>1, OwnersFinite
<1>3. ASSUME NEW x
      PROVE  /\ Owners(x)' = Owners(x) \ {<<t, i>>}
             /\ <<t, i>> \in Owners(x) <=> s = x
  BY <1>1, OwnersDrop
<1>4. ASSUME NEW x
      PROVE  Cardinality(Owners(x)') = IF s = x THEN Cardinality(Owners(x)) - 1
                                       ELSE Cardinality(Owners(x))
  BY <1>2, <1>3, FS_RemoveElement
<1>5. claimed[s] > 0
  <2>1. Cardinality(Owners(s)) # 0  BY <1>2, <1>3, FS_EmptySet
  <2>2. claimed[s] = Cardinality(Owners(s))  BY DEF ClaimsOwned
  <2> QED  BY <1>2, <2>1, <2>2
<1>6. \A x \in Status : claimed'[x] = Cardinality(Owners(x)')
  BY <1>1, <1>4, <1>5 DEF ClaimsOwned
<1> QED  BY <1>5, <1>6 DEF ClaimsOwned

\* And one begins: the status has one claim and one owner more.
LEMMA ClaimBegins ==
  ASSUME EngineInv, NEW t \in Thread, Frame(t), NEW i \in Nat, i \notin held[t],
         NEW s \in Status, list'[t].used[i] = s,
         held' = [held EXCEPT ![t] = @ \cup {i}],
         held[t] # {} => list'[t].used = list[t].used,
         claimed' = [claimed EXCEPT ![s] = @ + 1]
  PROVE  ClaimsOwned'
<1> USE DEF EngineInv
<1>1. /\ held \in [Thread -> SUBSET Nat] /\ claimed \in [Status -> Nat]
      /\ \A u \in Thread : IsFiniteSet(held[u])
  BY DEF TypeOK, ThreadInv
<1>2. \A x : IsFiniteSet(Owners(x)) /\ Cardinality(Owners(x)) \in Nat
  BY <1>1, OwnersFinite
<1>3. \A x : <<t, i>> \notin Owners(x)  BY OwnerIs
<1>4. ASSUME NEW x
      PROVE  Owners(x)' = IF list'[t].used[i] = x THEN Owners(x) \cup {<<t, i>>} ELSE Owners(x)
  BY <1>1, OwnersAdd
<1>5. \A x : Cardinality(Owners(x)') = IF s = x THEN Cardinality(Owners(x)) + 1
                                       ELSE Cardinality(Owners(x))
  BY <1>2, <1>3, <1>4, FS_AddElement
<1>6. \A x \in Status : claimed'[x] = Cardinality(Owners(x)')
  BY <1>1, <1>5 DEF ClaimsOwned
<1> QED  BY <1>6 DEF ClaimsOwned

\* After a use: the next one is consumed, or all are and nothing is held.
LEMMA AfterUseEffect ==
  ASSUME TypeOK, NEW t \in Thread, AfterUse(t), cur[t].at \in DOMAIN list[t].used
  PROVE  LET n == Len(list[t].used) IN
         /\ cur[t].at \in 1..n /\ n \in Nat
         /\ pc' \in [Thread -> PC] /\ list' \in [Thread -> List] /\ cur' \in [Thread -> Cursor]
         /\ job' = job /\ list'[t] = list[t]
         /\ \A u \in Thread \ {t} : pc'[u] = pc[u] /\ list'[u] = list[u] /\ cur'[u] = cur[u]
         /\ \/ cur[t].at = n /\ pc'[t] = "body"
            \/ /\ cur[t].at < n /\ pc'[t] = "consume" /\ cur'[t].at = cur[t].at + 1
<1> DEFINE n == Len(list[t].used)
<1>1. list[t] \in List /\ cur[t] \in Cursor  BY DEF TypeOK
<1>2. n \in Nat /\ cur[t].at \in 1..n  BY <1>1, LenProperties DEF List
<1>3. CASE cur[t].at = n
  <2>1. Search(t, "body", list[t], Rewound)  BY <1>3 DEF AfterUse
  <2> QED  BY <1>1, <1>2, <1>3, <2>1, RewoundTyped, MoveEffect DEF Search, PC
<1>4. CASE cur[t].at # n
  <2> DEFINE c == [cur[t] EXCEPT !.at = @ + 1]
  <2>1. Search(t, "consume", list[t], c)  BY <1>4 DEF AfterUse
  <2>2. c \in Cursor /\ c.at = cur[t].at + 1  BY <1>1 DEF Cursor
  <2> HIDE DEF c
  <2> QED  BY <1>1, <1>2, <1>4, <2>1, <2>2, MoveEffect DEF Search, PC
<1> QED  BY <1>3, <1>4

LEMMA PushTokenInv ==
  ASSUME EngineInv, NEW t \in Thread, PushToken(t)
  PROVE  EngineInv' /\ Frame(t) /\ Grown
<1> USE DEF EngineInv
<1>1. /\ pc[t] = "token" /\ AfterUse(t)
      /\ tokens' = [tokens EXCEPT ![list[t].used[cur[t].at]] = @ + 1]
      /\ UNCHANGED <<con, mod, pending, claimed, bucket, tasks, used_mode, calls, keys, held>>
  BY DEF PushToken
<1>2. /\ cur[t].at \in DOMAIN list[t].used /\ held[t] = (cur[t].at + 1)..Len(list[t].used)
      /\ Goal(t) # None /\ GoodList(list[t]) /\ Complete(list[t].rule, list[t].m)
      /\ IsFiniteSet(held[t])
  BY <1>1 DEF ThreadInv, Whole, Matching
<1> DEFINE n == Len(list[t].used)
<1>3. /\ cur[t].at \in 1..n /\ n \in Nat
      /\ pc' \in [Thread -> PC] /\ list' \in [Thread -> List] /\ cur' \in [Thread -> Cursor]
      /\ job' = job /\ list'[t] = list[t]
      /\ \A u \in Thread \ {t} : pc'[u] = pc[u] /\ list'[u] = list[u] /\ cur'[u] = cur[u]
      /\ \/ cur[t].at = n /\ pc'[t] = "body"
         \/ /\ cur[t].at < n /\ pc'[t] = "consume" /\ cur'[t].at = cur[t].at + 1
  BY <1>1, <1>2, AfterUseEffect
<1>4. Grown /\ Frame(t)  BY <1>1, <1>3, SameTypes DEF Frame, Same
<1>5. list[t].used[cur[t].at] \in Status
  <2>1. list[t].used \in Seq(Known)  BY DEF TypeOK, List
  <2> QED  BY <1>3, <2>1, ElementOfSeq, Stati
<1>6. TypeOK'
  <2>1. tokens' \in [Status -> Nat]  BY <1>1, <1>5 DEF TypeOK
  <2> QED  BY <1>1, <1>3, <2>1, SameTypes DEF TypeOK
<1>7. ThreadInv(t)'
  <2>1. PICK l : l = list[t]  OBVIOUS
  <2>2. GoodList(l)' /\ Complete(l.rule, l.m)'  BY <1>2, <1>4, <2>1, GoodListStable
  <2>3. GoodList(list[t])' /\ Complete(list[t].rule, list[t].m)'  BY <1>3, <2>1, <2>2
  <2>4. n \in Nat /\ DOMAIN list[t].used = 1..n
    <3>1. list[t].used \in Seq(Known)  BY DEF TypeOK, List
    <3> QED  BY <3>1, LenProperties
  <2> HIDE DEF n
  <2>5. pc'[t] = "body" => held'[t] = {}  BY <1>1, <1>2, <1>3, <2>4 DEF n
  <2>6. pc'[t] = "consume" => /\ cur'[t].at \in DOMAIN list'[t].used
                              /\ held'[t] = cur'[t].at..Len(list'[t].used)
    BY <1>1, <1>2, <1>3, <2>4 DEF n
  <2>7. pc'[t] \in {"body", "consume"}  BY <1>3
  <2> QED  BY <1>1, <1>2, <1>3, <2>3, <2>5, <2>6, <2>7 DEF ThreadInv, Matching, Whole, Empty, Goal
<1> QED  BY <1>1, <1>3, <1>4, <1>6, <1>7, QuietStep

LEMMA ConsumeUseInv ==
  ASSUME EngineInv, NEW t \in Thread, NEW silent, ConsumeUse(t, silent)
  PROVE  EngineInv' /\ Frame(t) /\ Grown
<1> USE DEF EngineInv
<1> DEFINE n == Len(list[t].used)
           i == cur[t].at
           s == list[t].used[i]
<1>1. /\ pc[t] = "consume"
      /\ claimed' = [claimed EXCEPT ![s] = IF @ > 0 THEN @ - 1 ELSE @]
      /\ held' = [held EXCEPT ![t] = @ \ {i}]
      /\ IF silent THEN AfterUse(t) ELSE Search(t, "token", list[t], cur[t])
      /\ UNCHANGED <<con, mod, pending, tokens, bucket, tasks, used_mode, calls, keys>>
  BY DEF ConsumeUse
<1>2. /\ i \in DOMAIN list[t].used /\ held[t] = i..n
      /\ Goal(t) # None /\ GoodList(list[t]) /\ Complete(list[t].rule, list[t].m)
      /\ IsFiniteSet(held[t])
  BY <1>1 DEF ThreadInv, Whole, Matching
<1>3. /\ list[t].used \in Seq(Known) /\ list[t] \in List /\ cur[t] \in Cursor
      /\ n \in Nat /\ DOMAIN list[t].used = 1..n
  <2>1. list[t] \in List /\ cur[t] \in Cursor  BY DEF TypeOK
  <2> QED  BY <2>1, LenProperties DEF List
<1>4. /\ pc' \in [Thread -> PC] /\ list' \in [Thread -> List] /\ cur' \in [Thread -> Cursor]
      /\ job' = job /\ list'[t] = list[t]
      /\ \A u \in Thread \ {t} : pc'[u] = pc[u] /\ list'[u] = list[u] /\ cur'[u] = cur[u]
      /\ \/ i = n /\ pc'[t] = "body"
         \/ i < n /\ pc'[t] = "consume" /\ cur'[t].at = i + 1
         \/ pc'[t] = "token" /\ cur'[t] = cur[t]
  <2>1. CASE silent  BY <1>1, <1>2, <2>1, AfterUseEffect
  <2>2. CASE ~silent
    <3>1. Search(t, "token", list[t], cur[t]) /\ "token" \in PC  BY <1>1, <2>2 DEF PC
    <3> QED  BY <1>3, <3>1, MoveEffect DEF Search
  <2> QED  BY <2>1, <2>2
<1>5. Grown /\ Frame(t)  BY <1>1, <1>4, SameTypes DEF Frame, Same, TypeOK
<1>6. s \in Status  BY <1>2, <1>3, ElementOfSeq, Stati
<1>7. held[t] \in SUBSET Nat /\ i \in Nat /\ i \in held[t]
  BY <1>2, <1>3 DEF TypeOK
<1>8. held' \in [Thread -> SUBSET Nat] /\ held'[t] = (i + 1)..n /\ IsFiniteSet(held'[t])
  <2>1. held'[t] = held[t] \ {i}  BY <1>1 DEF TypeOK
  <2>2. held' \in [Thread -> SUBSET Nat]  BY <1>1 DEF TypeOK
  <2> HIDE DEF n, i
  <2>3. IsFiniteSet(held'[t])  BY <1>2, <2>1, FS_RemoveElement
  <2>4. held'[t] = (i + 1)..n  BY <1>2, <1>3, <1>7, <2>1
  <2> QED  BY <2>2, <2>3, <2>4
<1>9. ClaimsOwned'
  <2> HIDE DEF i, s
  <2>1. s = list[t].used[i]  BY DEF s
  <2> QED  BY <1>1, <1>4, <1>5, <1>6, <1>7, <2>1, ClaimEnds
<1>10. TypeOK'
  <2> HIDE DEF i, s, n
  <2>1. claimed' \in [Status -> Nat]
    <3>1. claimed \in [Status -> Nat]  BY DEF TypeOK
    <3> QED  BY <1>1, <1>6, <3>1
  <2> QED  BY <1>1, <1>4, <1>8, <2>1, SameTypes DEF TypeOK
<1>11. ThreadInv(t)'
  <2>1. PICK l : l = list[t]  OBVIOUS
  <2>2. GoodList(l)' /\ Complete(l.rule, l.m)'  BY <1>2, <1>5, <2>1, GoodListStable
  <2>3. GoodList(list[t])' /\ Complete(list[t].rule, list[t].m)'  BY <1>4, <2>1, <2>2
  <2> HIDE DEF n, s
  <2>4. pc'[t] = "body" => held'[t] = {}  BY <1>3, <1>4, <1>7, <1>8
  <2>5. pc'[t] = "consume" => /\ cur'[t].at \in DOMAIN list'[t].used
                              /\ held'[t] = cur'[t].at..Len(list'[t].used)
    BY <1>2, <1>3, <1>4, <1>7, <1>8 DEF n
  <2>6. pc'[t] = "token" => /\ cur'[t].at \in DOMAIN list'[t].used
                            /\ held'[t] = (cur'[t].at + 1)..Len(list'[t].used)
    BY <1>2, <1>4, <1>8 DEF n
  <2>7. pc'[t] \in {"body", "consume", "token"}  BY <1>4
  <2> QED  BY <1>2, <1>4, <1>8, <2>3, <2>4, <2>5, <2>6, <2>7
           DEF ThreadInv, Matching, Whole, Empty, Goal
<1>12. \A u \in Thread : ThreadInv(u)'
  BY <1>5, <1>11, OtherThreads DEF Frame
<1> QED  BY <1>5, <1>9, <1>10, <1>12

(***************************************************************************)
(* Together: every step that the strategies share keeps the invariant.     *)
(***************************************************************************)
LEMMA CommonInv ==
  ASSUME EngineInv, NEW t \in Thread, Common(t)
  PROVE  EngineInv' /\ Frame(t) /\ Grown
BY MakeCallInv, AllocateInv, IndexInv, EnqueueInv, TakeTaskInv, CheckLiveInv, NoModeInv,
   PopTokenInv, NoTokenInv, PushTokenInv, RunBodyInv DEF Common

\* Such a step leads to none of the steps of a search, and only extends buckets.
Longer == \A k \in Buckets : /\ Len(bucket[k]) <= Len(bucket'[k])
                            /\ \A i \in 1..Len(bucket[k]) : bucket'[k][i] = bucket[k][i]
Between == {"ready", "allocate", "index", "enqueue", "check", "try", "consume", "token", "body",
            "poll", "wait"}

LEMMA CommonLonger ==
  ASSUME EngineInv, NEW t \in Thread, Common(t)
  PROVE  Longer /\ pc'[t] \in Between
<1> USE DEF EngineInv
<1>1. ASSUME bucket' = bucket PROVE Longer
  <2>1. \A k \in Buckets : Len(bucket[k]) \in Nat  BY LenProperties DEF TypeOK
  <2> QED  BY <1>1, <2>1 DEF Longer
<1>2. ASSUME NEW s \in Known', \A x \in Buckets : bucket'[x] \in {bucket[x], Append(bucket[x], s)}
      PROVE  Longer
  <2>1. Known \subseteq Known'  BY CommonInv DEF Grown
  <2>2. \A x \in Buckets : bucket[x] \in Seq(Known')  BY <2>1, SeqMonotonic DEF TypeOK
  <2>3. \A x \in Buckets : /\ Len(bucket[x]) \in Nat
                           /\ Len(Append(bucket[x], s)) = Len(bucket[x]) + 1
                           /\ \A i \in 1..Len(bucket[x]) : Append(bucket[x], s)[i] = bucket[x][i]
    BY <1>2, <2>2, LenProperties, AppendProperties
  <2> QED  BY <1>2, <2>3 DEF Longer
<1>3. ASSUME NEW fired, NEW retry, Return(t, fired, retry) PROVE pc'[t] \in Between
  BY <1>3, ReturnEffect DEF Looping, Between
<1>4. CASE MakeCall(t)
  BY <1>1, <1>4 DEF MakeCall, InsertCounted, Jump, TypeOK, Between
<1>5. CASE Allocate(t)
  <2> DEFINE s == Len(con) + 1
  <2>1. /\ bucket' = [bucket EXCEPT ![NameKey(Head(calls[t]).con)] = Append(@, s)]
        /\ pc' = [pc EXCEPT ![t] = "index"] /\ job' = [job EXCEPT ![t].goal = s]
    BY <1>5 DEF Allocate, Jump
  <2> HIDE DEF s
  <2>2. pc'[t] = "index" /\ pc'[t] \in Between  BY <2>1 DEF TypeOK, Between
  <2>3. job'[t].goal \in Known'
    <3>1. Goal(t)' # None  BY <2>2, CommonInv DEF ThreadInv
    <3>2. job'[t] \in Job'  BY CommonInv DEF TypeOK
    <3> QED  BY <3>1, <3>2 DEF Goal, Job, Maybe
  <2>4. job'[t].goal = s  BY <2>1 DEF TypeOK, Job
  <2> QED  BY <1>2, <2>1, <2>2, <2>3, <2>4 DEF TypeOK
<1>6. CASE Index(t)
  <2>1. Goal(t) \in Known'
    <3>1. Goal(t) \in Known  BY <1>6 DEF Index, ThreadInv, TypeOK, Job, Maybe, Goal
    <3> QED  BY <3>1, CommonInv DEF Grown
  <2>2. \A x \in Buckets : bucket'[x] \in {bucket[x], Append(bucket[x], Goal(t))}
    BY <1>6 DEF Index, TypeOK
  <2>3. pc'[t] \in Between  BY <1>6 DEF Index, Jump, TypeOK, Between
  <2> QED  BY <1>2, <2>1, <2>2, <2>3
<1>7. CASE Enqueue(t)  BY <1>1, <1>7 DEF Enqueue, Jump, store, TypeOK, Between
<1>8. CASE TakeTask(t)  BY <1>1, <1>8 DEF TakeTask, Jump, store, TypeOK, Between
<1>9. CASE CheckLive(t)
  BY <1>1, <1>3, <1>9 DEF CheckLive, Jump, store, TypeOK, Between
<1>10. CASE NoMode(t)  BY <1>1, <1>3, <1>10 DEF NoMode, store
<1>11. CASE PopToken(t)  BY <1>1, <1>3, <1>11 DEF PopToken
<1>12. CASE NoToken(t)  BY <1>1, <1>12 DEF NoToken, Jump, store, TypeOK, Between
<1>13. ASSUME AfterUse(t) PROVE pc'[t] \in Between
  BY <1>13 DEF AfterUse, Search, Move, Jump, TypeOK, Between
<1>14. CASE PushToken(t)  BY <1>1, <1>13, <1>14 DEF PushToken
<1>15. CASE RunBody(t)  BY <1>1, <1>3, <1>15 DEF RunBody, store
<1> QED  BY <1>4, <1>5, <1>6, <1>7, <1>8, <1>9, <1>10, <1>11, <1>12, <1>14, <1>15 DEF Common

LEMMA ConsumeUseLonger ==
  ASSUME EngineInv, NEW t \in Thread, NEW silent, ConsumeUse(t, silent)
  PROVE  Longer /\ pc'[t] \in Between
<1> USE DEF EngineInv
<1>1. Longer
  <2>1. \A k \in Buckets : Len(bucket[k]) \in Nat  BY LenProperties DEF TypeOK
  <2> QED  BY <2>1 DEF Longer, ConsumeUse
<1>2. pc'[t] \in Between
  BY DEF ConsumeUse, AfterUse, Search, Move, Jump, TypeOK, Between
<1> QED  BY <1>1, <1>2

LEMMA BucketTyped ==
  ASSUME TypeOK, NEW k
  PROVE  /\ Bucket(k) \in Seq(Known) /\ Len(Bucket(k)) \in Nat
         /\ \A i \in 1..Len(Bucket(k)) : Bucket(k)[i] \in Known
<1>1. Bucket(k) \in Seq(Known)  BY EmptySeq DEF Bucket, TypeOK
<1> QED  BY <1>1, LenProperties, ElementOfSeq

(***************************************************************************)
(* What a step leaves alone.                                               *)
(***************************************************************************)
LEMMA TidyStable ==
  ASSUME NEW l, GoodList(l), Tidy(l), Grown
  PROVE  Tidy(l)'
BY BoundStable DEF Tidy, GoodList, Fiber, Heads, KeptHeads, Number, Pick

(***************************************************************************)
(* The steps of a search.                                                  *)
(***************************************************************************)
Quiet(t) == \A u \in Thread \ {t} : /\ pc'[u] = pc[u] /\ job'[u] = job[u]
                                    /\ list'[u] = list[u] /\ cur'[u] = cur[u]

LEMMA SearchQuiet ==
  ASSUME TypeOK, NEW t \in Thread, NEW p, NEW l, NEW c, Search(t, p, l, c)
  PROVE  Quiet(t) /\ pc'[t] = p /\ list'[t] = l /\ cur'[t] = c /\ job' = job
BY DEF Search, Move, Jump, TypeOK, Quiet

LEMMA ReturnQuiet ==
  ASSUME TypeOK, NEW t \in Thread, NEW fired, NEW retry, Return(t, fired, retry)
  PROVE  Quiet(t) /\ pc'[t] \in Looping
BY ReturnEffect DEF Quiet

LEMMA PlaceKnown ==
  ASSUME NEW q \in Seq(Place), NEW i \in DOMAIN q
  PROVE  q[i].s \in Known
<1>1. q[i] \in Place  BY LenProperties, ElementOfSeq
<1> QED  BY <1>1 DEF Place

(***************************************************************************)
(* The live constraints.  Every status has as many copies as are pending   *)
(* or claimed by threads whose match may still fail.                       *)
(***************************************************************************)
Count(s) == pending[s] + claimed[s] - Taken(s)

Counts == [s \in Known |-> Count(s)]

\* The claims on s of thread t, and of the others, that may still be given back.
Share(t, s) == {i \in held[t] : ~Firing(t) /\ list[t].used[i] = s}

Rest(t, s) == {o \in Owners(s) : o[1] # t /\ ~Firing(o[1])}

LEMMA CountParts ==
  ASSUME EngineInv, NEW t \in Thread, NEW s \in Status
  PROVE  /\ Count(s) \in Nat
         /\ Cardinality(Rest(t, s)) \in Nat
         /\ Cardinality(Share(t, s)) \in Nat
         /\ Count(s) = pending[s] + Cardinality(Rest(t, s)) + Cardinality(Share(t, s))
<1> USE DEF EngineInv
<1> DEFINE O == Owners(s)
           K == {o \in O : Firing(o[1])}
           R == Rest(t, s)
           S == Share(t, s)
           M == {o \in O : ~Firing(o[1]) /\ o[1] = t}
           f == [i \in S |-> <<t, i>>]
<1>1. IsFiniteSet(O) /\ Cardinality(O) \in Nat  BY OwnersFinite DEF ThreadInv
<1>2. IsFiniteSet(K) /\ IsFiniteSet(R) /\ IsFiniteSet(M) /\ IsFiniteSet(S)
  <2>1. K \in SUBSET O /\ R \in SUBSET O /\ M \in SUBSET O  BY DEF Rest
  <2>2. S \in SUBSET held[t] /\ IsFiniteSet(held[t])  BY DEF Share, ThreadInv
  <2> HIDE DEF O, K, R, M, S
  <2> QED  BY <1>1, <2>1, <2>2, FS_Subset
<1>3. Cardinality(S) = Cardinality(M)
  <2>1. \A i : i \in S <=> i \in held[t] /\ ~Firing(t) /\ list[t].used[i] = s  BY DEF Share
  <2>2. \A o : o \in M <=> ~Firing(t) /\ \E i \in held[t] : o = <<t, i>> /\ list[t].used[i] = s
    BY OwnerIs
  <2>3. f \in [S -> M]  BY <2>1, <2>2
  <2>4. \A x, y \in S : f[x] = f[y] => x = y  OBVIOUS
  <2>5. \A o \in M : \E i \in S : f[i] = o  BY <2>1, <2>2
  <2> HIDE DEF S, M, f
  <2> QED  BY <1>2, <2>3, <2>4, <2>5, Paired
<1>4. Cardinality(O) = Cardinality(K) + Cardinality(R) + Cardinality(M)
  <2>1. O \ K = R \cup M /\ R \cap M = {} /\ O \cap K = K  BY DEF Rest
  <2> HIDE DEF O, K, R, M
  <2>2. Cardinality(O \ K) = Cardinality(O) - Cardinality(K)  BY <1>1, <2>1, FS_Difference
  <2>3. Cardinality(R \cup M) = Cardinality(R) + Cardinality(M) - Cardinality({})
    BY <1>2, <2>1, FS_Union
  <2>4. Cardinality({}) = 0  BY FS_EmptySet
  <2>5. /\ Cardinality(K) \in Nat /\ Cardinality(R) \in Nat /\ Cardinality(M) \in Nat
    BY <1>2, FS_CardinalityType
  <2>6. Cardinality(O) - Cardinality(K) = Cardinality(R) + Cardinality(M) - 0
    BY <2>1, <2>2, <2>3, <2>4
  <2> QED  BY <1>1, <2>5, <2>6
<1>5. /\ Cardinality(K) \in Nat /\ Cardinality(R) \in Nat /\ Cardinality(S) \in Nat
  BY <1>2, FS_CardinalityType
<1>6. Taken(s) = Cardinality(K) /\ claimed[s] = Cardinality(O)  BY DEF Taken, ClaimsOwned
<1>7. pending[s] \in Nat  BY DEF TypeOK
<1> HIDE DEF K, R, S, M, O
<1>8. Count(s) = pending[s] + Cardinality(R) + Cardinality(S)
  BY <1>1, <1>3, <1>4, <1>5, <1>6, <1>7 DEF Count
<1>9. Count(s) \in Nat  BY <1>5, <1>7, <1>8
<1> QED  BY <1>5, <1>8, <1>9 DEF R, S

CountsWell ==
  \A t \in Thread, s \in Status :
    /\ Count(s) \in Nat
    /\ Cardinality(Rest(t, s)) \in Nat
    /\ Cardinality(Share(t, s)) \in Nat
    /\ Count(s) = pending[s] + Cardinality(Rest(t, s)) + Cardinality(Share(t, s))

LEMMA CountsNow == EngineInv => CountsWell
BY CountParts DEF CountsWell

LEMMA CountsNext == EngineInv' => CountsWell'
BY CountsNow, PTL

LEMMA RestSame ==
  ASSUME NEW t \in Thread, Frame(t), NEW s
  PROVE  Rest(t, s)' = Rest(t, s)
<1>1. \A u \in Thread \ {t} : held'[u] = held[u] /\ list'[u] = list[u] /\ pc'[u] = pc[u]
  BY DEF Frame, Same
<1>2. ASSUME NEW o
      PROVE  o \in Rest(t, s) <=> \E u \in Thread \ {t} : \E i \in held[u] :
               /\ o = <<u, i>> /\ list[u].used[i] = s
               /\ pc[u] \notin {"consume", "token", "body"}
  BY OwnerIs DEF Rest, Firing
<1>3. ASSUME NEW o
      PROVE  o \in Rest(t, s)' <=> \E u \in Thread \ {t} : \E i \in held'[u] :
               /\ o = <<u, i>> /\ list'[u].used[i] = s
               /\ pc'[u] \notin {"consume", "token", "body"}
  <2>1. o \in Owners(s)' <=>
          \E u \in Thread : \E j \in held'[u] : o = <<u, j>> /\ list'[u].used[j] = s
    BY DEF Owners, Position
  <2> QED  BY <2>1 DEF Rest, Firing
<1>4. \A o : o \in Rest(t, s)' <=> o \in Rest(t, s)  BY <1>1, <1>2, <1>3
<1>5. PICK A : A = Rest(t, s)  OBVIOUS
<1>6. PICK B : B = Rest(t, s)'  OBVIOUS
<1>7. (\A o \in A : o \in B) /\ (\A o \in B : o \in A)  BY <1>4, <1>5, <1>6
<1>8. A = {o \in A : TRUE} /\ B = {o \in B : TRUE}  BY <1>5, <1>6 DEF Rest
<1> QED  BY <1>5, <1>6, <1>7, <1>8

\* What a step does to the copies of a status is what it does to those pending and
\* those its thread may give back.
LEMMA CountChange ==
  ASSUME EngineInv, EngineInv', NEW t \in Thread, Frame(t), NEW s \in Status
  PROVE  /\ Count(s) \in Nat /\ Count(s)' \in Nat
         /\ Cardinality(Share(t, s)) \in Nat /\ Cardinality(Share(t, s)') \in Nat
         /\ Count(s)' + pending[s] + Cardinality(Share(t, s)) =
            Count(s) + pending'[s] + Cardinality(Share(t, s)')
<1>1. /\ Count(s) \in Nat /\ Cardinality(Rest(t, s)) \in Nat /\ Cardinality(Share(t, s)) \in Nat
      /\ Count(s) = pending[s] + Cardinality(Rest(t, s)) + Cardinality(Share(t, s))
  BY CountsNow DEF CountsWell
<1>2. /\ Count(s)' \in Nat /\ Cardinality(Rest(t, s)') \in Nat /\ Cardinality(Share(t, s)') \in Nat
      /\ Count(s)' = pending'[s] + Cardinality(Rest(t, s)') + Cardinality(Share(t, s)')
  BY CountsNext DEF CountsWell
<1>3. Rest(t, s)' = Rest(t, s)  BY RestSame
<1>4. pending[s] \in Nat /\ pending'[s] \in Nat  BY DEF EngineInv, TypeOK
<1> QED  BY <1>1, <1>2, <1>3, <1>4

LiveWell == Live = Heap(Known, Counts, con)

LEMMA LiveNow == LiveWell
BY DEF LiveWell, Live, Heap, Cells, Counts, Count, Known

LEMMA LiveNext == LiveWell'
BY LiveNow, PTL

LEMMA LiveIs ==
  Live = Heap(Known, Counts, con) /\ Live' = Heap(Known', Counts', con')
BY LiveNow, LiveNext DEF LiveWell

(***************************************************************************)
(* The owed constraints: the calls that a thread has to make, and those it *)
(* will have to make when the rule it fires has been completed.            *)
(***************************************************************************)
Due == [t \in Thread |-> CallsDue(t)]

OwedWell == Owed = Tally(Thread, Due)

LEMMA OwedNow == OwedWell
BY DEF OwedWell, Owed, Tally, Items, Due

LEMMA OwedNext == OwedWell'
BY OwedNow, PTL

LEMMA OwedIs == Owed = Tally(Thread, Due) /\ Owed' = Tally(Thread, Due')
BY OwedNow, OwedNext DEF OwedWell

DueWell == Due \in [Thread -> Seq(Call)]

LEMMA DueNow == EngineInv => DueWell
<1> SUFFICES ASSUME EngineInv, NEW t \in Thread PROVE CallsDue(t) \in Seq(Call)
  BY DEF DueWell, Due
<1> USE DEF EngineInv
<1>1. calls[t] \in Seq(Call)  BY DEF TypeOK
<1>2. ASSUME Firing(t) PROVE Epilogue(list[t]) \in Seq(Call)
  <2>1. GoodList(list[t]) /\ Complete(list[t].rule, list[t].m)
    BY <1>2 DEF Firing, ThreadInv, Matching, Whole
  <2> QED  BY <2>1, EpilogueCalls
<1>3. << >> \in Seq(Call)  BY EmptySeq
<1> QED  BY <1>1, <1>2, <1>3, ConcatProperties DEF CallsDue

LEMMA DueNext == EngineInv' => DueWell'
BY DueNow, PTL

LEMMA DueTyped == ASSUME EngineInv, EngineInv' PROVE Due \in [Thread -> Seq(Call)] /\ Due' \in [Thread -> Seq(Call)]
BY DueNow, DueNext DEF DueWell

\* What a rule fires with does not change.
LEMMA EpilogueStable ==
  ASSUME TypeOK, NEW l, GoodList(l), Complete(l.rule, l.m), Grown,
         \A s \in Known : mod'[s] = mod[s]
  PROVE  Epilogue(l)' = Epilogue(l)
<1> DEFINE r == l.rule
           p == ById(r, l.m)
<1>1. /\ r \in RuleId /\ l.m \in Match(r, Known) /\ Named(r, l.m) /\ l.keep \in Seq(Known)
  BY DEF GoodList, List
<1>2. p \in Match(r, Known) /\ Complete(r, p)
  <2>1. Known \in SUBSET Nat  BY Stati
  <2> QED  BY <1>1, <2>1, ByIdMatch
<1>3. \A h \in Heads(r) : p[h] \in Known  BY <1>2 DEF Match, Complete, Matched
<1>4. ById(r, l.m)' = p
  BY DEF ById, Matched, HeadName, Sooner
<1> HIDE DEF p
<1>5. RuleOrdered(l) = [h \in Heads(r) |-> con[p[h]]]  BY DEF RuleOrdered, p
<1>6. RuleOrdered(l)' = [h \in Heads(r) |-> con'[p[h]]]  BY <1>4 DEF RuleOrdered
<1>7. RuleOrdered(l)' = RuleOrdered(l)  BY <1>3, <1>5, <1>6 DEF Grown
<1>8. \A i \in DOMAIN l.keep : l.keep[i] \in Known  BY <1>1, LenProperties, ElementOfSeq
<1>9. Kept(l)' = Kept(l)  BY <1>8 DEF Kept, Grown
<1> QED  BY <1>7, <1>9 DEF Epilogue

LEMMA DueOthers ==
  ASSUME EngineInv, NEW t \in Thread, Frame(t), Grown, \A s \in Known : mod'[s] = mod[s],
         NEW u \in Thread \ {t}
  PROVE  CallsDue(u)' = CallsDue(u)
<1> USE DEF EngineInv
<1>1. PICK l : l = list[u]  OBVIOUS
<1>2. list'[u] = l /\ pc'[u] = pc[u] /\ calls'[u] = calls[u]  BY <1>1 DEF Frame, Same
<1>3. Firing(u)' = Firing(u)  BY <1>2 DEF Firing
<1>4. ASSUME Firing(u) PROVE Epilogue(l)' = Epilogue(l)
  <2>1. GoodList(l) /\ Complete(l.rule, l.m)
    BY <1>1, <1>4 DEF Firing, ThreadInv, Matching, Whole
  <2> QED  BY <2>1, EpilogueStable
<1>5. CallsDue(u)' = (IF Firing(u)' THEN Epilogue(l)' ELSE << >>) \o calls'[u]
  BY <1>2 DEF CallsDue
<1>6. CallsDue(u) = (IF Firing(u) THEN Epilogue(l) ELSE << >>) \o calls[u]
  BY <1>1 DEF CallsDue
<1> QED  BY <1>2, <1>3, <1>4, <1>5, <1>6

LEMMA OwedChange ==
  ASSUME EngineInv, EngineInv', NEW t \in Thread, Frame(t), Grown, \A s \in Known : mod'[s] = mod[s], NEW e
  PROVE  /\ IsABag(Owed) /\ IsABag(Owed')
         /\ Copies(Owed', e) + Number(CallsDue(t), With(Call, e)) =
            Copies(Owed, e) + Number(CallsDue(t)', With(Call, e))
         /\ Copies(Owed, e) \in Nat /\ Copies(Owed', e) \in Nat
         /\ Number(CallsDue(t), With(Call, e)) \in Nat /\ Number(CallsDue(t)', With(Call, e)) \in Nat
<1>1. PICK q : q = Due  OBVIOUS
<1>2. PICK r : r = Due'  OBVIOUS
<1>3. q \in [Thread -> Seq(Call)] /\ r \in [Thread -> Seq(Call)]  BY <1>1, <1>2, DueTyped
<1>4. q[t] = CallsDue(t) /\ r[t] = CallsDue(t)'  BY <1>1, <1>2 DEF Due
<1>5. OnlyAt(Thread, q, r, t)
  <2> SUFFICES ASSUME NEW u \in Thread \ {t} PROVE r[u] = q[u]  BY DEF OnlyAt
  <2>1. CallsDue(u)' = CallsDue(u)  BY DueOthers
  <2> QED  BY <1>1, <1>2, <2>1 DEF Due
<1>6. Owed = Tally(Thread, q) /\ Owed' = Tally(Thread, r)  BY <1>1, <1>2, OwedIs
<1>7. IsFiniteSet(Thread)  BY ThreadAssumption
<1>8. TallySplit(Thread, Call, q, t, e) /\ TallySplit(Thread, Call, r, t, e)
  BY <1>3, <1>7, TallyParts
<1>9. Copies(Tally(Thread, r), e) + Number(q[t], With(Call, e)) =
      Copies(Tally(Thread, q), e) + Number(r[t], With(Call, e))
  <2>1. TallyShift(Thread, Call, q, r, t, e)  BY <1>3, <1>5, <1>7, TallyChange
  <2> QED  BY <2>1 DEF TallyShift
<1>10. Number(q[t], With(Call, e)) \in Nat /\ Number(r[t], With(Call, e)) \in Nat
  BY <1>3, PickFinite
<1>11. Copies(Owed', e) = Copies(Tally(Thread, r), e) /\ Copies(Owed, e) = Copies(Tally(Thread, q), e)
  BY <1>6
<1>12. /\ Number(CallsDue(t)', With(Call, e)) = Number(r[t], With(Call, e))
       /\ Number(CallsDue(t), With(Call, e)) = Number(q[t], With(Call, e))
  BY <1>4
<1>13. /\ IsABag(Tally(Thread, q)) /\ IsABag(Tally(Thread, r))
       /\ Copies(Tally(Thread, q), e) \in Nat /\ Copies(Tally(Thread, r), e) \in Nat
  BY <1>8, <1>10 DEF TallySplit
<1>14. IsABag(Owed) /\ IsABag(Owed')  BY <1>6, <1>13
<1> QED  BY <1>9, <1>10, <1>11, <1>12, <1>13, <1>14

LEMMA OwedSame ==
  ASSUME EngineInv, EngineInv', NEW t \in Thread, Frame(t), Grown, \A s \in Known : mod'[s] = mod[s],
         CallsDue(t)' = CallsDue(t)
  PROVE  Owed' = Owed
<1>1. \A u \in Thread : CallsDue(u)' = CallsDue(u)  BY DueOthers
<1>2. Due' = Due  BY <1>1 DEF Due
<1> QED  BY <1>2, OwedIs

(***************************************************************************)
(* The bags of constraints.                                                *)
(***************************************************************************)
LEMMA HeapExtend ==
  ASSUME NEW S, NEW T, S \subseteq T, NEW n, NEW k, \A s \in S : k[s] = n[s],
         \A s \in T \ S : k[s] = 0, NEW c, NEW d, \A s \in S : d[s] = c[s]
  PROVE  Heap(T, k, d) = Heap(S, n, c)
<1>1. \A p : p \in Cells(T, k) <=> \E s \in T : \E i \in 1..k[s] : p = <<s, i>>  BY CellIs
<1>2. \A p : p \in Cells(S, n) <=> \E s \in S : \E i \in 1..n[s] : p = <<s, i>>  BY CellIs
<1>3. \A s \in T \ S : 1..k[s] = {}  OBVIOUS
<1>4. \A p : p \in Cells(T, k) <=> p \in Cells(S, n)  BY <1>1, <1>2, <1>3
<1>5. Cells(T, k) = Cells(S, n)  BY <1>4 DEF Cells
<1>6. \A p \in Cells(S, n) : d[p[1]] = c[p[1]]  BY <1>2
<1>7. [p \in Cells(T, k) |-> d[p[1]]] = [p \in Cells(S, n) |-> c[p[1]]]  BY <1>5, <1>6
<1> QED  BY <1>7 DEF Heap

LiveTypes == IsFiniteSet(Known) /\ Counts \in [Known -> Nat]

LEMMA LiveTypesNow == EngineInv => LiveTypes
<1> SUFFICES ASSUME EngineInv PROVE LiveTypes  OBVIOUS
<1>1. Known = 1..Len(con) /\ Len(con) \in Nat /\ Known \subseteq Status
  BY Stati DEF EngineInv
<1>2. IsFiniteSet(Known)  BY <1>1, FS_Interval
<1>3. PICK t : t \in Thread \/ Thread = {}  OBVIOUS
<1>4. CASE t \in Thread  BY <1>1, <1>2, <1>4, CountParts DEF LiveTypes, Counts
<1>5. CASE Thread = {}
  <2>1. ASSUME NEW s \in Known PROVE Count(s) \in Nat
    <3>1. \A o : o \notin Owners(s)  BY <1>5, OwnerIs
    <3>2. Owners(s) = {} /\ {o \in Owners(s) : Firing(o[1])} = {}  BY <3>1 DEF Owners
    <3>3. claimed[s] = 0 /\ Taken(s) = 0
      BY <1>1, <3>2, FS_EmptySet DEF EngineInv, ClaimsOwned, Taken
    <3>4. pending[s] \in Nat  BY <1>1 DEF EngineInv, TypeOK
    <3> QED  BY <3>3, <3>4 DEF Count
  <2> QED  BY <1>2, <2>1 DEF LiveTypes, Counts
<1> QED  BY <1>3, <1>4, <1>5

LEMMA LiveTypesNext == EngineInv' => LiveTypes'
BY LiveTypesNow, PTL

LEMMA LiveTyped ==
  ASSUME EngineInv, EngineInv'
  PROVE  /\ IsFiniteSet(Known) /\ Counts \in [Known -> Nat]
         /\ IsFiniteSet(Known') /\ Counts' \in [Known' -> Nat]
         /\ IsABag(Live) /\ IsABag(Live')
<1>1. /\ IsFiniteSet(Known) /\ Counts \in [Known -> Nat]
      /\ IsFiniteSet(Known') /\ Counts' \in [Known' -> Nat]
  BY LiveTypesNow, LiveTypesNext DEF LiveTypes
<1>2. PICK n : n = Counts  OBVIOUS
<1>3. PICK k : k = Counts'  OBVIOUS
<1>4. Live = Heap(Known, n, con) /\ Live' = Heap(Known', k, con')  BY <1>2, <1>3, LiveIs
<1>5. IsABag(Heap(Known, n, con))  BY <1>1, <1>2, HeapCopies
<1>6. IsABag(Heap(Known', k, con'))  BY <1>1, <1>3, HeapCopies
<1> QED  BY <1>1, <1>4, <1>5, <1>6

(***************************************************************************)
(* The operators of Bags and Multiset as the instance of CHR has them.     *)
(***************************************************************************)
LEMMA SameCardinality == ASSUME NEW S PROVE Abstract!Cardinality(S) = Cardinality(S)
BY Zenon DEF Abstract!Cardinality, Cardinality

LEMMA SameBagOf == ASSUME NEW f PROVE Abstract!BagOf(f) = BagOf(f)
<1> DEFINE B(g) == [v \in {g[i] : i \in DOMAIN g} |-> Abstract!Cardinality({i \in DOMAIN g : g[i] = v})]
<1>1. {B(g) : g \in {f}} = {B(f)}  OBVIOUS
<1>2. Abstract!BagOf(f) = CHOOSE b \in {B(g) : g \in {f}} : TRUE  BY DEF Abstract!BagOf
<1> HIDE DEF B
<1>3. Abstract!BagOf(f) = B(f)  BY <1>1, <1>2
<1> QED  BY <1>3, SameCardinality, BagOfIs DEF Where, B

LEMMA SameBags ==
  ASSUME NEW A, NEW B, NEW S
  PROVE  /\ Abstract!(+)(A, B) = A (+) B
         /\ Abstract!(-)(A, B) = A (-) B
         /\ Abstract!\sqsubseteq(A, B) <=> A \sqsubseteq B
         /\ Abstract!SetToBag(S) = SetToBag(S)
         /\ Abstract!BagToSet(A) = DOMAIN A
         /\ Abstract!EmptyBag = EmptyBag
<1>1. Abstract!(+)(A, B) = A (+) B  BY DEF Abstract!(+), (+)
<1>2. Abstract!(-)(A, B) = A (-) B  BY DEF Abstract!(-), (-)
<1>3. Abstract!\sqsubseteq(A, B) <=> A \sqsubseteq B  BY DEF Abstract!\sqsubseteq, \sqsubseteq
<1>4. Abstract!SetToBag(S) = SetToBag(S)  BY DEF Abstract!SetToBag, SetToBag
<1>5. Abstract!BagToSet(A) = DOMAIN A  BY DEF Abstract!BagToSet
<1>6. Abstract!EmptyBag = EmptyBag  BY DEF Abstract!EmptyBag, EmptyBag, Abstract!SetToBag, SetToBag
<1> QED  BY <1>1, <1>2, <1>3, <1>4, <1>5, <1>6

LEMMA DeliverIs ==
  ASSUME NEW c, c \in DOMAIN Owed, Live' = Live (+) SetToBag({c}), Owed' = Owed (-) SetToBag({c})
  PROVE  Abstract!Next
<1>1. Abstract!Deliver(c)  BY SameBags DEF Abstract!Deliver
<1>2. c \in Abstract!BagToSet(Owed)  BY SameBags
<1> QED  BY <1>1, <1>2 DEF Abstract!Next

LEMMA FireIs ==
  ASSUME NEW r \in RuleId, NEW cs \in [Heads(r) -> DOMAIN Live], Abstract!Matches(r, cs),
         BagOf(cs) \sqsubseteq Live, Live' = Live (-) BagOf(cs),
         Owed' = (Owed (+) BagOf([i \in DOMAIN Body(r, cs) |-> Body(r, cs)[i].con]))
                       (+) BagOf(SubSeq(cs, 1, Rules[r].keep))
  PROVE  Abstract!Next
<1>1. Abstract!AddedBy(Body(r, cs)) = BagOf([i \in DOMAIN Body(r, cs) |-> Body(r, cs)[i].con])
  BY SameBagOf DEF Abstract!AddedBy
<1>2. Abstract!Fire(r, cs)  BY <1>1, SameBags, SameBagOf DEF Abstract!Fire
<1>3. cs \in [DOMAIN Rules[r].heads -> Abstract!BagToSet(Live)]  BY SameBags DEF Heads
<1> QED  BY <1>2, <1>3 DEF Abstract!Next, RuleId

(***************************************************************************)
(* The three kinds of steps: idle ones, those that enter a constraint, and *)
(* those that claim the last use of a match.                               *)
(***************************************************************************)
LEMMA LiveSame ==
  ASSUME EngineInv, EngineInv', con' = con, \A s \in Known : Count(s)' = Count(s)
  PROVE  Live' = Live
<1>1. Known' = Known  BY DEF Known
<1>2. Counts' = Counts  BY <1>1 DEF Counts
<1> QED  BY <1>1, <1>2, LiveIs

LEMMA DeliverLive ==
  ASSUME EngineInv, EngineInv', Grown, NEW d \in Known',
         \A s \in Known : Count(s)' = IF s = d THEN Count(s) + 1 ELSE Count(s),
         \A s \in Known' \ Known : s = d /\ Count(s)' = 1
  PROVE  Live' = Live (+) SetToBag({con'[d]})
<1>1. PICK n : n = Counts  OBVIOUS
<1>2. PICK k : k = Counts'  OBVIOUS
<1>3. PICK S : S = Known  OBVIOUS
<1>4. PICK T : T = Known'  OBVIOUS
<1>5. PICK c : c = con'  OBVIOUS
<1>6. Live = Heap(S, n, con) /\ Live' = Heap(T, k, c)  BY <1>1, <1>2, <1>3, <1>4, <1>5, LiveIs
<1>7. /\ IsFiniteSet(T) /\ n \in [S -> Nat] /\ k \in [T -> Nat] /\ IsABag(Live) /\ IsABag(Live')
  BY <1>1, <1>2, <1>3, <1>4, LiveTyped
<1>8. S \subseteq T /\ \A s \in S : c[s] = con[s]  BY <1>3, <1>4, <1>5 DEF Grown
<1>9. \A s \in S : k[s] = IF s = d THEN n[s] + 1 ELSE n[s]
  BY <1>1, <1>2, <1>3, <1>4, <1>8 DEF Counts
<1>10. \A s \in T \ S : s = d /\ k[s] = 1  BY <1>2, <1>3, <1>4 DEF Counts
<1> DEFINE m == [s \in T |-> IF s \in S THEN n[s] ELSE 0]
           g == [i \in {1} |-> d]
<1>11. m \in [T -> Nat] /\ d \in T  BY <1>4, <1>7
<1>12. Heap(T, m, c) = Live
  <2>1. (\A s \in S : m[s] = n[s]) /\ \A s \in T \ S : m[s] = 0  BY <1>8
  <2> HIDE DEF m
  <2> QED  BY <1>6, <1>8, <2>1, HeapExtend
<1>13. \A s \in T : k[s] = m[s] + Cardinality(Fiber({1}, g, s))
  <2> SUFFICES ASSUME NEW s \in T PROVE k[s] = m[s] + Cardinality(Fiber({1}, g, s))  OBVIOUS
  <2>1. Fiber({1}, g, s) = IF s = d THEN {1} ELSE {}  BY DEF Fiber
  <2>2. Cardinality({1}) = 1 /\ Cardinality({}) = 0  BY FS_Singleton, FS_EmptySet
  <2>3. Cardinality(Fiber({1}, g, s)) = IF s = d THEN 1 ELSE 0  BY <2>1, <2>2
  <2>4. k[s] = m[s] + (IF s = d THEN 1 ELSE 0)  BY <1>7, <1>8, <1>9, <1>10
  <2> HIDE DEF m, g
  <2> QED  BY <2>3, <2>4
<1>14. ASSUME NEW e PROVE Copies(Live', e) = Copies(Live, e) + One(e = c[d])
  <2> DEFINE J == {i \in {1} : c[g[i]] = e}
  <2>1. g \in [{1} -> T] /\ IsFiniteSet({1})  BY <1>11, FS_Singleton
  <2>2. J = IF e = c[d] THEN {1} ELSE {}  OBVIOUS
  <2>3. Cardinality({1}) = 1 /\ Cardinality({}) = 0  BY FS_Singleton, FS_EmptySet
  <2>4. Cardinality(J) = One(e = c[d])  BY <2>2, <2>3 DEF One
  <2> HIDE DEF m, g
  <2>5. Copies(Heap(T, k, c), e) = Copies(Heap(T, m, c), e) + Cardinality(J)
    BY <1>7, <1>11, <1>13, <2>1, Piles
  <2> QED  BY <1>6, <1>12, <2>4, <2>5
<1> DEFINE B == SetToBag({c[d]})
<1>15. IsABag(B) /\ \A e : Copies(B, e) = One(e = c[d])  BY SetBagCopies
<1> HIDE DEF B
<1>16. IsABag(Live (+) B) /\ \A e : Copies(Live (+) B, e) = Copies(Live, e) + Copies(B, e)
  BY <1>7, <1>15, BagUnionCopies
<1>17. PICK L : L = Live'  OBVIOUS
<1>18. PICK M : M = Live (+) B  OBVIOUS
<1>19. IsABag(L) /\ IsABag(M) /\ \A e : Copies(L, e) = Copies(M, e)
  BY <1>7, <1>14, <1>15, <1>16, <1>17, <1>18
<1>20. L = M  BY <1>19, BagEqual
<1> QED  BY <1>5, <1>17, <1>18, <1>20 DEF B

LEMMA DeliverOwed ==
  ASSUME EngineInv, EngineInv', NEW t \in Thread, Frame(t), Grown, \A s \in Known : mod'[s] = mod[s],
         NEW q \in Seq(Call), q # << >>, CallsDue(t) = q, CallsDue(t)' = Tail(q),
         NEW c, Head(q).con = c
  PROVE  c \in DOMAIN Owed /\ Owed' = Owed (-) SetToBag({c})
<1>1. IsABag(Owed) /\ IsABag(Owed')  BY OwedChange
<1>2. PICK O : O = Owed  OBVIOUS
<1>3. PICK P : P = Owed'  OBVIOUS
<1>4. ASSUME NEW e
      PROVE  Copies(O, e) = Copies(P, e) + (IF e = c THEN 1 ELSE 0) /\ Copies(P, e) \in Nat
  <2>1. /\ Copies(P, e) + Number(q, With(Call, e)) = Copies(O, e) + Number(Tail(q), With(Call, e))
        /\ Copies(O, e) \in Nat /\ Copies(P, e) \in Nat
        /\ Number(q, With(Call, e)) \in Nat /\ Number(Tail(q), With(Call, e)) \in Nat
    BY <1>2, <1>3, OwedChange
  <2>2. Number(q, With(Call, e)) = Number(Tail(q), With(Call, e)) + One(Head(q) \in With(Call, e))
    BY NumberTail
  <2>3. Head(q) \in Call  BY HeadTailProperties
  <2>4. One(Head(q) \in With(Call, e)) = IF e = c THEN 1 ELSE 0  BY <2>3 DEF With, One
  <2>5. PICK x, y, m, n \in Nat : /\ x = Copies(P, e) /\ y = Copies(O, e)
                                 /\ m = Number(q, With(Call, e)) /\ n = Number(Tail(q), With(Call, e))
    BY <2>1
  <2>6. PICK k \in {0, 1} : k = IF e = c THEN 1 ELSE 0  OBVIOUS
  <2>7. x + m = y + n /\ m = n + k  BY <2>1, <2>2, <2>4, <2>5, <2>6
  <2>8. y = x + k  BY <2>7
  <2> QED  BY <2>5, <2>6, <2>8
<1> DEFINE B == SetToBag({c})
<1>5. IsABag(B) /\ \A e : Copies(B, e) = IF e = c THEN 1 ELSE 0  BY SetBagCopies DEF One
<1> HIDE DEF B
<1>7. \A e : Copies(B, e) <= Copies(O, e)  BY <1>4, <1>5
<1>8. IsABag(O (-) B) /\ \A e : Copies(O (-) B, e) = Copies(O, e) - Copies(B, e)
  BY <1>1, <1>2, <1>5, <1>7, BagMinusCopies
<1>9. \A e : Copies(O (-) B, e) = Copies(P, e)  BY <1>4, <1>5, <1>8
<1>10. P = O (-) B  BY <1>1, <1>3, <1>8, <1>9, BagEqual
<1>11. Copies(O, c) # 0  BY <1>4
<1>12. c \in DOMAIN O  BY <1>11 DEF Copies
<1> QED  BY <1>2, <1>3, <1>10, <1>12 DEF B

LEMMA FireLive ==
  ASSUME EngineInv, EngineInv', con' = con, NEW r \in RuleId, NEW p \in [Heads(r) -> Known],
         NEW cs, cs = [h \in Heads(r) |-> con[p[h]]],
         \A s \in Known : Count(s) = Count(s)' + Cardinality(Fiber(Heads(r), p, s))
  PROVE  /\ cs \in [Heads(r) -> DOMAIN Live] /\ BagOf(cs) \sqsubseteq Live
         /\ Live' = Live (-) BagOf(cs)
<1>1. PICK n : n = Counts  OBVIOUS
<1>2. PICK k : k = Counts'  OBVIOUS
<1>3. PICK S : S = Known  OBVIOUS
<1>4. PICK c : c = con  OBVIOUS
<1>5. Known' = S /\ con' = c  BY <1>3, <1>4 DEF Known
<1>6. Live = Heap(S, n, c) /\ Live' = Heap(S, k, c)  BY <1>1, <1>2, <1>3, <1>4, <1>5, LiveIs
<1>7. /\ IsFiniteSet(S) /\ n \in [S -> Nat] /\ k \in [S -> Nat] /\ IsABag(Live) /\ IsABag(Live')
  BY <1>1, <1>2, <1>3, <1>5, LiveTyped
<1>8. PICK H : H = Heads(r)  OBVIOUS
<1>9. IsFiniteSet(H) /\ p \in [H -> S] /\ cs = [h \in H |-> c[p[h]]]
  BY <1>3, <1>4, <1>8, HeadNumbers
<1>10. \A s \in S : n[s] = k[s] + Cardinality(Fiber(H, p, s))
  BY <1>1, <1>2, <1>3, <1>5, <1>8 DEF Counts
<1>11. PICK L : L = Live  OBVIOUS
<1>12. PICK M : M = Live'  OBVIOUS
<1>13. PICK B : B = BagOf(cs)  OBVIOUS
<1>14. ASSUME NEW e
       PROVE  /\ Copies(L, e) = Copies(M, e) + Copies(B, e)
              /\ Copies(M, e) \in Nat /\ Copies(B, e) \in Nat
              /\ Copies(B, e) = Cardinality(Where(cs, e))
  <2>1. Copies(Heap(S, n, c), e) = Copies(Heap(S, k, c), e) + Cardinality({h \in H : c[p[h]] = e})
    BY <1>7, <1>9, <1>10, Piles
  <2>2. Where(cs, e) = {h \in H : c[p[h]] = e}  BY <1>9 DEF Where
  <2>3. Copies(B, e) = Cardinality(Where(cs, e)) /\ Copies(B, e) \in Nat
    BY <1>9, <1>13, BagOfCopies
  <2>4. Copies(M, e) \in Nat
    <3>1. Copies(M, e) = Cardinality({q \in Cells(S, k) : c[q[1]] = e})
      BY <1>6, <1>7, <1>12, HeapCopies
    <3>2. IsFiniteSet({q \in Cells(S, k) : c[q[1]] = e})
      <4>1. {q \in Cells(S, k) : c[q[1]] = e} \in SUBSET Cells(S, k)  OBVIOUS
      <4> QED  BY <1>7, <4>1, CellsFinite, FS_Subset
    <3> QED  BY <3>1, <3>2, FS_CardinalityType
  <2> QED  BY <1>6, <1>11, <1>12, <2>1, <2>2, <2>3, <2>4
<1>15. IsABag(L) /\ IsABag(M)  BY <1>7, <1>11, <1>12
<1>16. IsABag(B)  BY <1>9, <1>13, BagOfCopies
<1>17. \A e : Copies(B, e) <= Copies(L, e)  BY <1>14
<1>18. IsABag(L (-) B) /\ \A e : Copies(L (-) B, e) = Copies(L, e) - Copies(B, e)
  BY <1>15, <1>16, <1>17, BagMinusCopies
<1>19. \A e : Copies(L (-) B, e) = Copies(M, e)  BY <1>14, <1>18
<1>20. M = L (-) B  BY <1>15, <1>18, <1>19, BagEqual
<1>21. B \sqsubseteq L  BY <1>15, <1>16, <1>17, SubBagCopies
<1>22. ASSUME NEW h \in H PROVE cs[h] \in DOMAIN L
  <2>1. h \in Where(cs, cs[h])  BY <1>9 DEF Where
  <2>2. IsFiniteSet(Where(cs, cs[h]))
    <3>1. Where(cs, cs[h]) \in SUBSET H  BY <1>9 DEF Where
    <3> QED  BY <1>9, <3>1, FS_Subset
  <2>3. Cardinality(Where(cs, cs[h])) # 0  BY <2>1, <2>2, FS_EmptySet
  <2>4. Copies(L, cs[h]) # 0  BY <1>14, <2>3
  <2> QED  BY <2>4 DEF Copies
<1>23. cs \in [H -> DOMAIN L]  BY <1>9, <1>22
<1> QED  BY <1>8, <1>11, <1>12, <1>13, <1>20, <1>21, <1>23

LEMMA KeptCalls ==
  ASSUME TypeOK, NEW l, GoodList(l)
  PROVE  /\ Kept(l) \in Seq(Call) /\ DOMAIN Kept(l) = DOMAIN l.keep
         /\ \A i \in DOMAIN l.keep : Kept(l)[i] \in Call /\ Kept(l)[i].con = con[l.keep[i]]
<1>1. l.keep \in Seq(Known)  BY DEF GoodList, List
<1>2. \A i \in DOMAIN l.keep : l.keep[i] \in Known  BY <1>1, LenProperties, ElementOfSeq
<1>3. ASSUME NEW i \in DOMAIN l.keep
      PROVE  Kept(l)[i] \in Call /\ Kept(l)[i].con = con[l.keep[i]]
  <2>1. con[l.keep[i]] \in Con
    BY <1>2, LenProperties, ElementOfSeq DEF TypeOK, Known
  <2> QED  BY <2>1 DEF Kept, Call
<1>4. DOMAIN Kept(l) = DOMAIN l.keep  BY DEF Kept
<1>5. DOMAIN l.keep = 1..Len(l.keep) /\ Len(l.keep) \in Nat  BY <1>1, LenProperties
<1>6. Kept(l) \in [1..Len(l.keep) -> Call]  BY <1>3, <1>5 DEF Kept
<1>7. Kept(l) \in Seq(Call)  BY <1>5, <1>6, SeqDef
<1> QED  BY <1>3, <1>4, <1>7

\* What is added again is what the kept heads are called with.
LEMMA KeptCopies ==
  ASSUME EngineInv, NEW l, GoodList(l), Complete(l.rule, l.m), Tidy(l), OrderlyRule(l.rule), NEW e
  PROVE  Number(Kept(l), With(Call, e)) =
         Cardinality({h \in KeptHeads(l.rule) : con[ById(l.rule, l.m)[h]] = e})
<1> DEFINE r == l.rule
           p == ById(r, l.m)
           A == {i \in DOMAIN l.keep : con[l.keep[i]] = e}
           B == {h \in KeptHeads(r) : con[p[h]] = e}
           f == [i \in A |-> l.keep[i]]
           g == [h \in B |-> p[h]]
<1>1. Known \subseteq Status  BY Stati DEF EngineInv
<1>2. /\ p \in [Heads(r) -> Known]
      /\ \A s \in Status : Number(l.keep, {s}) = Cardinality(Fiber(KeptHeads(r), p, s))
  BY <1>1, TidyFires
<1>3. /\ r \in RuleId /\ l.keep \in Seq(Known)  BY DEF GoodList, List
<1>4. \A i \in DOMAIN l.keep : l.keep[i] \in Known  BY <1>3, LenProperties, ElementOfSeq
<1>5. KeptHeads(r) \in SUBSET Heads(r) /\ IsFiniteSet(Heads(r))  BY <1>3, HeadNumbers, KeptHeadNumbers
<1>6. Number(Kept(l), With(Call, e)) = Cardinality(A)
  <2>1. Kept(l) \in Seq(Call) /\ DOMAIN Kept(l) = DOMAIN l.keep
        /\ \A i \in DOMAIN l.keep : Kept(l)[i] \in Call /\ Kept(l)[i].con = con[l.keep[i]]
    BY KeptCalls DEF EngineInv
  <2>2. \A i : i \in Pick(Kept(l), With(Call, e)) <=> i \in A  BY <2>1 DEF Pick, With
  <2>3. Pick(Kept(l), With(Call, e)) = A  BY <2>2 DEF Pick
  <2> QED  BY <2>3 DEF Number
<1>7. IsFiniteSet(A) /\ IsFiniteSet(B)
  <2>1. IsFiniteSet(DOMAIN l.keep)  BY <1>3, LenProperties, FS_Interval
  <2>2. A \in SUBSET DOMAIN l.keep /\ B \in SUBSET Heads(r)  BY <1>5
  <2> HIDE DEF A, B
  <2> QED  BY <1>5, <2>1, <2>2, FS_Subset
<1>8. f \in [A -> Known] /\ g \in [B -> Known]  BY <1>2, <1>4, <1>5
<1> HIDE DEF p
<1>9. ASSUME NEW s \in Known PROVE Cardinality(Fiber(A, f, s)) = Cardinality(Fiber(B, g, s))
  <2>1. \A i : i \in Fiber(A, f, s) <=> i \in Pick(l.keep, {s}) /\ con[s] = e
    BY DEF Fiber, Pick
  <2>2. \A h : h \in Fiber(B, g, s) <=> h \in Fiber(KeptHeads(r), p, s) /\ con[s] = e
    BY DEF Fiber
  <2>3. CASE con[s] = e
    <3>1. Fiber(A, f, s) = Pick(l.keep, {s})  BY <2>1, <2>3 DEF Fiber, Pick
    <3>2. Fiber(B, g, s) = Fiber(KeptHeads(r), p, s)  BY <2>2, <2>3 DEF Fiber
    <3> HIDE DEF A, B, f, g, r
    <3> QED  BY <1>1, <1>2, <3>1, <3>2 DEF Number
  <2>4. CASE con[s] # e
    <3>1. Fiber(A, f, s) = {} /\ Fiber(B, g, s) = {}  BY <2>1, <2>2, <2>4
    <3> HIDE DEF A, B, f, g, r
    <3> QED  BY <3>1
  <2> QED  BY <2>3, <2>4
<1>10. Cardinality(A) = Cardinality(B)
  <2> HIDE DEF A, B, f, g
  <2> QED  BY <1>7, <1>8, <1>9, Fibers, SMTT(30)
<1> QED  BY <1>6, <1>10 DEF p

LEMMA FireMatches ==
  ASSUME TypeOK, NEW r \in RuleId, NEW p \in [Heads(r) -> Known], Named(r, p), Consistent(r, p),
         NEW cs, cs = [h \in Heads(r) |-> con[p[h]]]
  PROVE  Abstract!Matches(r, cs)
<1>1. \A h \in Heads(r) : p[h] # None /\ cs[h] = con[p[h]]  BY Stati
<1>2. \A h \in Heads(r) : cs[h].name = HeadName(r, h)  BY <1>1 DEF Named
<1>3. Rules[r].ignore \/ Agree(r, p)  BY ConsistentIs
<1>4. Agree(r, p) => \A g, h \in Heads(r) : \A i \in DOMAIN HeadVars(r, g), j \in DOMAIN HeadVars(r, h) :
        HeadVars(r, g)[i] = HeadVars(r, h)[j] => cs[g].args[i] = cs[h].args[j]
  BY <1>1 DEF Agree, Matched
<1> QED  BY <1>2, <1>3, <1>4 DEF Abstract!Matches, Heads, HeadName, HeadVars

\* Rule r, fired by cs, adds its body and the constraints it keeps to what is owed.
OwedGrows(r, cs) ==
  Owed' = (Owed (+) BagOf([i \in DOMAIN Body(r, cs) |-> Body(r, cs)[i].con]))
                (+) BagOf(SubSeq(cs, 1, Rules[r].keep))

LEMMA FireOwed ==
  ASSUME EngineInv, EngineInv', NEW t \in Thread, Frame(t), Grown, \A s \in Known : mod'[s] = mod[s],
         NEW l, GoodList(l), Complete(l.rule, l.m), Tidy(l), OrderlyRule(l.rule),
         NEW r, r = l.rule, NEW cs, cs = RuleOrdered(l),
         CallsDue(t)' = Epilogue(l) \o CallsDue(t)
  PROVE  OwedGrows(r, cs)
<1>1. PICK O : O = Owed  OBVIOUS
<1>2. PICK P : P = Owed'  OBVIOUS
<1>3. PICK q : q = CallsDue(t)  OBVIOUS
<1>4. PICK b : b = Body(r, cs)  OBVIOUS
<1>5. PICK k : k = Kept(l)  OBVIOUS
<1>6. PICK w : w = SubSeq(cs, 1, Rules[r].keep)  OBVIOUS
<1>7. PICK f : f = [i \in DOMAIN b |-> b[i].con]  OBVIOUS
<1>8. b \in Seq(Call) /\ k \in Seq(Call) /\ q \in Seq(Call)
  <2>1. r \in RuleId  BY DEF GoodList
  <2>2. cs \in [Heads(r) -> Con] /\ \A h \in Heads(r) : cs[h].name = HeadName(r, h)
    BY RuleOrderedNames DEF EngineInv, TypeOK
  <2>3. b \in Seq(Call)  BY <1>4, <2>1, <2>2, ThreadAssumption
  <2>4. q \in Seq(Call)
    <3>1. PICK d : d = Due  OBVIOUS
    <3>2. d \in [Thread -> Seq(Call)]  BY <3>1, DueTyped
    <3> QED  BY <1>3, <3>1, <3>2 DEF Due
  <2>5. k \in Seq(Call)  BY <1>5, KeptCalls DEF EngineInv
  <2> QED  BY <2>3, <2>4, <2>5
<1>9. CallsDue(t)' = (b \o k) \o q  BY <1>3, <1>4, <1>5 DEF Epilogue
<1>10. IsFiniteSet(DOMAIN f) /\ \A e : Cardinality(Where(f, e)) = Number(b, With(Call, e))
  <2>1. DOMAIN b = 1..Len(b) /\ Len(b) \in Nat /\ \A i \in DOMAIN b : b[i] \in Call
    BY <1>8, LenProperties, ElementOfSeq
  <2>2. IsFiniteSet(DOMAIN f)
    <3>1. 1 \in Int /\ Len(b) \in Int /\ DOMAIN f = 1..Len(b)  BY <1>7, <2>1
    <3> QED  BY <3>1, FS_Interval
  <2>3. ASSUME NEW e PROVE Where(f, e) = Pick(b, With(Call, e))
    BY <1>7, <2>1 DEF Where, Pick, With
  <2> QED  BY <2>2, <2>3 DEF Number
<1>11. IsFiniteSet(DOMAIN w) /\ \A e : Cardinality(Where(w, e)) = Number(k, With(Call, e))
  <2> DEFINE n == Rules[r].keep
             p == ById(r, l.m)
  <2>1. r \in RuleId /\ Known \subseteq Status  BY Stati DEF GoodList, EngineInv
  <2>2. /\ n \in Nat /\ KeptHeads(r) = 1..n /\ KeptHeads(r) \in SUBSET Heads(r)
        /\ Heads(r) = 1..Len(Rules[r].heads) /\ Len(Rules[r].heads) \in Nat
    BY <2>1, HeadNumbers, KeptHeadNumbers DEF KeptHeads
  <2>3. cs = [h \in Heads(r) |-> con[p[h]]]  BY DEF RuleOrdered
  <2>4. DOMAIN w = 1..n /\ \A h \in 1..n : w[h] = cs[h]
    <3> HIDE DEF n
    <3>1. \A h \in 1..n : h \in DOMAIN cs  BY <2>2, <2>3
    <3>2. w = SubSeq(cs, 1, n)  BY <1>6 DEF n
    <3>3. \A i \in 1..n : cs[i] \in Range(cs)  BY <3>1 DEF Range
    <3>4. 1 \in Int /\ n \in Int  BY <2>2
    <3>5. /\ w \in Seq(Range(cs))
          /\ Len(w) = (IF 1 <= n THEN n - 1 + 1 ELSE 0)
          /\ \A i \in 1..(n - 1 + 1) : w[i] = cs[1 + i - 1]
      BY <3>2, <3>3, <3>4, SubSeqProperties
    <3>6. Len(w) = n  BY <2>2, <3>5
    <3>7. DOMAIN w = 1..n  BY <3>5, <3>6, LenProperties
    <3>8. n - 1 + 1 = n /\ \A i \in 1..n : 1 + i - 1 = i  BY <2>2
    <3> QED  BY <3>5, <3>7, <3>8
  <2>5. ASSUME NEW e PROVE Where(w, e) = {h \in KeptHeads(r) : con[p[h]] = e}
    <3> HIDE DEF n, p
    <3> QED  BY <2>2, <2>3, <2>4 DEF Where
  <2>6. \A e : Number(k, With(Call, e)) = Cardinality({h \in KeptHeads(r) : con[p[h]] = e})
    BY <1>5, KeptCopies
  <2>7. IsFiniteSet(DOMAIN w)
    <3> HIDE DEF n
    <3> QED  BY <2>2, <2>4, FS_Interval
  <2> HIDE DEF p
  <2> QED  BY <2>5, <2>6, <2>7
<1>12. ASSUME NEW e
       PROVE  /\ Copies(P, e) = Copies(O, e) + Copies(BagOf(f), e) + Copies(BagOf(w), e)
              /\ Copies(O, e) \in Nat
  <2>1. PICK x : x = CallsDue(t)'  OBVIOUS
  <2>2. x = (b \o k) \o q  BY <1>9, <2>1
  <2>3. /\ Copies(P, e) + Number(q, With(Call, e)) = Copies(O, e) + Number(x, With(Call, e))
        /\ Copies(O, e) \in Nat /\ Copies(P, e) \in Nat
    BY <1>1, <1>2, <1>3, <2>1, OwedChange
  <2>4. b \o k \in Seq(Call)  BY <1>8, ConcatProperties
  <2>5. /\ Number(x, With(Call, e)) = Number(b \o k, With(Call, e)) + Number(q, With(Call, e))
        /\ Number(b \o k, With(Call, e)) = Number(b, With(Call, e)) + Number(k, With(Call, e))
    <3>1. q \in Seq(Call) /\ b \in Seq(Call) /\ k \in Seq(Call)  BY <1>8
    <3>2. Number(b \o k, With(Call, e)) = Number(b, With(Call, e)) + Number(k, With(Call, e))
      BY <3>1, NumberConcat
    <3>3. Number((b \o k) \o q, With(Call, e)) = Number(b \o k, With(Call, e)) + Number(q, With(Call, e))
      BY <2>4, <3>1, NumberConcat
    <3> QED  BY <2>2, <3>2, <3>3
  <2>6. /\ Number(q, With(Call, e)) \in Nat /\ Number(b, With(Call, e)) \in Nat
        /\ Number(k, With(Call, e)) \in Nat
    BY <1>8, PickFinite
  <2>7. /\ Copies(BagOf(f), e) = Number(b, With(Call, e))
        /\ Copies(BagOf(w), e) = Number(k, With(Call, e))
    BY <1>10, <1>11, BagOfCopies
  <2>8. Copies(P, e) = Copies(O, e) + Number(b, With(Call, e)) + Number(k, With(Call, e))
    <3>1. PICK v, y, i, j, m \in Nat :
            /\ v = Copies(P, e) /\ y = Copies(O, e) /\ m = Number(q, With(Call, e))
            /\ i = Number(b, With(Call, e)) /\ j = Number(k, With(Call, e))
      BY <2>3, <2>6
    <3>2. v + m = y + ((i + j) + m)  BY <2>3, <2>5, <3>1
    <3>3. v = y + i + j  BY <3>2
    <3> QED  BY <3>1, <3>3
  <2> QED  BY <2>3, <2>7, <2>8
<1>13. IsABag(O) /\ IsABag(P)  BY <1>1, <1>2, OwedChange
<1>14. IsABag(BagOf(f)) /\ IsABag(BagOf(w))  BY <1>10, <1>11, BagOfCopies
<1>15. PICK M : M = O (+) BagOf(f)  OBVIOUS
<1>16. IsABag(M) /\ \A e : Copies(M, e) = Copies(O, e) + Copies(BagOf(f), e)
  BY <1>13, <1>14, <1>15, BagUnionCopies
<1>17. /\ IsABag(M (+) BagOf(w))
       /\ \A e : Copies(M (+) BagOf(w), e) = Copies(M, e) + Copies(BagOf(w), e)
  BY <1>14, <1>16, BagUnionCopies
<1>18. \A e : Copies(P, e) = Copies(M (+) BagOf(w), e)  BY <1>12, <1>16, <1>17
<1>19. P = M (+) BagOf(w)  BY <1>13, <1>17, <1>18, BagEqual
<1> QED  BY <1>1, <1>2, <1>4, <1>6, <1>7, <1>15, <1>19 DEF OwedGrows

LEMMA IdleIs == ASSUME Live' = Live, Owed' = Owed PROVE Abstract!Next
BY DEF Abstract!Next, Abstract!Idle

LEMMA NoShare ==
  ASSUME NEW t, NEW s
  PROVE  /\ held[t] = {} \/ Firing(t) => Share(t, s) = {} /\ Cardinality(Share(t, s)) = 0
         /\ held'[t] = {} \/ Firing(t)' => Share(t, s)' = {} /\ Cardinality(Share(t, s)') = 0
<1>1. Cardinality({}) = 0  BY FS_EmptySet
<1>2. held[t] = {} \/ Firing(t) => Share(t, s) = {}  BY DEF Share
<1>3. held'[t] = {} \/ Firing(t)' => Share(t, s)' = {}  BY DEF Share
<1> QED  BY <1>1, <1>2, <1>3

\* A step that shows nothing: the copies that are pending and those that its thread
\* may give back stay as many, and the calls that are due the same.
LEMMA IdleStep ==
  ASSUME EngineInv, EngineInv', NEW t \in Thread, Frame(t), con' = con, mod' = mod,
         CallsDue(t)' = CallsDue(t),
         \A s \in Status : pending'[s] + Cardinality(Share(t, s)') =
                           pending[s] + Cardinality(Share(t, s))
  PROVE  Abstract!Next
<1>1. Grown /\ Known \subseteq Status  BY SameTypes, Stati DEF EngineInv
<1>2. ASSUME NEW s \in Known PROVE Count(s)' = Count(s)
  <2>1. PICK a : a = Count(s)'  OBVIOUS
  <2>2. PICK b : b = Cardinality(Share(t, s)')  OBVIOUS
  <2>3. s \in Status /\ pending[s] \in Nat /\ pending'[s] \in Nat
    BY <1>1 DEF EngineInv, TypeOK
  <2>4. /\ Count(s) \in Nat /\ a \in Nat
        /\ Cardinality(Share(t, s)) \in Nat /\ b \in Nat
        /\ a + pending[s] + Cardinality(Share(t, s)) = Count(s) + pending'[s] + b
    BY <2>1, <2>2, <2>3, CountChange
  <2>5. pending'[s] + b = pending[s] + Cardinality(Share(t, s))  BY <2>2, <2>3
  <2>6. a = Count(s)  BY <2>3, <2>4, <2>5
  <2> QED  BY <2>1, <2>6
<1>3. Live' = Live  BY <1>2, LiveSame
<1>4. Owed' = Owed  BY <1>1, OwedSame
<1> QED  BY <1>3, <1>4, IdleIs

LEMMA IdleOutside ==
  ASSUME EngineInv, EngineInv', NEW t \in Thread, Frame(t), con' = con, mod' = mod, pending' = pending,
         calls'[t] = calls[t], ~Firing(t), ~Firing(t)', held[t] = {}, held'[t] = {}
  PROVE  Abstract!Next
<1>1. CallsDue(t)' = CallsDue(t)  BY DEF CallsDue
<1>2. \A s \in Status : pending'[s] + Cardinality(Share(t, s)') =
                        pending[s] + Cardinality(Share(t, s))
  BY NoShare
<1> QED  BY <1>1, <1>2, IdleStep

LEMMA IdleFiring ==
  ASSUME EngineInv, EngineInv', NEW t \in Thread, Frame(t), con' = con, mod' = mod, pending' = pending,
         calls'[t] = calls[t], Firing(t), Firing(t)', list'[t] = list[t]
  PROVE  Abstract!Next
<1>1. PICK l : l = list[t]  OBVIOUS
<1>2. GoodList(l) /\ Complete(l.rule, l.m)
  BY <1>1 DEF Firing, EngineInv, ThreadInv, Matching, Whole
<1>3. Grown  BY SameTypes
<1>4. Epilogue(l)' = Epilogue(l)  BY <1>2, <1>3, EpilogueStable DEF EngineInv
<1>5. CallsDue(t)' = Epilogue(l)' \o calls'[t]  BY <1>1 DEF CallsDue
<1>6. CallsDue(t) = Epilogue(l) \o calls[t]  BY <1>1 DEF CallsDue
<1>7. CallsDue(t)' = CallsDue(t)  BY <1>4, <1>5, <1>6
<1>8. \A s \in Status : pending'[s] + Cardinality(Share(t, s)') =
                        pending[s] + Cardinality(Share(t, s))
  BY NoShare
<1> QED  BY <1>7, <1>8, IdleStep

\* A call that enters its constraint: one more copy of a status, or the first.
LEMMA DeliverStep ==
  ASSUME EngineInv, EngineInv', NEW t \in Thread, Frame(t), Grown, \A s \in Known : mod'[s] = mod[s],
         ~Firing(t), ~Firing(t)', held[t] = {}, held'[t] = {},
         calls[t] # << >>, calls'[t] = Tail(calls[t]),
         NEW d \in Known', con'[d] = Head(calls[t]).con, Known' \subseteq Known \cup {d},
         \A s \in Known : pending'[s] = IF s = d THEN pending[s] + 1 ELSE pending[s],
         d \notin Known => pending'[d] = 1 /\ Rest(t, d) = {}
  PROVE  Abstract!Next
<1> DEFINE c == Head(calls[t]).con
<1>1. Known \subseteq Status /\ Known' \subseteq Status
  <2>1. TypeOK' /\ TypeOK  BY DEF EngineInv
  <2>2. Known' = 1..Len(con') /\ Len(con') \in Nat /\ Len(con') <= MaxStatus
    BY <2>1, LenProperties DEF TypeOK, Known
  <2>3. MaxStatus \in Nat  BY RulesAssumption
  <2> QED  BY <2>1, <2>2, <2>3, Stati DEF Status
<1>2. ASSUME NEW s \in Status
      PROVE  /\ Count(s) \in Nat /\ Count(s)' \in Nat
             /\ Count(s)' + pending[s] = Count(s) + pending'[s]
  <2>1. PICK a : a = Count(s)'  OBVIOUS
  <2>2. PICK b : b = Cardinality(Share(t, s)')  OBVIOUS
  <2>3. /\ Count(s) \in Nat /\ a \in Nat
        /\ a + pending[s] + Cardinality(Share(t, s)) = Count(s) + pending'[s] + b
    BY <2>1, <2>2, CountChange
  <2>4. b = 0 /\ Cardinality(Share(t, s)) = 0  BY <2>2, NoShare
  <2>5. pending[s] \in Nat /\ pending'[s] \in Nat  BY DEF EngineInv, TypeOK
  <2>6. a + pending[s] = Count(s) + pending'[s]  BY <2>3, <2>4, <2>5
  <2> QED  BY <2>1, <2>3, <2>6
<1>3. ASSUME NEW s \in Known PROVE Count(s)' = IF s = d THEN Count(s) + 1 ELSE Count(s)
  <2>1. PICK a : a = Count(s)'  OBVIOUS
  <2>2. Count(s) \in Nat /\ a \in Nat /\ a + pending[s] = Count(s) + pending'[s]
    BY <1>1, <1>2, <2>1
  <2>3. pending[s] \in Nat  BY <1>1 DEF EngineInv, TypeOK
  <2>4. a = IF s = d THEN Count(s) + 1 ELSE Count(s)  BY <2>2, <2>3
  <2> QED  BY <2>1, <2>4
<1>4. ASSUME NEW s \in Known' \ Known PROVE s = d /\ Count(s)' = 1
  <2>1. PICK a : a = Count(s)'  OBVIOUS
  <2>2. s = d  OBVIOUS
  <2>3. s \in Status  BY <1>1
  <2>4. Count(s) = pending[s]
    <3>1. /\ Count(s) = pending[s] + Cardinality(Rest(t, s)) + Cardinality(Share(t, s))
      BY <2>3, CountParts
    <3>2. Cardinality(Rest(t, s)) = 0 /\ Cardinality(Share(t, s)) = 0
      BY <2>2, NoShare, FS_EmptySet
    <3>3. pending[s] \in Nat  BY <2>3 DEF EngineInv, TypeOK
    <3> QED  BY <3>1, <3>2, <3>3
  <2>5. Count(s) \in Nat /\ a \in Nat /\ a + pending[s] = Count(s) + pending'[s] /\ pending'[s] = 1
    BY <1>2, <2>1, <2>2, <2>3
  <2>6. a = 1  BY <2>4, <2>5
  <2> QED  BY <2>1, <2>2, <2>6
<1>5. Live' = Live (+) SetToBag({con'[d]})  BY <1>3, <1>4, DeliverLive
<1>6. PICK q : q = calls[t]  OBVIOUS
<1>7. q \in Seq(Call) /\ q # << >>  BY <1>6 DEF EngineInv, TypeOK
<1>8. CallsDue(t) = q /\ CallsDue(t)' = Tail(q)
  <2>1. Tail(q) \in Seq(Call)  BY <1>7, HeadTailProperties
  <2>2. << >> \o q = q /\ << >> \o Tail(q) = Tail(q)  BY <1>7, <2>1, ConcatEmptySeq
  <2> QED  BY <1>6, <2>2 DEF CallsDue
<1>9. c \in DOMAIN Owed /\ Owed' = Owed (-) SetToBag({c})
  <2> HIDE DEF c
  <2>1. Head(q).con = c  BY <1>6 DEF c
  <2> QED  BY <1>7, <1>8, <2>1, DeliverOwed
<1>10. Live' = Live (+) SetToBag({c})  BY <1>5
<1> HIDE DEF c
<1> QED  BY <1>9, <1>10, DeliverIs

LEMMA MakeCallStep ==
  ASSUME EngineInv, EngineInv', NEW t \in Thread, MakeCall(t)
  PROVE  Abstract!Next
<1> USE DEF EngineInv
<1> DEFINE c == Head(calls[t]).con
           b == Bucket(FirstArgKey(c))
           twins == {i \in DOMAIN b : con[b[i]] = c}
           d == IF twins = {} THEN None ELSE b[Least(twins)]
<1>1. /\ pc[t] = "ready" /\ calls[t] # << >>
      /\ \E op, run : InsertCounted(t, c, op, run)
  BY DEF MakeCall
<1>2. PICK op, run : InsertCounted(t, c, op, run)  BY <1>1
<1>3. /\ IF d = None THEN Jump(t, "allocate") /\ UNCHANGED <<pending, calls>>
         ELSE /\ pending' = [pending EXCEPT ![d] = @ + 1]
              /\ calls' = [calls EXCEPT ![t] = Tail(@)]
              /\ Jump(t, IF op = "sync" THEN "try" ELSE "enqueue")
      /\ UNCHANGED <<con, mod, claimed, tokens, bucket, tasks, keys, list, cur, held>>
  BY <1>2 DEF InsertCounted
<1>4. Frame(t) /\ Grown  BY MakeCallInv
<1>5. held[t] = {} /\ held'[t] = {} /\ ~Firing(t)
  BY <1>1, <1>3 DEF ThreadInv, Empty, Firing
<1>6. Known' = Known  BY <1>3 DEF Known
<1>7. CASE d = None
  <2>1. pc'[t] = "allocate"  BY <1>3, <1>7 DEF Jump, TypeOK
  <2>2. ~Firing(t)'  BY <2>1 DEF Firing
  <2>3. pending' = pending /\ calls' = calls /\ con' = con /\ mod' = mod  BY <1>3, <1>7
  <2> QED  BY <1>4, <1>5, <2>2, <2>3, IdleOutside
<1>8. CASE d # None
  <2>1. d \in Known /\ con[d] = c
    <3>1. b \in Seq(Known)  BY BucketTyped
    <3>2. DOMAIN b \subseteq Nat /\ \A i \in DOMAIN b : b[i] \in Known
      BY <3>1, LenProperties, ElementOfSeq
    <3> HIDE DEF b
    <3>3. twins \in SUBSET Nat /\ twins # {}  BY <1>8, <3>2
    <3>4. Least(twins) \in twins  BY <3>3, LeastIn
    <3>5. d = b[Least(twins)]  BY <1>8
    <3> QED  BY <3>2, <3>4, <3>5
  <2>2. /\ pending' = [pending EXCEPT ![d] = @ + 1]
        /\ calls' = [calls EXCEPT ![t] = Tail(@)]
        /\ Jump(t, IF op = "sync" THEN "try" ELSE "enqueue")
    BY <1>3, <1>8
  <2>3. pc'[t] \in {"try", "enqueue"}  BY <2>2 DEF Jump, TypeOK
  <2>4. ~Firing(t)'  BY <2>3 DEF Firing
  <2>5. calls'[t] = Tail(calls[t])  BY <2>2 DEF TypeOK
  <2>6. PICK s : s = d  OBVIOUS
  <2>7. s \in Known /\ con'[s] = Head(calls[t]).con  BY <1>3, <2>1, <2>6
  <2>8. \A u \in Known : pending'[u] = IF u = s THEN pending[u] + 1 ELSE pending[u]
    BY <2>2, <2>6, Stati DEF TypeOK
  <2>9. \A u \in Known : mod'[u] = mod[u]  BY <1>3
  <2> HIDE DEF d
  <2> QED  BY <1>1, <1>4, <1>5, <1>6, <2>4, <2>5, <2>7, <2>8, <2>9, DeliverStep
<1> QED  BY <1>7, <1>8

\* A thread claims only uses of its checklist.
HeldIn == \A u \in Thread : held[u] \subseteq DOMAIN list[u].used

LEMMA AllocateStep ==
  ASSUME EngineInv, EngineInv', HeldIn, NEW t \in Thread, Allocate(t)
  PROVE  Abstract!Next
<1> USE DEF EngineInv
<1> DEFINE c == Head(calls[t]).con
           d == Len(con) + 1
<1>1. /\ pc[t] = "allocate" /\ con' = Append(con, c)
      /\ mod' = [mod EXCEPT ![d] = IF job[t].op = "sync" THEN "SYNC" ELSE "ASYNC"]
      /\ pending' = [pending EXCEPT ![d] = 1]
      /\ calls' = [calls EXCEPT ![t] = Tail(@)]
      /\ Jump(t, "index") /\ held' = held /\ d \in Status
  BY DEF Allocate
<1>2. Frame(t) /\ Grown  BY AllocateInv
<1>3. held[t] = {} /\ held'[t] = {} /\ ~Firing(t) /\ calls[t] # << >>
  BY <1>1 DEF ThreadInv, Empty, Firing
<1>4. pc'[t] = "index"  BY <1>1 DEF Jump, TypeOK
<1>5. ~Firing(t)'  BY <1>4 DEF Firing
<1>6. calls'[t] = Tail(calls[t])  BY <1>1 DEF TypeOK
<1>7. Known = 1..Len(con) /\ Len(con) \in Nat /\ Known \subseteq Status  BY Stati
<1>8. c \in Con
  <2>1. calls[t] \in Seq(Call)  BY DEF TypeOK
  <2>2. Head(calls[t]) \in Call  BY <1>3, <2>1, HeadTailProperties
  <2> QED  BY <2>2 DEF Call
<1>9. Known' = 1..d /\ con'[d] = c
  <2> HIDE DEF c
  <2>1. con \in Seq(Con)  BY DEF TypeOK
  <2> QED  BY <1>1, <1>7, <1>8, <2>1, AppendProperties, LenProperties DEF Known
<1>10. d \notin Known /\ d \in Known' /\ Known' \subseteq Known \cup {d}  BY <1>7, <1>9
<1>11. \A s \in Known : s # d /\ s \in Status  BY <1>7, <1>10
<1>12. \A s \in Known : mod'[s] = mod[s] /\ pending'[s] = pending[s]
  BY <1>1, <1>11 DEF TypeOK
<1>13. pending'[d] = 1  BY <1>1 DEF TypeOK
<1>14. Rest(t, d) = {}
  <2>1. ASSUME NEW u \in Thread, NEW i \in held[u], list[u].used[i] = d PROVE FALSE
    <3>1. i \in DOMAIN list[u].used  BY DEF HeldIn
    <3>2. list[u].used \in Seq(Known)  BY DEF TypeOK, List
    <3>3. list[u].used[i] \in Known  BY <3>1, <3>2, LenProperties, ElementOfSeq
    <3> QED  BY <1>10, <2>1, <3>3
  <2>2. \A o : o \notin Owners(d)  BY <2>1, OwnerIs
  <2> QED  BY <2>2 DEF Rest
<1>15. PICK s : s = d  OBVIOUS
<1>16. con'[s] = Head(calls[t]).con  BY <1>9, <1>15
<1> HIDE DEF c, d
<1> QED  BY <1>2, <1>3, <1>5, <1>6, <1>10, <1>11, <1>12, <1>13, <1>14, <1>15, <1>16, DeliverStep

\* A step that completes a match: its constraints are taken from the live ones, and
\* the calls of the rule become due.
LEMMA FireStep ==
  ASSUME EngineInv, EngineInv', NEW t \in Thread, Frame(t), con' = con, mod' = mod,
         calls'[t] = calls[t], ~Firing(t), Firing(t)', NEW l, list'[t] = l,
         GoodList(l), Complete(l.rule, l.m), Tidy(l), OrderlyRule(l.rule),
         \A s \in Status : pending[s] + Cardinality(Share(t, s)) =
                           pending'[s] + Number(l.used, {s})
  PROVE  Abstract!Next
<1> USE DEF EngineInv
<1> DEFINE r == l.rule
           p == ById(r, l.m)
           cs == RuleOrdered(l)
<1>1. Grown /\ r \in RuleId /\ Known \subseteq Status  BY SameTypes, Stati DEF GoodList
<1>2. CallsDue(t)' = Epilogue(l) \o CallsDue(t)
  <2>1. CallsDue(t)' = Epilogue(l)' \o calls'[t]  BY DEF CallsDue
  <2>2. Epilogue(l)' = Epilogue(l)  BY <1>1, EpilogueStable
  <2>3. CallsDue(t) = calls[t]
    <3>1. << >> \o calls[t] = calls[t]  BY ConcatEmptySeq DEF TypeOK
    <3> QED  BY <3>1 DEF CallsDue
  <2> QED  BY <2>1, <2>2, <2>3
<1>3. /\ p \in [Heads(r) -> Known] /\ Named(r, p) /\ Consistent(r, p)
      /\ \A s \in Status : Number(l.used, {s}) = Cardinality(Fiber(Heads(r), p, s))
  BY <1>1, TidyFires
<1>4. cs = [h \in Heads(r) |-> con[p[h]]]  BY DEF RuleOrdered
<1>5. ASSUME NEW s \in Status PROVE Count(s) = Count(s)' + Number(l.used, {s})
  <2>1. PICK a : a = Count(s)'  OBVIOUS
  <2>2. PICK b : b = Cardinality(Share(t, s)')  OBVIOUS
  <2>3. /\ Count(s) \in Nat /\ a \in Nat /\ Cardinality(Share(t, s)) \in Nat
        /\ a + pending[s] + Cardinality(Share(t, s)) = Count(s) + pending'[s] + b
    BY <2>1, <2>2, CountChange
  <2>4. b = 0  BY <2>2, NoShare
  <2>5. pending[s] + Cardinality(Share(t, s)) = pending'[s] + Number(l.used, {s})  OBVIOUS
  <2>6. pending[s] \in Nat /\ pending'[s] \in Nat  BY DEF TypeOK
  <2>7. Number(l.used, {s}) \in Nat  BY PickFinite DEF GoodList, List
  <2>8. PICK c : c = Cardinality(Share(t, s))  OBVIOUS
  <2>9. PICK n : n = Number(l.used, {s})  OBVIOUS
  <2>10. PICK k : k = Count(s)  OBVIOUS
  <2>11. /\ k \in Nat /\ a \in Nat /\ c \in Nat /\ n \in Nat
         /\ a + pending[s] + c = k + pending'[s] /\ pending[s] + c = pending'[s] + n
    BY <2>3, <2>4, <2>5, <2>6, <2>7, <2>8, <2>9, <2>10
  <2>12. k = a + n  BY <2>6, <2>11
  <2> QED  BY <2>1, <2>9, <2>10, <2>12
<1>6. \A s \in Known : Count(s) = Count(s)' + Cardinality(Fiber(Heads(r), p, s))
  BY <1>1, <1>3, <1>5
<1>7. PICK x : x = r  OBVIOUS
<1>8. PICK y : y = cs  OBVIOUS
<1>9. PICK z : z = p  OBVIOUS
<1>10. /\ x = l.rule /\ y = RuleOrdered(l) /\ x \in RuleId /\ z \in [Heads(x) -> Known]
       /\ y = [h \in Heads(x) |-> con[z[h]]] /\ Named(x, z) /\ Consistent(x, z)
       /\ \A s \in Known : Count(s) = Count(s)' + Cardinality(Fiber(Heads(x), z, s))
  BY <1>1, <1>3, <1>4, <1>6, <1>7, <1>8, <1>9
<1> HIDE DEF cs, p, r
<1>11. /\ y \in [Heads(x) -> DOMAIN Live] /\ BagOf(y) \sqsubseteq Live
       /\ Live' = Live (-) BagOf(y)
  BY <1>10, FireLive
<1>12. Abstract!Matches(x, y)  BY <1>10, FireMatches
<1>13. Owed' = (Owed (+) BagOf([j \in DOMAIN Body(x, y) |-> Body(x, y)[j].con]))
                      (+) BagOf(SubSeq(y, 1, Rules[x].keep))
  <2>1. \A s \in Known : mod'[s] = mod[s]  OBVIOUS
  <2>2. x = l.rule /\ y = RuleOrdered(l)  BY <1>10
  <2>3. GoodList(l) /\ Complete(l.rule, l.m) /\ Tidy(l) /\ OrderlyRule(l.rule)  OBVIOUS
  <2>4. Frame(t) /\ Grown /\ CallsDue(t)' = Epilogue(l) \o CallsDue(t)  BY <1>1, <1>2
  <2> HIDE DEF EngineInv
  <2>5. OwedGrows(x, y)  BY <2>1, <2>2, <2>3, <2>4, FireOwed
  <2> QED  BY <2>5 DEF OwedGrows
<1> QED  BY <1>10, <1>11, <1>12, <1>13, FireIs

LEMMA AfterUseStep ==
  ASSUME EngineInv, EngineInv', NEW t \in Thread, NEW silent, PushToken(t) \/ ConsumeUse(t, silent)
  PROVE  Abstract!Next
<1> USE DEF EngineInv
<1>1. /\ pc[t] \in {"consume", "token"} /\ con' = con /\ mod' = mod /\ pending' = pending
      /\ calls' = calls /\ (AfterUse(t) \/ Search(t, "token", list[t], cur[t]))
  BY DEF PushToken, ConsumeUse
<1>2. pc'[t] \in {"consume", "token", "body"} /\ list'[t] = list[t]
  <2>1. CASE AfterUse(t)  BY <2>1, SearchQuiet DEF AfterUse
  <2>2. CASE Search(t, "token", list[t], cur[t])  BY <2>2, SearchQuiet
  <2> QED  BY <1>1, <2>1, <2>2
<1>3. Frame(t)  BY PushTokenInv, ConsumeUseInv
<1>4. Firing(t) /\ Firing(t)'  BY <1>1, <1>2 DEF Firing
<1> QED  BY <1>1, <1>2, <1>3, <1>4, IdleFiring

\* The thread makes the calls of the rule now that it owed before.
LEMMA RunBodyStep ==
  ASSUME EngineInv, EngineInv', NEW t \in Thread, RunBody(t)
  PROVE  Abstract!Next
<1> USE DEF EngineInv
<1>1. /\ pc[t] = "body" /\ con' = con /\ mod' = mod /\ pending' = pending /\ held' = held
      /\ calls' = [calls EXCEPT ![t] = Epilogue(list[t]) \o @] /\ Return(t, TRUE, FALSE)
  BY DEF RunBody, store
<1>2. Frame(t)  BY RunBodyInv
<1>3. Firing(t) /\ ~Firing(t)' /\ held[t] = {} /\ held'[t] = {}
  BY <1>1, ReturnQuiet DEF Firing, Looping, ThreadInv, Empty
<1>4. CallsDue(t)' = CallsDue(t)
  <2>1. PICK q : q = Epilogue(list[t]) \o calls[t]  OBVIOUS
  <2>2. CallsDue(t) = q  BY <1>3, <2>1 DEF CallsDue
  <2>3. calls'[t] = q  BY <1>1, <2>1 DEF TypeOK
  <2>4. q \in Seq(Call)  BY <2>3 DEF TypeOK
  <2>5. << >> \o q = q  BY <2>4, ConcatEmptySeq
  <2> QED  BY <1>3, <2>2, <2>3, <2>5 DEF CallsDue
<1>5. \A s \in Status : pending'[s] + Cardinality(Share(t, s)') =
                        pending[s] + Cardinality(Share(t, s))
  BY <1>1, <1>3, NoShare
<1> QED  BY <1>1, <1>2, <1>4, <1>5, IdleStep

\* The other steps that the strategies share.
LEMMA CommonIdle ==
  ASSUME EngineInv, EngineInv', NEW t \in Thread,
         \/ Index(t) \/ Enqueue(t) \/ TakeTask(t) \/ CheckLive(t)
         \/ NoMode(t) \/ PopToken(t) \/ NoToken(t)
  PROVE  Abstract!Next
<1> USE DEF EngineInv
<1>1. /\ pc[t] \in {"index", "enqueue", "ready", "check", "try", "poll", "wait"}
      /\ con' = con /\ mod' = mod /\ pending' = pending /\ calls' = calls /\ held' = held
  BY DEF Index, Enqueue, TakeTask, CheckLive, NoMode, PopToken, NoToken, store
<1>2. Frame(t)  BY CommonInv DEF Common
<1>3. ~Firing(t) /\ held[t] = {} /\ held'[t] = {}  BY <1>1 DEF Firing, ThreadInv, Empty
<1>4. ~Firing(t)'
  <2>1. ASSUME NEW fired, NEW retry, Return(t, fired, retry) PROVE ~Firing(t)'
    BY <2>1, ReturnQuiet DEF Looping, Firing
  <2>2. ASSUME NEW p \in {"index", "enqueue", "ready", "check", "try"}, Jump(t, p)
        PROVE  ~Firing(t)'
    BY <2>2 DEF Jump, TypeOK, Firing
  <2>3. CASE Index(t)  BY <2>2, <2>3 DEF Index
  <2>4. CASE Enqueue(t) \/ TakeTask(t) \/ NoToken(t)
    BY <2>2, <2>4 DEF Enqueue, TakeTask, NoToken
  <2>5. CASE CheckLive(t)  BY <2>1, <2>2, <2>5 DEF CheckLive
  <2>6. CASE NoMode(t) \/ PopToken(t)  BY <2>1, <2>6 DEF NoMode, PopToken
  <2> QED  BY <2>3, <2>4, <2>5, <2>6
<1> QED  BY <1>1, <1>2, <1>3, <1>4, IdleOutside

\* Together: every step that the strategies share is one of CHR or shows nothing.
LEMMA CommonStep ==
  ASSUME EngineInv, EngineInv', HeldIn, NEW t \in Thread, Common(t)
  PROVE  Abstract!Next
BY MakeCallStep, AllocateStep, CommonIdle, AfterUseStep, RunBodyStep DEF Common

LEMMA StutterStep ==
  ASSUME UNCHANGED vars PROVE Abstract!Next
<1>1. UNCHANGED <<con, mod, pending, claimed, pc, calls, list, held>>
  BY DEF vars, store, local
<1>2. Live' = Live
  BY <1>1 DEF Live, Taken, Owners, Position, Firing
<1>3. Owed' = Owed
  BY <1>1 DEF Owed, CallsDue, Firing, Epilogue, RuleOrdered, ById, Matched, Kept, HeadName, Sooner
<1> QED  BY <1>2, <1>3, IdleIs

LEMMA InitRewrites == ASSUME Init PROVE Abstract!Init
<1>1. PICK script \in Scripts :
        calls = [t \in Thread |-> IF t \in Client THEN script[t] ELSE << >>]
  BY DEF Init
<1>2. \A t \in Thread : ~Firing(t)  BY DEF Init, Firing
<1>3. Live = EmptyBag
  <2>1. Known = {}  BY DEF Init, Known
  <2>2. Cells(Known, Counts) = {}  BY <2>1 DEF Cells
  <2>3. PICK f : f = [p \in Cells(Known, Counts) |-> con[p[1]]]  OBVIOUS
  <2>4. DOMAIN f = {} /\ IsFiniteSet(DOMAIN f)  BY <2>2, <2>3, FS_EmptySet
  <2>5. BagOf(f) = [v \in {f[i] : i \in DOMAIN f} |-> Cardinality(Where(f, v))]  BY BagOfIs
  <2>6. DOMAIN BagOf(f) = {}  BY <2>4, <2>5
  <2>7. BagOf(f) = [v \in {} |-> 1] /\ EmptyBag = [v \in {} |-> 1]
    BY <2>5, <2>6 DEF EmptyBag, SetToBag
  <2> QED  BY <2>3, <2>7, LiveIs DEF Heap
<1> DEFINE C == UNION {{k} \X DOMAIN script[k] : k \in Client}
           q == [p \in C |-> script[p[1]][p[2]]]
<1>4. Owed = BagOf([p \in DOMAIN q |-> q[p].con])
  <2>1. \A t \in Thread : Due[t] = IF t \in Client THEN script[t] ELSE << >>
    <3> SUFFICES ASSUME NEW t \in Thread PROVE Due[t] = IF t \in Client THEN script[t] ELSE << >>
      OBVIOUS
    <3>1. calls[t] = IF t \in Client THEN script[t] ELSE << >>  BY <1>1
    <3>2. t \in Client => script[t] \in Seq(Call)  BY ThreadAssumption
    <3>3. calls[t] \in Seq(Call)  BY <3>1, <3>2, EmptySeq
    <3>4. << >> \o calls[t] = calls[t]  BY <3>3, ConcatEmptySeq
    <3> QED  BY <1>2, <3>1, <3>4 DEF Due, CallsDue
  <2>2. PICK d : d = Due  OBVIOUS
  <2>3. \A p : p \in Items(Thread, d) <=> \E t \in Thread : \E i \in DOMAIN d[t] : p = <<t, i>>
    BY DEF Items
  <2>4. \A p : p \in C <=> \E t \in Client : \E i \in DOMAIN script[t] : p = <<t, i>>
    OBVIOUS
  <2>5. DOMAIN << >> = {}  OBVIOUS
  <2>6. \A p : p \in Items(Thread, d) <=> p \in C
    <3> HIDE DEF C
    <3>1. \A t \in Client : t \in Thread /\ d[t] = script[t]  BY <2>1, <2>2 DEF Thread
    <3>2. \A t \in Thread : t \in Client \/ DOMAIN d[t] = {}  BY <2>1, <2>2, <2>5
    <3> QED  BY <2>3, <2>4, <3>1, <3>2
  <2>7. Items(Thread, d) = C  BY <2>6 DEF Items
  <2>8. \A p \in C : d[p[1]][p[2]].con = q[p].con
    <3>1. ASSUME NEW p \in C PROVE d[p[1]] = script[p[1]]
      <4>1. PICK t \in Client : \E i \in DOMAIN script[t] : p = <<t, i>>  BY <2>4
      <4>2. p[1] = t /\ t \in Thread  BY <4>1 DEF Thread
      <4> QED  BY <2>1, <2>2, <4>2
    <3> HIDE DEF C
    <3> QED  BY <3>1
  <2>9. DOMAIN q = C  OBVIOUS
  <2> HIDE DEF q, C
  <2>10. [p \in Items(Thread, d) |-> d[p[1]][p[2]].con] = [p \in DOMAIN q |-> q[p].con]
    BY <2>7, <2>8, <2>9
  <2> QED  BY <2>2, <2>10, OwedIs DEF Tally
<1>5. Owed = Abstract!AddedBy(q)
  <2> HIDE DEF q
  <2> QED  BY <1>4, SameBagOf DEF Abstract!AddedBy
<1> QED  BY <1>3, <1>5, SameBags DEF Abstract!Init

(***************************************************************************)
(* SyncServed.  A copy of a status that only sync calls add is pending,    *)
(* claimed, paid for by a token or about to be; the caller is in the loop  *)
(* of sync until its own use of the goal is consumed or it takes a token.  *)
(* So one counts the callers, and every step of a thread moves both sides  *)
(* alike.  It needs that the goal is the first use of its checklist, that  *)
(* what a rule keeps of such constraints is added again by sync, and that  *)
(* a status that is not allocated has no copy.                             *)
(***************************************************************************)
Led(l, g) == l.used # << >> /\ l.used[1] = g

\* The caller of a sync that is neither served nor lost; a token that is due.
Waiting(t, s) == job[t].op = "sync" /\ Goal(t) = s /\ ~Served(t)
Paying(t, s) == pc[t] = "token" /\ list[t].used[cur[t].at] = s
Bit(p) == IF p THEN 1 ELSE 0

Balanced(s) ==
  pending[s] + claimed[s] + tokens[s] + Cardinality(TokenDue(s)) = Cardinality(Callers(s))

Asked(q) == \A i \in DOMAIN q : q[i].con \in SyncOnly => q[i].op = "sync"

CallerInv(t) ==
  /\ Asked(calls[t])
  /\ pc[t] \in {"ready", "enqueue", "check"} => job[t].op # "sync"
  /\ pc[t] = "allocate" => Goal(t) = None /\ job[t].op = Head(calls[t]).op
  /\ Goal(t) # None /\ con[Goal(t)] \in SyncOnly => job[t].op = "sync"
  /\ pc[t] \in Matching => Led(list[t], Goal(t))
  /\ pc[t] = "token" => cur[t].at > 1

ModeInv ==
  /\ \A s \in Status \ Known : pending[s] = 0 /\ claimed[s] = 0 /\ tokens[s] = 0
  /\ \A s \in Known : con[s] \in SyncOnly => mod[s] = "SYNC"
  /\ \A i \in DOMAIN tasks : con[tasks[i].goal] \notin SyncOnly

SyncInv == ModeInv /\ SyncServed /\ \A t \in Thread : CallerInv(t)

LEMMA Toggle ==
  ASSUME NEW t \in Thread, NEW S \in SUBSET Thread, NEW T \in SUBSET Thread, S \ {t} = T \ {t}
  PROVE  /\ Cardinality(S) \in Nat /\ Cardinality(T) \in Nat
         /\ Cardinality(T) + Bit(t \in S) = Cardinality(S) + Bit(t \in T)
<1>1. IsFiniteSet(S) /\ IsFiniteSet(T)  BY FS_Subset, ThreadAssumption
<1>2. Cardinality(S) \in Nat /\ Cardinality(T) \in Nat  BY <1>1, FS_CardinalityType
<1>3. ASSUME NEW R, IsFiniteSet(R), Cardinality(R) \in Nat
      PROVE  Cardinality(R \ {t}) = Cardinality(R) - Bit(t \in R)
  <2>1. CASE t \in R  BY <1>3, <2>1, FS_RemoveElement DEF Bit
  <2>2. CASE t \notin R
    <3>1. R \ {t} = R  BY <2>2
    <3> QED  BY <1>3, <2>2, <3>1 DEF Bit
  <2> QED  BY <2>1, <2>2
<1>4. /\ Cardinality(S \ {t}) = Cardinality(S) - Bit(t \in S)
      /\ Cardinality(T \ {t}) = Cardinality(T) - Bit(t \in T)
  BY <1>1, <1>2, <1>3
<1> QED  BY <1>2, <1>4 DEF Bit

Settled(t, s) ==
  pending'[s] + claimed'[s] + tokens'[s] + Bit(Paying(t, s)') + Bit(Waiting(t, s)) =
  pending[s] + claimed[s] + tokens[s] + Bit(Paying(t, s)) + Bit(Waiting(t, s)')

\* A step of t keeps the balance of s if what it adds to the copies and tokens it
\* adds to the callers.
LEMMA BalanceStep ==
  ASSUME TypeOK, TypeOK', NEW t \in Thread, Frame(t), NEW s \in Status, Balanced(s), Settled(t, s)
  PROVE  Balanced(s)'
<1> DEFINE D == TokenDue(s)
           C == Callers(s)
<1>1. PICK E : E = TokenDue(s)'  OBVIOUS
<1>2. PICK B : B = Callers(s)'  OBVIOUS
<1>3. D = {u \in Thread : Paying(u, s)} /\ E = {u \in Thread : Paying(u, s)'}
  BY <1>1 DEF TokenDue, Paying
<1>4. C = {u \in Thread : Waiting(u, s)} /\ B = {u \in Thread : Waiting(u, s)'}
  BY <1>2 DEF Callers, Waiting
<1>5. ASSUME NEW u \in Thread \ {t}
      PROVE  (Paying(u, s)' <=> Paying(u, s)) /\ (Waiting(u, s)' <=> Waiting(u, s))
  <2>1. Same(u)  BY DEF Frame
  <2> QED  BY <2>1 DEF Same, Paying, Waiting, Served, Firing, OwnUse, Goal
<1> HIDE DEF D, C
<1>6. D \in SUBSET Thread /\ E \in SUBSET Thread /\ D \ {t} = E \ {t}  BY <1>3, <1>5
<1>7. C \in SUBSET Thread /\ B \in SUBSET Thread /\ C \ {t} = B \ {t}  BY <1>4, <1>5
<1>8. /\ Cardinality(D) \in Nat /\ Cardinality(E) \in Nat
      /\ Cardinality(E) + Bit(t \in D) = Cardinality(D) + Bit(t \in E)
  BY <1>6, Toggle
<1>9. /\ Cardinality(C) \in Nat /\ Cardinality(B) \in Nat
      /\ Cardinality(B) + Bit(t \in C) = Cardinality(C) + Bit(t \in B)
  BY <1>7, Toggle
<1>10. /\ Bit(t \in D) = Bit(Paying(t, s)) /\ Bit(t \in E) = Bit(Paying(t, s)')
       /\ Bit(t \in C) = Bit(Waiting(t, s)) /\ Bit(t \in B) = Bit(Waiting(t, s)')
  BY <1>3, <1>4 DEF Bit
<1>11. /\ pending[s] \in Nat /\ claimed[s] \in Nat /\ tokens[s] \in Nat
       /\ pending'[s] \in Nat /\ claimed'[s] \in Nat /\ tokens'[s] \in Nat
  BY DEF TypeOK
<1>12. \A p : Bit(p) \in {0, 1}  BY DEF Bit
<1>13. pending[s] + claimed[s] + tokens[s] + Cardinality(D) = Cardinality(C)
  BY DEF Balanced, D, C
<1>14. pending'[s] + claimed'[s] + tokens'[s] + Cardinality(E) = Cardinality(B)
  <2>1. PICK a \in {0, 1}, b \in {0, 1}, c \in {0, 1}, d \in {0, 1} :
          a = Bit(t \in D) /\ b = Bit(t \in E) /\ c = Bit(t \in C) /\ d = Bit(t \in B)
    BY <1>12
  <2>2. pending'[s] + claimed'[s] + tokens'[s] + b + c = pending[s] + claimed[s] + tokens[s] + a + d
    BY <1>10, <2>1 DEF Settled
  <2>3. PICK dd \in Nat, ee \in Nat, cc \in Nat, bb \in Nat :
          dd = Cardinality(D) /\ ee = Cardinality(E) /\ cc = Cardinality(C) /\ bb = Cardinality(B)
    BY <1>8, <1>9
  <2>4. PICK x \in Nat, y \in Nat :
          x = pending[s] + claimed[s] + tokens[s] /\ y = pending'[s] + claimed'[s] + tokens'[s]
    BY <1>11
  <2>5. y + b + c = x + a + d /\ x + dd = cc  BY <1>13, <2>2, <2>3, <2>4
  <2>6. ee + a = dd + b /\ bb + c = cc + d  BY <1>8, <1>9, <2>1, <2>3
  <2>7. y + ee = bb  BY <2>5, <2>6
  <2> QED  BY <2>3, <2>4, <2>7
<1> QED  BY <1>1, <1>2, <1>14 DEF Balanced

LEMMA SyncOnlyFixed == SyncOnly' = SyncOnly /\ \A q : Asked(q)' <=> Asked(q)
BY DEF Asked

\* The goal is the first use of its checklist, and no other one is its own.
LEMMA FirstUse ==
  ASSUME NEW S, NEW q \in Seq(S), NEW g, q # << >>, q[1] = g, NEW H
  PROVE  (\E i \in DOMAIN q \ H : q[i] = g /\ \A j \in 1..(i - 1) : q[j] # g) <=> 1 \notin H
<1>1. DOMAIN q = 1..Len(q) /\ Len(q) \in Nat /\ Len(q) # 0  BY LenProperties, EmptySeq
<1>2. 1 \in DOMAIN q /\ \A j \in 1..(1 - 1) : q[j] # g  BY <1>1
<1>3. \A i \in DOMAIN q : i # 1 => 1 \in 1..(i - 1)  BY <1>1
<1> QED  BY <1>2, <1>3

WaitingWell ==
  \A t \in Thread : (TypeOK /\ CallerInv(t)) =>
    \A s : Waiting(t, s) <=> job[t].op = "sync" /\ Goal(t) = s /\ ~(Firing(t) /\ 1 \notin held[t])

LEMMA WaitingNow == WaitingWell
<1> SUFFICES ASSUME NEW t \in Thread, TypeOK, CallerInv(t), Firing(t)
             PROVE  (\E i \in DOMAIN list[t].used \ held[t] : OwnUse(t, i)) <=> 1 \notin held[t]
  BY DEF WaitingWell, Waiting, Served
<1>1. Led(list[t], Goal(t))  BY DEF CallerInv, Firing, Matching
<1>2. list[t].used \in Seq(Known)  BY DEF TypeOK, List
<1> QED  BY <1>1, <1>2, FirstUse DEF Led, OwnUse

LEMMA WaitingNext == WaitingWell'
BY WaitingNow, PTL

\* A status that is not allocated is balanced: nothing of it is there.
LEMMA FreshBalance ==
  ASSUME EngineInv, ModeInv, NEW s \in Status \ Known
  PROVE  Balanced(s)
<1> USE DEF EngineInv
<1>1. pending[s] = 0 /\ claimed[s] = 0 /\ tokens[s] = 0  BY DEF ModeInv
<1>2. s # None  BY Stati DEF Status, None
<1>3. Callers(s) = {}
  <2>1. \A t \in Thread : Goal(t) \in Maybe  BY DEF TypeOK, Job, Goal
  <2> QED  BY <1>2, <2>1 DEF Callers, Maybe
<1>4. TokenDue(s) = {}
  <2>1. ASSUME NEW t \in Thread, pc[t] = "token" PROVE list[t].used[cur[t].at] \in Known
    <3>1. list[t].used \in Seq(Known)  BY DEF TypeOK, List
    <3>2. cur[t].at \in DOMAIN list[t].used  BY <2>1 DEF ThreadInv, Whole
    <3> QED  BY <3>1, <3>2, LenProperties, ElementOfSeq
  <2> QED  BY <2>1 DEF TokenDue
<1> QED  BY <1>1, <1>3, <1>4, FS_EmptySet DEF Balanced

LEMMA OtherCallers ==
  ASSUME TypeOK, NEW u \in Thread, CallerInv(u), Same(u), Grown
  PROVE  CallerInv(u)'
<1>1. Goal(u) \in Maybe  BY DEF TypeOK, Job, Goal
<1>2. Goal(u) # None => con'[Goal(u)] = con[Goal(u)]  BY <1>1 DEF Grown, Maybe
<1> QED  BY <1>2, SyncOnlyFixed DEF CallerInv, Same, Goal, Led

LEMMA SyncStep ==
  ASSUME EngineInv, EngineInv', SyncInv, NEW t \in Thread, Frame(t), Grown, ModeInv', CallerInv(t)',
         \A s \in Known' : con'[s] \in SyncOnly => Settled(t, s)
  PROVE  SyncInv'
<1>1. \A u \in Thread : CallerInv(u)'
  BY OtherCallers DEF Frame, EngineInv, SyncInv
<1>2. SyncServed'
  <2> SUFFICES ASSUME NEW s \in Known', con'[s] \in SyncOnly PROVE Balanced(s)'
    BY SyncOnlyFixed DEF SyncServed, Balanced, Known
  <2>1. s \in Status
    <3>1. TypeOK'  BY DEF EngineInv
    <3>2. Known' = 1..Len(con') /\ Len(con') \in Nat /\ Len(con') <= MaxStatus
      BY <3>1, LenProperties DEF TypeOK, Known
    <3>3. MaxStatus \in Nat  BY RulesAssumption
    <3> QED  BY <3>2, <3>3 DEF Status
  <2>2. Balanced(s)
    <3>1. CASE s \in Known
      <4>1. con[s] \in SyncOnly  BY <3>1 DEF Grown
      <4> QED  BY <3>1, <4>1 DEF SyncInv, SyncServed, Balanced, Known
    <3>2. CASE s \notin Known  BY <2>1, <3>2, FreshBalance DEF SyncInv
    <3> QED  BY <3>1, <3>2
  <2> QED  BY <2>1, <2>2, BalanceStep DEF EngineInv
<1> QED  BY <1>1, <1>2 DEF SyncInv

\* A step that moves no copy and no token, and serves nobody.
LEMMA SyncQuiet ==
  ASSUME EngineInv, EngineInv', SyncInv, NEW t \in Thread, Frame(t),
         con' = con, mod' = mod, tokens' = tokens, CallerInv(t)',
         \A i \in DOMAIN tasks' : con[tasks'[i].goal] \notin SyncOnly,
         \A s \in Status : pending'[s] + claimed'[s] = pending[s] + claimed[s],
         \A s \in Known : con[s] \in SyncOnly =>
           (Paying(t, s)' <=> Paying(t, s)) /\ (Waiting(t, s)' <=> Waiting(t, s))
  PROVE  SyncInv'
<1>1. Known' = Known /\ Grown /\ Known \subseteq Status  BY SameTypes, Stati DEF EngineInv
<1>2. \A s \in Status : /\ pending[s] \in Nat /\ claimed[s] \in Nat /\ tokens[s] \in Nat
                        /\ pending'[s] \in Nat /\ claimed'[s] \in Nat
  BY DEF EngineInv, TypeOK
<1>3. ModeInv'
  <2>1. \A s \in Status \ Known : pending'[s] = 0 /\ claimed'[s] = 0 /\ tokens'[s] = 0
    BY <1>2 DEF SyncInv, ModeInv
  <2> QED  BY <1>1, <2>1, SyncOnlyFixed DEF SyncInv, ModeInv
<1>4. ASSUME NEW s \in Known, con[s] \in SyncOnly PROVE Settled(t, s)
  <2>1. Bit(Paying(t, s)') = Bit(Paying(t, s)) /\ Bit(Waiting(t, s)') = Bit(Waiting(t, s))
    BY <1>4 DEF Bit
  <2>2. PICK a \in {0, 1}, b \in {0, 1} : a = Bit(Paying(t, s)) /\ b = Bit(Waiting(t, s))
    BY DEF Bit
  <2>3. pending'[s] + claimed'[s] = pending[s] + claimed[s]  BY <1>1
  <2>4. pending'[s] + claimed'[s] + tokens'[s] + a + b = pending[s] + claimed[s] + tokens[s] + a + b
    BY <1>1, <1>2, <2>3
  <2> QED  BY <2>1, <2>2, <2>4 DEF Settled
<1> QED  BY <1>1, <1>3, <1>4, SyncStep

(***************************************************************************)
(* Calls.                                                                  *)
(***************************************************************************)
LEMMA ProgramAsks == \A k \in ProgramCalls : k.con \in SyncOnly => k.op = "sync"
BY DEF SyncOnly

LEMMA AskedParts ==
  ASSUME NEW p \in Seq(Call), NEW q \in Seq(Call), Asked(p), Asked(q)
  PROVE  Asked(p \o q) /\ (q # << >> => Asked(Tail(q)) /\ (Head(q).con \in SyncOnly => Head(q).op = "sync"))
<1>1. Asked(p \o q)
  <2> SUFFICES ASSUME NEW i \in DOMAIN (p \o q), (p \o q)[i].con \in SyncOnly
               PROVE  (p \o q)[i].op = "sync"
    BY DEF Asked
  <2>1. /\ DOMAIN p = 1..Len(p) /\ DOMAIN q = 1..Len(q) /\ Len(p) \in Nat /\ Len(q) \in Nat
        /\ DOMAIN (p \o q) = 1..(Len(p) + Len(q))
    BY LenProperties, ConcatProperties
  <2>2. (p \o q)[i] = IF i <= Len(p) THEN p[i] ELSE q[i - Len(p)]  BY <2>1, ConcatProperties
  <2>3. CASE i <= Len(p)  BY <2>1, <2>2, <2>3 DEF Asked
  <2>4. CASE ~(i <= Len(p))
    <3>1. i - Len(p) \in DOMAIN q  BY <2>1, <2>4
    <3> QED  BY <2>2, <2>4, <3>1 DEF Asked
  <2> QED  BY <2>3, <2>4
<1>2. ASSUME q # << >> PROVE Asked(Tail(q)) /\ (Head(q).con \in SyncOnly => Head(q).op = "sync")
  <2>1. /\ Len(q) \in Nat /\ Len(q) # 0 /\ DOMAIN q = 1..Len(q)
        /\ Tail(q) \in Seq(Call) /\ Len(Tail(q)) = Len(q) - 1
        /\ \A i \in 1..Len(Tail(q)) : Tail(q)[i] = q[i + 1]
        /\ Head(q) = q[1]
    BY <1>2, HeadTailProperties, LenProperties, EmptySeq
  <2>2. DOMAIN Tail(q) = 1..Len(Tail(q))  BY <2>1, LenProperties
  <2>3. 1 \in DOMAIN q /\ \A i \in DOMAIN Tail(q) : i + 1 \in DOMAIN q  BY <2>1, <2>2
  <2> QED  BY <2>1, <2>2, <2>3 DEF Asked
<1> QED  BY <1>1, <1>2

\* What a tidy checklist keeps was matched by a kept head of its name.
LEMMA KeptHead ==
  ASSUME TypeOK, NEW l, GoodList(l), Tidy(l), NEW i \in DOMAIN l.keep
  PROVE  /\ l.keep[i] \in Known
         /\ \E h \in 1..Rules[l.rule].keep : con[l.keep[i]].name = HeadName(l.rule, h)
<1> DEFINE r == l.rule
<1>1. PICK s : s = l.keep[i]  OBVIOUS
<1>2. l.keep \in Seq(Known) /\ r \in RuleId  BY DEF GoodList, List
<1>3. s \in Known /\ s \in Status  BY <1>1, <1>2, LenProperties, ElementOfSeq, Stati
<1>4. i \in Pick(l.keep, {s})  BY <1>1 DEF Pick
<1>5. IsFiniteSet(Pick(l.keep, {s}))  BY <1>2, PickFinite
<1>6. Number(l.keep, {s}) # 0  BY <1>4, <1>5, FS_EmptySet DEF Number
<1>7. Cardinality(Fiber(KeptHeads(r), l.m, s)) # 0  BY <1>3, <1>6 DEF Tidy
<1>8. Fiber(KeptHeads(r), l.m, s) # {}  BY <1>7, FS_EmptySet
<1>9. PICK h \in KeptHeads(r) : l.m[h] = s  BY <1>8 DEF Fiber
<1>10. h \in Heads(r) /\ h \in 1..Rules[r].keep  BY <1>2, KeptHeadNumbers DEF KeptHeads
<1>11. con[s].name = HeadName(r, h)
  <2>1. s # None  BY <1>3 DEF Status, None
  <2> QED  BY <1>9, <1>10, <2>1 DEF GoodList, Named
<1> QED  BY <1>1, <1>3, <1>10, <1>11

\* What a rule calls for keeps the promise: its body is one of the program, and a
\* kept constraint of a sync is added again by sync, or not by a rule without MPI.
LEMMA EpilogueAsked ==
  ASSUME EngineInv, ModeInv, NEW l, GoodList(l), Complete(l.rule, l.m), Tidy(l)
  PROVE  Asked(Epilogue(l)) /\ Epilogue(l) \in Seq(Call)
<1> DEFINE r == l.rule
           cs == RuleOrdered(l)
<1>1. /\ cs \in [Heads(r) -> Con] /\ \A h \in Heads(r) : cs[h].name = HeadName(r, h)
      /\ r \in RuleId
  BY RuleOrderedNames DEF EngineInv, TypeOK, GoodList
<1> HIDE DEF cs
<1>2. Body(r, cs) \in Seq(Call)  BY <1>1, ThreadAssumption
<1>3. Asked(Body(r, cs))
  <2>1. In(Body(r, cs)) \subseteq BodyCalls(r)  BY <1>1 DEF BodyCalls, Typed
  <2>2. BodyCalls(r) \subseteq ProgramCalls  BY <1>1 DEF ProgramCalls
  <2>3. In(Body(r, cs)) \subseteq ProgramCalls  BY <2>1, <2>2
  <2> QED  BY <2>3, ProgramAsks DEF Asked, In
<1>4. Kept(l) \in Seq(Call) /\ DOMAIN Kept(l) = DOMAIN l.keep
      /\ \A i \in DOMAIN l.keep : Kept(l)[i].con = con[l.keep[i]]
  BY KeptCalls DEF EngineInv
<1>5. Asked(Kept(l))
  <2> SUFFICES ASSUME NEW i \in DOMAIN l.keep, con[l.keep[i]] \in SyncOnly
               PROVE  Kept(l)[i].op = "sync"
    BY <1>4 DEF Asked
  <2>1. PICK s : s = l.keep[i]  OBVIOUS
  <2>2. s \in Known /\ s \in Status
    <3>1. l.keep \in Seq(Known)  BY DEF GoodList, List
    <3> QED  BY <2>1, <3>1, LenProperties, ElementOfSeq, Stati DEF EngineInv
  <2>3. mod[s] = "SYNC"  BY <2>1, <2>2 DEF ModeInv
  <2>4. r \notin NoMpi
    <3>1. \E h \in 1..Rules[r].keep : con[s].name = HeadName(r, h)  BY <2>1, KeptHead DEF EngineInv
    <3> QED  BY <2>1, <3>1 DEF SyncOnly
  <2> QED  BY <2>1, <2>3, <2>4 DEF Kept
<1>6. Asked(Body(r, cs) \o Kept(l)) /\ Body(r, cs) \o Kept(l) \in Seq(Call)
  BY <1>2, <1>3, <1>4, <1>5, AskedParts, ConcatProperties
<1> QED  BY <1>6 DEF Epilogue, cs

\* The calls of a script are the program's.
LEMMA ScriptAsked ==
  ASSUME NEW script \in Scripts, NEW t \in Client
  PROVE  Asked(script[t])
<1>1. In(script[t]) \subseteq UNION {In(script[u]) : u \in Client}  OBVIOUS
<1>2. PICK A : A = UNION {In(script[u]) : u \in Client}  OBVIOUS
<1>3. A \in {UNION {In(x[u]) : u \in Client} : x \in Scripts}  BY <1>2
<1>4. A \subseteq ProgramCalls  BY <1>3 DEF ProgramCalls, ScriptCalls
<1>5. In(script[t]) \subseteq ProgramCalls  BY <1>1, <1>2, <1>4
<1> QED  BY <1>5, ProgramAsks DEF Asked, In

LEMMA SyncInitially == ASSUME Init PROVE SyncInv
<1>1. Known = {}  BY EmptySeq, LenProperties DEF Init, Known
<1>2. ModeInv  BY <1>1, EmptySeq DEF Init, ModeInv
<1>3. SyncServed  BY <1>1 DEF SyncServed, Known
<1>4. ASSUME NEW t \in Thread PROVE CallerInv(t)
  <2>1. Asked(<< >>)  BY DEF Asked
  <2>2. Asked(calls[t])  BY <2>1, ScriptAsked DEF Init, Thread
  <2>3. pc[t] = "ready" /\ job[t] = NoJob  BY DEF Init
  <2> QED  BY <2>2, <2>3 DEF CallerInv, NoJob, NewJob, Goal, None, Matching
<1> QED  BY <1>2, <1>3, <1>4 DEF SyncInv

(***************************************************************************)
(* The steps that the strategies share.                                    *)
(***************************************************************************)
\* Outside of a match nothing is served and nothing is paid.
LEMMA OutsideWaits ==
  ASSUME NEW t \in Thread, ~Firing(t), NEW s
  PROVE  ~Paying(t, s) /\ (Waiting(t, s) <=> job[t].op = "sync" /\ Goal(t) = s)
BY DEF Firing, Paying, Waiting, Served

\* A search that returns without having fired goes on, or was one of async.
LEMMA SyncReturns ==
  ASSUME EngineInv, EngineInv', SyncInv, NEW t \in Thread, NEW retry, Return(t, FALSE, retry),
         Frame(t), ~Firing(t), Goal(t) # None, con' = con, mod' = mod, tokens' = tokens,
         tasks' = tasks, calls' = calls,
         \A s \in Status : pending'[s] + claimed'[s] = pending[s] + claimed[s]
  PROVE  SyncInv'
<1> DEFINE p == IF job[t].op = "async" THEN (IF retry THEN "check" ELSE "ready")
                ELSE (IF retry THEN "poll" ELSE "wait")
           j == IF p = "ready" THEN NoJob ELSE [job[t] EXCEPT !.saw = FALSE]
<1>1. pc'[t] = p /\ job'[t] = j  BY DEF Return, Jump, EngineInv, TypeOK
<1>2. job[t] \in Job  BY DEF EngineInv, TypeOK
<1>3. /\ p \in {"check", "ready", "poll", "wait"}
      /\ p \in {"check", "ready"} => job[t].op = "async"
      /\ p = "ready" => j.goal = None /\ j.op = "async"
      /\ p # "ready" => j.goal = Goal(t) /\ j.op = job[t].op
  BY <1>2 DEF NoJob, NewJob, Job, Goal
<1> HIDE DEF p, j
<1>4. ~Firing(t)'  BY <1>1, <1>3 DEF Firing
<1>5. CallerInv(t)
  BY DEF SyncInv
<1>6. CallerInv(t)'
  BY <1>1, <1>3, <1>5, SyncOnlyFixed DEF CallerInv, Goal, Matching
<1>7. ASSUME NEW s \in Known, con[s] \in SyncOnly
      PROVE  (Paying(t, s)' <=> Paying(t, s)) /\ (Waiting(t, s)' <=> Waiting(t, s))
  <2>1. ~Paying(t, s)  /\ ~Paying(t, s)'  BY <1>4 DEF Paying, Firing
  <2>2. Waiting(t, s) <=> job[t].op = "sync" /\ Goal(t) = s  BY OutsideWaits
  <2>3. Waiting(t, s)' <=> j.op = "sync" /\ j.goal = s  BY <1>1, <1>4 DEF Waiting, Served, Goal
  <2>4. s # None  BY Stati DEF EngineInv
  <2> QED  BY <1>3, <2>1, <2>2, <2>3, <2>4
<1>8. \A i \in DOMAIN tasks' : con[tasks'[i].goal] \notin SyncOnly  BY DEF SyncInv, ModeInv
<1> QED  BY <1>6, <1>7, <1>8, SyncQuiet

\* A call that finds its constraint: one more copy, and one more caller of a sync.
LEMMA InsertFinds ==
  ASSUME TypeOK, NEW c, NEW d,
         LET b == Bucket(FirstArgKey(c))
             twins == {i \in DOMAIN b : con[b[i]] = c}
         IN  d = IF twins = {} THEN None ELSE b[Least(twins)]
  PROVE  d # None => d \in Known /\ con[d] = c
<1> DEFINE b == Bucket(FirstArgKey(c))
           twins == {i \in DOMAIN b : con[b[i]] = c}
<1> SUFFICES ASSUME d # None PROVE d \in Known /\ con[d] = c  OBVIOUS
<1>1. b \in Seq(Known)  BY BucketTyped
<1>2. DOMAIN b \subseteq Nat /\ \A i \in DOMAIN b : b[i] \in Known
  BY <1>1, LenProperties, ElementOfSeq
<1>3. twins # {} /\ d = b[Least(twins)]  OBVIOUS
<1> HIDE DEF b
<1>4. twins \in SUBSET Nat  BY <1>2
<1>5. Least(twins) \in twins  BY <1>3, <1>4, LeastIn
<1> QED  BY <1>2, <1>3, <1>5

LEMMA MakeCallSync ==
  ASSUME EngineInv, EngineInv', SyncInv, NEW t \in Thread, MakeCall(t)
  PROVE  SyncInv'
<1> USE DEF EngineInv
<1> DEFINE k == Head(calls[t])
           c == k.con
           b == Bucket(FirstArgKey(c))
           twins == {i \in DOMAIN b : con[b[i]] = c}
           d == IF twins = {} THEN None ELSE b[Least(twins)]
<1>1. pc[t] = "ready" /\ calls[t] # << >> /\ \E run : InsertCounted(t, c, k.op, run)
  BY DEF MakeCall
<1>2. PICK run : InsertCounted(t, c, k.op, run)  BY <1>1
<1>3. /\ job' = [job EXCEPT ![t] = NewJob(d, k.op, run)]
      /\ IF d = None
         THEN Jump(t, "allocate") /\ UNCHANGED <<pending, calls>>
         ELSE /\ pending' = [pending EXCEPT ![d] = @ + 1]
              /\ calls' = [calls EXCEPT ![t] = Tail(@)]
              /\ Jump(t, IF k.op = "sync" THEN "try" ELSE "enqueue")
      /\ UNCHANGED <<con, mod, claimed, tokens, bucket, tasks, keys, list, cur, held>>
  BY <1>2 DEF InsertCounted
<1>4. PICK e : e = d  OBVIOUS
<1>5. e # None => e \in Known /\ con[e] = c
  <2>1. d # None => d \in Known /\ con[d] = c  BY InsertFinds
  <2> HIDE DEF d, c
  <2> QED  BY <1>4, <2>1
<1> HIDE DEF d, c, k
<1>6. Frame(t) /\ Grown /\ Known' = Known /\ Known \subseteq Status /\ None \notin Known
  BY <1>3, MakeCallInv, SameTypes, Stati
<1>7. CallerInv(t) /\ ModeInv  BY DEF SyncInv
<1>8. /\ calls[t] \in Seq(Call) /\ Asked(Tail(calls[t])) /\ (c \in SyncOnly => k.op = "sync")
  <2>1. calls[t] \in Seq(Call)  BY DEF TypeOK
  <2>2. Asked(calls[t])  BY <1>7 DEF CallerInv
  <2>3. /\ Asked(Tail(calls[t]))
        /\ Head(calls[t]).con \in SyncOnly => Head(calls[t]).op = "sync"
    BY <1>1, <2>1, <2>2, AskedParts
  <2> QED  BY <2>1, <2>3 DEF k, c
<1>9. job'[t].goal = e /\ job'[t].op = k.op  BY <1>3, <1>4 DEF TypeOK, NewJob
<1>10. job[t].op # "sync" /\ ~Firing(t)  BY <1>1, <1>7 DEF CallerInv, Firing
<1>11. \A s : ~Paying(t, s) /\ ~Waiting(t, s)  BY <1>10, OutsideWaits
<1>12. pc'[t] = IF e = None THEN "allocate" ELSE IF k.op = "sync" THEN "try" ELSE "enqueue"
  BY <1>3, <1>4 DEF Jump, TypeOK
<1>13. ~Firing(t)'  BY <1>12 DEF Firing
<1>14. \A s : ~Paying(t, s)' /\ (Waiting(t, s)' <=> k.op = "sync" /\ e = s)
  BY <1>9, <1>13 DEF Paying, Firing, Waiting, Served, Goal
<1>15. Asked(calls[t])' /\ (e = None => Head(calls'[t]).op = k.op)
  <2>1. calls'[t] = IF e = None THEN calls[t] ELSE Tail(calls[t])  BY <1>3, <1>4 DEF TypeOK
  <2>2. Asked(calls'[t])  BY <1>7, <1>8, <2>1 DEF CallerInv
  <2> QED  BY <2>1, <2>2, SyncOnlyFixed DEF k, Asked
<1>16. CallerInv(t)'
  BY <1>3, <1>5, <1>8, <1>9, <1>12, <1>15, SyncOnlyFixed DEF CallerInv, Goal, Matching
<1>17. pending' = IF e = None THEN pending ELSE [pending EXCEPT ![e] = @ + 1]  BY <1>3, <1>4
<1>18. \A s \in Status : pending'[s] = IF s = e THEN pending[s] + 1 ELSE pending[s]
  BY <1>17 DEF TypeOK, Status, None
<1>19. ModeInv'
  BY <1>3, <1>5, <1>6, <1>7, <1>18, SyncOnlyFixed DEF ModeInv, Status, None
<1>20. ASSUME NEW s \in Known', con'[s] \in SyncOnly PROVE Settled(t, s)
  <2>1. s \in Status /\ con[s] \in SyncOnly  BY <1>3, <1>6, <1>20
  <2>2. Bit(Paying(t, s)) = 0 /\ Bit(Waiting(t, s)) = 0 /\ Bit(Paying(t, s)') = 0
    BY <1>11, <1>14 DEF Bit
  <2>3. s = e => k.op = "sync"  BY <1>5, <1>6, <1>8, <2>1
  <2>4. Bit(Waiting(t, s)') = IF s = e THEN 1 ELSE 0  BY <1>14, <2>3 DEF Bit
  <2>5. pending'[s] = (IF s = e THEN pending[s] + 1 ELSE pending[s])
        /\ claimed' = claimed /\ tokens' = tokens
    BY <1>3, <1>18, <2>1
  <2>6. pending[s] \in Nat /\ claimed[s] \in Nat /\ tokens[s] \in Nat  BY <2>1 DEF TypeOK
  <2> QED  BY <2>2, <2>4, <2>5, <2>6 DEF Settled
<1> QED  BY <1>6, <1>16, <1>19, <1>20, SyncStep

\* A call that finds none: its copy is the first of a new status.
LEMMA AllocateSync ==
  ASSUME EngineInv, EngineInv', SyncInv, NEW t \in Thread, Allocate(t)
  PROVE  SyncInv'
<1> USE DEF EngineInv
<1> DEFINE k == Head(calls[t])
           c == k.con
           n == Len(con) + 1
<1>1. /\ pc[t] = "allocate" /\ n \in Status
      /\ con' = Append(con, c)
      /\ mod' = [mod EXCEPT ![n] = IF job[t].op = "sync" THEN "SYNC" ELSE "ASYNC"]
      /\ pending' = [pending EXCEPT ![n] = 1]
      /\ job' = [job EXCEPT ![t].goal = n]
      /\ calls' = [calls EXCEPT ![t] = Tail(@)]
      /\ pc' = [pc EXCEPT ![t] = "index"]
      /\ UNCHANGED <<claimed, tokens, tasks, list, cur, held>>
  BY DEF Allocate, Jump
<1>2. Frame(t) /\ Grown  BY AllocateInv
<1>3. CallerInv(t) /\ ModeInv  BY DEF SyncInv
<1>4. calls[t] \in Seq(Call) /\ calls[t] # << >>  BY <1>1 DEF ThreadInv, TypeOK
<1>5. Asked(Tail(calls[t])) /\ (c \in SyncOnly => k.op = "sync") /\ k \in Call
  <2>1. Asked(calls[t])  BY <1>3 DEF CallerInv
  <2>2. Asked(Tail(calls[t])) /\ (Head(calls[t]).con \in SyncOnly => Head(calls[t]).op = "sync")
    BY <1>4, <2>1, AskedParts
  <2> QED  BY <1>4, <2>2, HeadTailProperties
<1>6. c \in SyncOnly => job[t].op = "sync"  BY <1>1, <1>3, <1>5 DEF CallerInv
<1>7. Goal(t) = None  BY <1>1, <1>3 DEF CallerInv
<1> HIDE DEF c, k, n
<1>8. Known = 1..Len(con) /\ Len(con) \in Nat /\ Known \subseteq Status  BY Stati
<1>9. /\ Len(con') = n /\ con'[n] = c /\ Known' = 1..n
  <2>1. c \in Con  BY <1>5 DEF Call, c
  <2>2. con \in Seq(Con) /\ con' \in Seq(Con)  BY DEF TypeOK
  <2>3. Len(con') = n /\ con'[n] = c  BY <1>1, <2>1, <2>2, AppendProperties DEF n
  <2> QED  BY <2>2, <2>3, LenProperties DEF Known
<1>10. n \notin Known /\ Known' = Known \cup {n} /\ n # None
  BY <1>8, <1>9, <1>1 DEF n, Status, None
<1>11. job'[t].goal = n /\ job'[t].op = job[t].op /\ pc'[t] = "index" /\ calls'[t] = Tail(calls[t])
  BY <1>1 DEF TypeOK, Job
<1>12. ~Firing(t) /\ ~Firing(t)'  BY <1>1, <1>11 DEF Firing
<1>13. CallerInv(t)'
  BY <1>5, <1>6, <1>9, <1>11, SyncOnlyFixed DEF CallerInv, Goal, Matching, Asked
<1>14. \A s \in Status : /\ pending'[s] = IF s = n THEN 1 ELSE pending[s]
                         /\ mod'[s] = IF s = n THEN (IF job[t].op = "sync" THEN "SYNC" ELSE "ASYNC") ELSE mod[s]
  BY <1>1 DEF TypeOK
<1>15. ModeInv'
  <2>1. \A s \in Status \ Known' : pending'[s] = 0 /\ claimed'[s] = 0 /\ tokens'[s] = 0
    BY <1>1, <1>3, <1>10, <1>14 DEF ModeInv
  <2>2. \A s \in Known' : con'[s] \in SyncOnly => mod'[s] = "SYNC"
    BY <1>1, <1>2, <1>3, <1>6, <1>8, <1>9, <1>10, <1>14 DEF ModeInv, Grown
  <2>3. \A i \in DOMAIN tasks' : con'[tasks'[i].goal] \notin SyncOnly
    <3>1. \A i \in DOMAIN tasks : tasks[i] \in Task
      BY LenProperties, ElementOfSeq DEF TypeOK
    <3> QED  BY <1>1, <1>2, <1>3, <3>1 DEF ModeInv, Grown, Task
  <2> QED  BY <2>1, <2>2, <2>3, SyncOnlyFixed DEF ModeInv
<1>16. ASSUME NEW s \in Known', con'[s] \in SyncOnly PROVE Settled(t, s)
  <2>1. ~Paying(t, s) /\ ~Paying(t, s)'  BY <1>12 DEF Paying, Firing
  <2>2. s # None  BY <1>8, <1>10 DEF Status, None
  <2>3. ~Waiting(t, s)  BY <1>7, <2>2 DEF Waiting
  <2>4. Waiting(t, s)' <=> s = n
    BY <1>6, <1>9, <1>11, <1>12, <1>16, SyncOnlyFixed DEF Waiting, Served, Goal
  <2>5. /\ Bit(Paying(t, s)) = 0 /\ Bit(Paying(t, s)') = 0 /\ Bit(Waiting(t, s)) = 0
        /\ Bit(Waiting(t, s)') = IF s = n THEN 1 ELSE 0
    BY <2>1, <2>3, <2>4 DEF Bit
  <2>6. s \in Status  BY <1>1, <1>8, <1>10
  <2>7. pending[s] \in Nat /\ claimed[s] \in Nat /\ tokens[s] \in Nat  BY <2>6 DEF TypeOK
  <2>8. s = n => pending[s] = 0  BY <1>3, <1>10, <2>6 DEF ModeInv
  <2>9. claimed'[s] = claimed[s] /\ tokens'[s] = tokens[s]  BY <1>1
  <2> QED  BY <1>14, <2>5, <2>6, <2>7, <2>8, <2>9 DEF Settled
<1> QED  BY <1>2, <1>13, <1>15, <1>16, SyncStep

\* A step of a thread that is not firing, and keeps its job.
LEMMA SyncKeepsJob ==
  ASSUME EngineInv, EngineInv', SyncInv, NEW t \in Thread, Frame(t), ~Firing(t), ~Firing(t)',
         pc'[t] \notin Matching, pc'[t] \in {"ready", "enqueue", "check"} => job[t].op # "sync",
         pc'[t] # "allocate", job' = job, calls' = calls,
         con' = con, mod' = mod, tokens' = tokens, tasks' = tasks,
         pending' = pending, claimed' = claimed
  PROVE  SyncInv'
<1>1. CallerInv(t)'
  <2>1. CallerInv(t)  BY DEF SyncInv
  <2>2. pc'[t] # "token"  BY DEF Matching
  <2> QED  BY <2>1, <2>2, SyncOnlyFixed DEF CallerInv, Goal
<1>2. \A s : /\ ~Paying(t, s) /\ ~Paying(t, s)' /\ (Waiting(t, s)' <=> Waiting(t, s))
  BY DEF Paying, Firing, Waiting, Served, Goal
<1>3. \A i \in DOMAIN tasks' : con[tasks'[i].goal] \notin SyncOnly  BY DEF SyncInv, ModeInv
<1> QED  BY <1>1, <1>2, <1>3, SyncQuiet

LEMMA IndexSync ==
  ASSUME EngineInv, EngineInv', SyncInv, NEW t \in Thread, Index(t)
  PROVE  SyncInv'
<1>1. /\ pc[t] = "index"
      /\ \E b \in BOOLEAN : Jump(t, IF b THEN "index" ELSE IF job[t].op = "sync" THEN "try" ELSE "enqueue")
      /\ UNCHANGED <<con, mod, pending, claimed, tokens, tasks, calls, job>>
  BY DEF Index
<1>2. pc'[t] \in {"index", "try", "enqueue"} /\ (pc'[t] = "enqueue" => job[t].op # "sync")
  BY <1>1 DEF Jump, EngineInv, TypeOK
<1>3. Frame(t)  BY IndexInv
<1>4. ~Firing(t) /\ ~Firing(t)' /\ pc'[t] \notin Matching  BY <1>1, <1>2 DEF Firing, Matching
<1> QED  BY <1>1, <1>2, <1>3, <1>4, SyncKeepsJob

LEMMA NoTokenSync ==
  ASSUME EngineInv, EngineInv', SyncInv, NEW t \in Thread, NoToken(t)
  PROVE  SyncInv'
<1>1. /\ pc[t] = "poll" /\ pc'[t] = "try"
      /\ UNCHANGED <<con, mod, pending, claimed, tokens, tasks, calls, job>>
  BY DEF NoToken, Jump, store, EngineInv, TypeOK
<1>2. Frame(t)  BY NoTokenInv
<1>3. ~Firing(t) /\ ~Firing(t)' /\ pc'[t] \notin Matching  BY <1>1 DEF Firing, Matching
<1> QED  BY <1>1, <1>2, <1>3, SyncKeepsJob

\* A thread that ends, or begins, a goal that is no sync is no caller.
LEMMA SyncNoCaller ==
  ASSUME EngineInv, EngineInv', SyncInv, NEW t \in Thread, Frame(t), ~Firing(t), job[t].op # "sync",
         pc'[t] \in {"ready", "check"}, job'[t].op # "sync",
         Goal(t)' # None => con[Goal(t)'] \notin SyncOnly,
         calls' = calls, con' = con, mod' = mod, tokens' = tokens,
         \A i \in DOMAIN tasks' : con[tasks'[i].goal] \notin SyncOnly,
         pending' = pending, claimed' = claimed
  PROVE  SyncInv'
<1>1. CallerInv(t)'
  <2>1. CallerInv(t)  BY DEF SyncInv
  <2> QED  BY <2>1, SyncOnlyFixed DEF CallerInv, Goal, Matching
<1>2. \A s : /\ ~Paying(t, s) /\ ~Paying(t, s)' /\ ~Waiting(t, s)' /\ ~Waiting(t, s)
  BY DEF Paying, Firing, Waiting, Served
<1> QED  BY <1>1, <1>2, SyncQuiet

LEMMA EnqueueSync ==
  ASSUME EngineInv, EngineInv', SyncInv, NEW t \in Thread, Enqueue(t)
  PROVE  SyncInv'
<1> USE DEF EngineInv
<1>1. /\ pc[t] = "enqueue" /\ pc'[t] = "ready" /\ job'[t] = NoJob
      /\ UNCHANGED <<con, mod, pending, claimed, tokens, calls>>
  BY DEF Enqueue, Jump, store, TypeOK
<1>2. CallerInv(t) /\ ModeInv  BY DEF SyncInv
<1>3. job[t].op # "sync" /\ Goal(t) # None /\ ~Firing(t)
  BY <1>1, <1>2 DEF CallerInv, ThreadInv, Firing
<1>4. Goal(t) \in Known /\ job[t] \in Job  BY <1>3 DEF TypeOK, Job, Maybe, Goal
<1>5. con[Goal(t)] \notin SyncOnly  BY <1>2, <1>3 DEF CallerInv
<1>6. \A i \in DOMAIN tasks' : con[tasks'[i].goal] \notin SyncOnly
  <2>1. PICK e : e = [goal |-> Goal(t), run |-> job[t].run]  OBVIOUS
  <2>2. e \in Task /\ e.goal = Goal(t)  BY <1>4, <2>1 DEF Task, Job
  <2>3. tasks \in Seq(Task)  BY DEF TypeOK
  <2>4. tasks' = tasks \/ tasks' = Append(tasks, e)  BY <2>1 DEF Enqueue
  <2>5. CASE tasks' = Append(tasks, e)
    <3>1. /\ DOMAIN tasks = 1..Len(tasks) /\ Len(tasks) \in Nat
          /\ Append(tasks, e) \in Seq(Task) /\ Len(Append(tasks, e)) = Len(tasks) + 1
          /\ \A i \in 1..Len(tasks) : Append(tasks, e)[i] = tasks[i]
          /\ Append(tasks, e)[Len(tasks) + 1] = e
      BY <2>2, <2>3, LenProperties, AppendProperties
    <3>2. DOMAIN Append(tasks, e) = 1..(Len(tasks) + 1)  BY <3>1, LenProperties
    <3>3. ASSUME NEW i \in DOMAIN Append(tasks, e)
          PROVE  con[Append(tasks, e)[i].goal] \notin SyncOnly
      <4>1. CASE i \in 1..Len(tasks)  BY <1>2, <3>1, <4>1 DEF ModeInv
      <4>2. CASE i = Len(tasks) + 1  BY <1>5, <2>2, <3>1, <4>2
      <4> QED  BY <3>1, <3>2, <4>1, <4>2
    <3> QED  BY <2>5, <3>3
  <2> QED  BY <1>2, <2>4, <2>5 DEF ModeInv
<1>7. Goal(t)' = None /\ job'[t].op # "sync"  BY <1>1 DEF Goal, NoJob, NewJob
<1>8. Frame(t)  BY EnqueueInv
<1> QED  BY <1>1, <1>3, <1>6, <1>7, <1>8, SyncNoCaller

LEMMA TakeTaskSync ==
  ASSUME EngineInv, EngineInv', SyncInv, NEW t \in Thread, TakeTask(t)
  PROVE  SyncInv'
<1> USE DEF EngineInv
<1>1. /\ pc[t] = "ready" /\ pc'[t] = "check" /\ tasks # << >> /\ tasks' = Tail(tasks)
      /\ job'[t] = NewJob(Head(tasks).goal, "async", Head(tasks).run)
      /\ UNCHANGED <<con, mod, pending, claimed, tokens, calls>>
  BY DEF TakeTask, Jump, store, TypeOK
<1>2. CallerInv(t) /\ ModeInv  BY DEF SyncInv
<1>3. job[t].op # "sync" /\ ~Firing(t)  BY <1>1, <1>2 DEF CallerInv, Firing
<1>4. /\ tasks \in Seq(Task) /\ Len(tasks) \in Nat /\ Len(tasks) # 0 /\ DOMAIN tasks = 1..Len(tasks)
      /\ Tail(tasks) \in Seq(Task) /\ Len(Tail(tasks)) = Len(tasks) - 1
      /\ \A i \in 1..Len(Tail(tasks)) : Tail(tasks)[i] = tasks[i + 1]
      /\ Head(tasks) = tasks[1]
  BY <1>1, HeadTailProperties, LenProperties, EmptySeq DEF TypeOK
<1>5. \A i \in DOMAIN tasks' : con[tasks'[i].goal] \notin SyncOnly
  <2>1. DOMAIN Tail(tasks) = 1..Len(Tail(tasks))  BY <1>4, LenProperties
  <2>2. \A i \in DOMAIN Tail(tasks) : i + 1 \in DOMAIN tasks  BY <1>4, <2>1
  <2> QED  BY <1>1, <1>2, <1>4, <2>1, <2>2 DEF ModeInv
<1>6. job'[t].op # "sync" /\ con[Goal(t)'] \notin SyncOnly
  <2>1. 1 \in DOMAIN tasks  BY <1>4
  <2>2. Goal(t)' = Head(tasks).goal /\ job'[t].op = "async"  BY <1>1 DEF Goal, NewJob
  <2> QED  BY <1>2, <1>4, <2>1, <2>2 DEF ModeInv
<1>7. Frame(t)  BY TakeTaskInv
<1> QED  BY <1>1, <1>3, <1>5, <1>6, <1>7, SyncNoCaller

LEMMA CheckLiveSync ==
  ASSUME EngineInv, EngineInv', SyncInv, NEW t \in Thread, CheckLive(t)
  PROVE  SyncInv'
<1> USE DEF EngineInv
<1>1. /\ pc[t] = "check"
      /\ UNCHANGED <<con, mod, pending, claimed, tokens, tasks, calls>>
  BY DEF CheckLive, store
<1>2. CallerInv(t) /\ ModeInv /\ Frame(t)  BY CheckLiveInv DEF SyncInv
<1>3. job[t].op # "sync" /\ ~Firing(t)  BY <1>1, <1>2 DEF CallerInv, Firing
<1>4. CASE Jump(t, "try") /\ UNCHANGED <<job, list, cur>>
  <2>1. pc'[t] = "try" /\ job' = job  BY <1>4 DEF Jump, TypeOK
  <2>2. ~Firing(t)' /\ pc'[t] \notin Matching  BY <2>1 DEF Firing, Matching
  <2> QED  BY <1>1, <1>2, <1>3, <2>1, <2>2, SyncKeepsJob
<1>5. CASE Return(t, TRUE, FALSE)
  <2>1. pc'[t] = "ready" /\ job'[t] = NoJob  BY <1>5 DEF Return, Jump, TypeOK
  <2>2. Goal(t)' = None /\ job'[t].op # "sync"  BY <2>1 DEF Goal, NoJob, NewJob
  <2>3. \A i \in DOMAIN tasks' : con[tasks'[i].goal] \notin SyncOnly  BY <1>1, <1>2 DEF ModeInv
  <2> QED  BY <1>1, <1>2, <1>3, <2>1, <2>2, <2>3, SyncNoCaller
<1> QED  BY <1>4, <1>5 DEF CheckLive

LEMMA NoModeSync ==
  ASSUME EngineInv, EngineInv', SyncInv, NEW t \in Thread, NoMode(t)
  PROVE  SyncInv'
<1>1. /\ pc[t] = "try" /\ Return(t, FALSE, FALSE)
      /\ UNCHANGED <<con, mod, pending, claimed, tokens, tasks, calls>>
  BY DEF NoMode, store
<1>2. Goal(t) # None /\ ~Firing(t)  BY <1>1 DEF EngineInv, ThreadInv, Firing
<1>3. Frame(t)  BY NoModeInv
<1> QED  BY <1>1, <1>2, <1>3, SyncReturns

LEMMA PopTokenSync ==
  ASSUME EngineInv, EngineInv', SyncInv, NEW t \in Thread, PopToken(t)
  PROVE  SyncInv'
<1> USE DEF EngineInv
<1>1. /\ pc[t] \in {"poll", "wait"} /\ tokens[Goal(t)] > 0
      /\ tokens' = [tokens EXCEPT ![Goal(t)] = @ - 1]
      /\ UNCHANGED <<con, mod, pending, claimed, tasks, calls>>
      /\ Return(t, TRUE, FALSE)
  BY DEF PopToken
<1>2. pc'[t] = "ready" /\ job'[t] = NoJob  BY <1>1 DEF Return, Jump, TypeOK
<1>3. Goal(t)' = None /\ job'[t].op # "sync"  BY <1>2 DEF Goal, NoJob, NewJob
<1>4. CallerInv(t) /\ ModeInv /\ Frame(t) /\ Grown  BY PopTokenInv DEF SyncInv
<1>5. Goal(t) \in Known /\ Known \subseteq Status /\ Known' = Known
  <2>1. Goal(t) # None  BY <1>1 DEF ThreadInv
  <2> QED  BY <1>1, <2>1, Stati, SameTypes DEF TypeOK, Job, Maybe, Goal
<1>6. ~Firing(t) /\ ~Firing(t)'  BY <1>1, <1>2 DEF Firing
<1>7. CallerInv(t)'
  BY <1>1, <1>2, <1>3, <1>4, SyncOnlyFixed DEF CallerInv, Matching
<1>8. \A s \in Status : tokens'[s] = IF s = Goal(t) THEN tokens[s] - 1 ELSE tokens[s]
  BY <1>1 DEF TypeOK
<1>9. ModeInv'
  BY <1>1, <1>4, <1>5, <1>8, SyncOnlyFixed DEF ModeInv
<1>10. ASSUME NEW s \in Known', con'[s] \in SyncOnly PROVE Settled(t, s)
  <2>1. s \in Status /\ con[s] \in SyncOnly  BY <1>1, <1>5, <1>10
  <2>2. ~Paying(t, s) /\ (Waiting(t, s) <=> job[t].op = "sync" /\ Goal(t) = s)
    BY <1>6, OutsideWaits
  <2>3. ~Paying(t, s)' /\ ~Waiting(t, s)'  BY <1>3, <1>6 DEF Paying, Waiting, Firing
  <2>4. Waiting(t, s) <=> s = Goal(t)
    <3>1. Goal(t) # None  BY <1>1 DEF ThreadInv
    <3>2. s = Goal(t) => job[t].op = "sync"  BY <1>4, <2>1, <3>1 DEF CallerInv
    <3> QED  BY <2>2, <3>2
  <2>5. /\ Bit(Paying(t, s)) = 0 /\ Bit(Paying(t, s)') = 0 /\ Bit(Waiting(t, s)') = 0
        /\ Bit(Waiting(t, s)) = IF s = Goal(t) THEN 1 ELSE 0
    BY <2>2, <2>3, <2>4 DEF Bit
  <2>6. pending[s] \in Nat /\ claimed[s] \in Nat /\ tokens[s] \in Nat  BY <2>1 DEF TypeOK
  <2>7. pending'[s] = pending[s] /\ claimed'[s] = claimed[s]  BY <1>1
  <2> QED  BY <1>8, <2>1, <2>5, <2>6, <2>7 DEF Settled
<1> QED  BY <1>4, <1>7, <1>9, <1>10, SyncStep

\* The body runs when all is consumed: the caller was served.
LEMMA RunBodySync ==
  ASSUME EngineInv, EngineInv', SyncInv, NEW t \in Thread, RunBody(t), Tidy(list[t])
  PROVE  SyncInv'
<1> USE DEF EngineInv
<1>1. /\ pc[t] = "body" /\ Return(t, TRUE, FALSE)
      /\ calls' = [calls EXCEPT ![t] = Epilogue(list[t]) \o @]
      /\ UNCHANGED <<con, mod, pending, claimed, tokens, tasks>>
  BY DEF RunBody, store
<1>2. pc'[t] = "ready" /\ job'[t] = NoJob  BY <1>1 DEF Return, Jump, TypeOK
<1>3. Goal(t)' = None /\ job'[t].op # "sync"  BY <1>2 DEF Goal, NoJob, NewJob
<1>4. CallerInv(t) /\ ModeInv /\ Frame(t)  BY RunBodyInv DEF SyncInv
<1>5. held[t] = {} /\ GoodList(list[t]) /\ Complete(list[t].rule, list[t].m)
  BY <1>1 DEF ThreadInv, Empty, Matching, Whole
<1>6. Asked(calls'[t])
  <2>1. Asked(Epilogue(list[t])) /\ Epilogue(list[t]) \in Seq(Call)
    BY <1>4, <1>5, EpilogueAsked
  <2>2. calls[t] \in Seq(Call) /\ Asked(calls[t])  BY <1>4 DEF TypeOK, CallerInv
  <2>3. Asked(Epilogue(list[t]) \o calls[t])  BY <2>1, <2>2, AskedParts
  <2> QED  BY <1>1, <2>3 DEF TypeOK
<1>7. CallerInv(t)'
  <2>1. Asked(calls[t])'  BY <1>6, SyncOnlyFixed DEF Asked
  <2> QED  BY <1>2, <1>3, <2>1 DEF CallerInv, Matching
<1>8. \A s : ~Paying(t, s) /\ ~Paying(t, s)' /\ ~Waiting(t, s)'
  BY <1>1, <1>2, <1>3 DEF Paying, Waiting
<1>9. \A s : ~Waiting(t, s)
  <2>1. Firing(t) /\ 1 \notin held[t]  BY <1>1, <1>5 DEF Firing
  <2> QED  BY <1>4, <2>1, WaitingNow DEF WaitingWell
<1>10. \A i \in DOMAIN tasks' : con[tasks'[i].goal] \notin SyncOnly  BY <1>1, <1>4 DEF ModeInv
<1> QED  BY <1>1, <1>4, <1>7, <1>8, <1>9, <1>10, SyncQuiet

\* A token that is paid was due.
LEMMA PushTokenSync ==
  ASSUME EngineInv, EngineInv', SyncInv, NEW t \in Thread, PushToken(t)
  PROVE  SyncInv'
<1> USE DEF EngineInv
<1> DEFINE d == list[t].used[cur[t].at]
<1>1. /\ pc[t] = "token" /\ AfterUse(t)
      /\ tokens' = [tokens EXCEPT ![d] = @ + 1]
      /\ UNCHANGED <<con, mod, pending, claimed, tasks, calls, held>>
  BY DEF PushToken
<1>2. cur[t].at \in DOMAIN list[t].used  BY <1>1 DEF ThreadInv, Whole
<1>3. job' = job /\ list'[t] = list[t] /\ pc'[t] \in {"body", "consume"}
  BY <1>1, <1>2, AfterUseEffect
<1>4. CallerInv(t) /\ ModeInv /\ Frame(t) /\ Grown  BY PushTokenInv DEF SyncInv
<1>5. d \in Known /\ Known \subseteq Status /\ Known' = Known
  <2>1. list[t].used \in Seq(Known)  BY DEF TypeOK, List
  <2>2. d \in Known  BY <1>2, <2>1, LenProperties, ElementOfSeq
  <2>3. Known \subseteq Status  BY Stati
  <2>4. Known' = Known  BY <1>1, SameTypes
  <2> QED  BY <2>2, <2>3, <2>4
<1>6. Firing(t) /\ Firing(t)'  BY <1>1, <1>3 DEF Firing
<1>7. CallerInv(t)'
  <2>1. Led(list'[t], Goal(t))  BY <1>1, <1>3, <1>4 DEF CallerInv, Matching
  <2>2. calls' = calls /\ con' = con  BY <1>1
  <2>3. Goal(t)' = Goal(t)  BY <1>3 DEF Goal
  <2> QED  BY <1>3, <1>4, <2>1, <2>2, <2>3, SyncOnlyFixed DEF CallerInv, Led
<1>8. \A s : /\ Paying(t, s) <=> s = d
             /\ ~Paying(t, s)'
  BY <1>1, <1>3 DEF Paying
<1>9. \A s : Waiting(t, s)' <=> Waiting(t, s)
  <2>1. \A s : Waiting(t, s) <=> job[t].op = "sync" /\ Goal(t) = s /\ ~(Firing(t) /\ 1 \notin held[t])
    BY <1>4, WaitingNow DEF WaitingWell
  <2>2. \A s : Waiting(t, s)' <=> job'[t].op = "sync" /\ Goal(t)' = s /\ ~(Firing(t)' /\ 1 \notin held'[t])
    BY <1>7, WaitingNext DEF WaitingWell
  <2> QED  BY <1>1, <1>3, <1>6, <2>1, <2>2 DEF Goal
<1> HIDE DEF d
<1>10. \A s \in Status : tokens'[s] = IF s = d THEN tokens[s] + 1 ELSE tokens[s]
  BY <1>1 DEF TypeOK
<1>11. ModeInv'  BY <1>1, <1>4, <1>5, <1>10, SyncOnlyFixed DEF ModeInv
<1>12. ASSUME NEW s \in Known' PROVE Settled(t, s)
  <2>1. s \in Status  BY <1>5
  <2>2. PICK w \in {0, 1} : w = Bit(Waiting(t, s)) /\ w = Bit(Waiting(t, s)')
    BY <1>9 DEF Bit
  <2>3. Bit(Paying(t, s)) = (IF s = d THEN 1 ELSE 0) /\ Bit(Paying(t, s)') = 0
    BY <1>8 DEF Bit
  <2>4. pending[s] \in Nat /\ claimed[s] \in Nat /\ tokens[s] \in Nat  BY <2>1 DEF TypeOK
  <2>5. pending'[s] = pending[s] /\ claimed'[s] = claimed[s]  BY <1>1
  <2> QED  BY <1>10, <2>1, <2>2, <2>3, <2>4, <2>5 DEF Settled
<1> QED  BY <1>4, <1>7, <1>11, <1>12, SyncStep

\* Consuming the goal's own use serves its caller; another one makes a token due.
LEMMA ConsumeSync ==
  ASSUME EngineInv, EngineInv', SyncInv, NEW t \in Thread, Consume(t)
  PROVE  SyncInv'
<1> USE DEF EngineInv
<1> DEFINE i == cur[t].at
           d == list[t].used[i]
           n == Len(list[t].used)
<1>1. /\ pc[t] = "consume"
      /\ claimed' = [claimed EXCEPT ![d] = IF @ > 0 THEN @ - 1 ELSE @]
      /\ held' = [held EXCEPT ![t] = @ \ {i}]
      /\ IF OwnUse(t, i) THEN AfterUse(t) ELSE Search(t, "token", list[t], cur[t])
      /\ UNCHANGED <<con, mod, pending, tokens, tasks, calls>>
  BY DEF Consume, ConsumeUse
<1>2. i \in DOMAIN list[t].used /\ held[t] = i..n
  BY <1>1 DEF ThreadInv, Whole
<1>3. CallerInv(t) /\ ModeInv /\ Frame(t) /\ Grown  BY ConsumeUseInv DEF SyncInv, Consume
<1>4. list[t].used \in Seq(Known) /\ n \in Nat /\ DOMAIN list[t].used = 1..n
  <2>1. list[t].used \in Seq(Known)  BY DEF TypeOK, List
  <2> QED  BY <2>1, LenProperties
<1>5. d \in Known /\ Known \subseteq Status /\ Known' = Known
  BY <1>1, <1>2, <1>4, ElementOfSeq, Stati, SameTypes
<1>6. Led(list[t], Goal(t))  BY <1>1, <1>3 DEF CallerInv, Matching
<1>7. OwnUse(t, i) <=> i = 1
  <2>1. i \in 1..n  BY <1>2, <1>4
  <2>2. i # 1 => 1 \in 1..(i - 1)  BY <1>4, <2>1
  <2>3. 1..(1 - 1) = {}  OBVIOUS
  <2> QED  BY <1>6, <2>2, <2>3 DEF OwnUse, Led
<1>8. /\ job' = job /\ list'[t] = list[t]
      /\ i = 1 => pc'[t] \in {"body", "consume"}
      /\ i # 1 => pc'[t] = "token" /\ cur'[t] = cur[t]
  <2>1. CASE i = 1
    <3>1. AfterUse(t)  BY <1>1, <1>7, <2>1
    <3> QED  BY <1>2, <2>1, <3>1, AfterUseEffect
  <2>2. CASE i # 1
    <3>1. Search(t, "token", list[t], cur[t])  BY <1>1, <1>7, <2>2
    <3> QED  BY <2>2, <3>1 DEF Search, Move, Jump, TypeOK
  <2> QED  BY <2>1, <2>2
<1>9. Firing(t) /\ Firing(t)'  BY <1>1, <1>8 DEF Firing
<1>10. 1 \notin held'[t] /\ (1 \in held[t] <=> i = 1)
  <2>1. held'[t] = held[t] \ {i}  BY <1>1 DEF TypeOK
  <2> HIDE DEF i, n
  <2>2. i \in 1..n  BY <1>2, <1>4
  <2>3. 1 \in i..n <=> i = 1  BY <1>4, <2>2
  <2> QED  BY <1>2, <2>1, <2>3
<1>11. CallerInv(t)'
  <2>1. calls' = calls /\ con' = con  BY <1>1
  <2>2. Goal(t)' = Goal(t)  BY <1>8 DEF Goal
  <2>3. pc'[t] = "token" => cur'[t].at > 1
    <3>1. i \in 1..n  BY <1>2, <1>4
    <3>2. i # 1 => i > 1  BY <1>4, <3>1
    <3> QED  BY <1>8, <3>2
  <2>4. pc'[t] \in {"body", "consume", "token"}  BY <1>8
  <2> QED  BY <1>3, <1>6, <1>8, <2>1, <2>2, <2>3, <2>4, SyncOnlyFixed DEF CallerInv, Led
<1>12. \A s : ~Paying(t, s) /\ (Paying(t, s)' <=> i # 1 /\ s = d)
  BY <1>1, <1>8 DEF Paying
<1>13. \A s : Waiting(t, s) <=> job[t].op = "sync" /\ Goal(t) = s /\ i = 1
  BY <1>3, <1>9, <1>10, WaitingNow DEF WaitingWell
<1>14. \A s : ~Waiting(t, s)'
  BY <1>9, <1>10, <1>11, WaitingNext DEF WaitingWell
<1>15. i = 1 => d = Goal(t)  BY <1>6 DEF Led
<1>16. claimed[d] > 0
  <2>1. i \in held[t] /\ d \in Status
    <3>1. i \in 1..n  BY <1>2, <1>4
    <3> HIDE DEF i, n
    <3>2. i \in i..n  BY <1>4, <3>1
    <3> QED  BY <1>2, <1>5, <3>2
  <2> HIDE DEF i
  <2>2. d = list[t].used[i]  BY DEF d, i
  <2> HIDE DEF d
  <2> QED  BY <1>1, <1>3, <1>8, <2>1, <2>2, ClaimEnds
<1> HIDE DEF d, i
<1>17. \A s \in Status : claimed'[s] = IF s = d THEN claimed[s] - 1 ELSE claimed[s]
  BY <1>1, <1>5, <1>16 DEF TypeOK
<1>18. ModeInv'  BY <1>1, <1>3, <1>5, <1>17, SyncOnlyFixed DEF ModeInv
<1>19. ASSUME NEW s \in Known', con'[s] \in SyncOnly PROVE Settled(t, s)
  <2>1. s \in Status /\ con[s] \in SyncOnly /\ s # None
    BY <1>1, <1>5, <1>19, Stati
  <2>2. Bit(Paying(t, s)) = 0 /\ Bit(Waiting(t, s)') = 0
    BY <1>12, <1>14 DEF Bit
  <2>3. Bit(Paying(t, s)') = IF i # 1 /\ s = d THEN 1 ELSE 0  BY <1>12 DEF Bit
  <2>4. Bit(Waiting(t, s)) = IF i = 1 /\ s = d THEN 1 ELSE 0
    <3>1. s = Goal(t) => job[t].op = "sync"  BY <1>3, <2>1 DEF CallerInv
    <3>2. Waiting(t, s) <=> i = 1 /\ s = d  BY <1>13, <1>15, <3>1
    <3> QED  BY <3>2 DEF Bit
  <2>5. pending[s] \in Nat /\ claimed[s] \in Nat /\ tokens[s] \in Nat  BY <2>1 DEF TypeOK
  <2>6. pending'[s] = pending[s] /\ tokens'[s] = tokens[s]  BY <1>1
  <2> QED  BY <1>17, <2>1, <2>2, <2>3, <2>4, <2>5, <2>6 DEF Settled
<1> QED  BY <1>3, <1>11, <1>18, <1>19, SyncStep

\* A search, and the claims on a match, leave the caller where it was, as long as
\* its goal stays the first use.
LEMMA SyncSearches ==
  ASSUME EngineInv, EngineInv', SyncInv, NEW t \in Thread, Frame(t), ~Firing(t),
         pc'[t] \in Matching \ {"token", "body"}, Led(list'[t], Goal(t)),
         pc'[t] = "consume" => 1 \in held'[t],
         job'[t].goal = job[t].goal, job'[t].op = job[t].op,
         calls' = calls, con' = con, mod' = mod, tokens' = tokens, tasks' = tasks,
         \A s \in Status : pending'[s] + claimed'[s] = pending[s] + claimed[s]
  PROVE  SyncInv'
<1> USE DEF EngineInv
<1>1. CallerInv(t) /\ ModeInv /\ Goal(t)' = Goal(t)  BY DEF SyncInv, Goal
<1>2. CallerInv(t)'
  <2>1. Led(list[t], Goal(t))'  BY <1>1 DEF Led
  <2>2. pc'[t] \notin {"ready", "enqueue", "check", "allocate", "token"}  BY DEF Matching
  <2> QED  BY <1>1, <2>1, <2>2, SyncOnlyFixed DEF CallerInv
<1>3. \A s : ~Paying(t, s) /\ ~Paying(t, s)'  BY DEF Paying, Firing
<1>4. \A s : Waiting(t, s)' <=> Waiting(t, s)
  <2>1. \A s : Waiting(t, s) <=> job[t].op = "sync" /\ Goal(t) = s  BY OutsideWaits
  <2>2. Firing(t)' => 1 \in held'[t]  BY DEF Firing
  <2>3. \A s : Waiting(t, s)' <=> job'[t].op = "sync" /\ Goal(t)' = s /\ ~(Firing(t)' /\ 1 \notin held'[t])
    BY <1>2, WaitingNext DEF WaitingWell
  <2> QED  BY <1>1, <2>1, <2>2, <2>3
<1>5. \A j \in DOMAIN tasks' : con[tasks'[j].goal] \notin SyncOnly  BY <1>1 DEF ModeInv
<1> QED  BY <1>2, <1>3, <1>4, <1>5, SyncQuiet

LEMMA CommonSync ==
  ASSUME EngineInv, EngineInv', SyncInv, NEW t \in Thread, Common(t), pc[t] = "body" => Tidy(list[t])
  PROVE  SyncInv'
<1>1. CASE RunBody(t)  BY <1>1, RunBodySync DEF RunBody
<1> QED  BY <1>1, MakeCallSync, AllocateSync, IndexSync, EnqueueSync, TakeTaskSync, CheckLiveSync,
            NoModeSync, PopTokenSync, NoTokenSync, PushTokenSync DEF Common

LEMMA SyncStutter == ASSUME SyncInv, UNCHANGED vars PROVE SyncInv'
<1>1. UNCHANGED <<con, mod, pending, claimed, tokens, tasks, pc, calls, job, list, cur, held>>
  BY DEF vars, store, local
<1>2. ModeInv' /\ \A t \in Thread : CallerInv(t)'
  BY <1>1, SyncOnlyFixed DEF SyncInv, ModeInv, CallerInv, Known, Goal, Led
<1>3. SyncServed'
  <2>1. \A t \in Thread : Served(t)' <=> Served(t)  BY <1>1 DEF Served, Firing, OwnUse, Goal
  <2>2. \A s : Callers(s)' = Callers(s) /\ TokenDue(s)' = TokenDue(s)
    BY <1>1, <2>1 DEF Callers, TokenDue, Goal
  <2> QED  BY <1>1, <2>2, SyncOnlyFixed DEF SyncInv, SyncServed
<1> QED  BY <1>2, <1>3 DEF SyncInv

(***************************************************************************)
(* Only tried goals wait: as long as used_mode_ is not set, no status that *)
(* sync added may be kept, and no thread is to add one before it sets the  *)
(* mode; so no kept constraint is added again by a sync without a mode.    *)
(***************************************************************************)
Untried(t) ==
  /\ Primed(calls[t])
  /\ pc[t] = "allocate" => ~SetsMode(Head(calls[t]))

TriedOf(t) ==
  /\ job[t].op = "sync" => job[t].run
  /\ job[t].op = "add" => pc[t] \in {"allocate", "index", "enqueue"}
  /\ pc[t] \in {"poll", "wait"} => job[t].op = "sync"
  /\ pc[t] = "allocate" => job[t].op = Head(calls[t]).op
  /\ used_mode = "NONE" => Untried(t)

SyncsLeft == \A s \in Known : mod[s] = "SYNC" => con[s] \notin Keepable

TriedInv == (\A t \in Thread : TriedOf(t)) /\ (used_mode = "NONE" => SyncsLeft)

LEMMA PrimedParts ==
  ASSUME NEW p \in Seq(Call), NEW q \in Seq(Call), Primed(p), Primed(q)
  PROVE  /\ Primed(p \o q)
         /\ q # << >> => /\ ~SetsMode(Head(q)) => Primed(Tail(q))
                         /\ Head(q).op = "sync" => ~Head(q).keep /\ Head(q).con \notin Keepable
<1>1. Primed(p \o q)
  <2> SUFFICES ASSUME NEW i \in DOMAIN (p \o q), (p \o q)[i].op = "sync",
                      (p \o q)[i].keep \/ (p \o q)[i].con \in Keepable
               PROVE  \E j \in 1..(i - 1) : SetsMode((p \o q)[j])
    BY DEF Primed
  <2>1. /\ DOMAIN p = 1..Len(p) /\ DOMAIN q = 1..Len(q) /\ Len(p) \in Nat /\ Len(q) \in Nat
        /\ DOMAIN (p \o q) = 1..(Len(p) + Len(q))
        /\ \A j \in 1..(Len(p) + Len(q)) : (p \o q)[j] = IF j <= Len(p) THEN p[j] ELSE q[j - Len(p)]
    BY LenProperties, ConcatProperties
  <2>2. CASE i <= Len(p)
    <3>1. PICK j \in 1..(i - 1) : SetsMode(p[j])  BY <2>1, <2>2 DEF Primed
    <3>2. (p \o q)[j] = p[j]  BY <2>1, <2>2
    <3> QED  BY <3>1, <3>2
  <2>3. CASE ~(i <= Len(p))
    <3>1. i - Len(p) \in DOMAIN q  BY <2>1, <2>3
    <3>2. PICK j \in 1..(i - Len(p) - 1) : SetsMode(q[j])  BY <2>1, <2>3, <3>1 DEF Primed
    <3>3. j + Len(p) \in 1..(i - 1) /\ (p \o q)[j + Len(p)] = q[j]  BY <2>1, <2>3, <3>1
    <3> QED  BY <3>2, <3>3
  <2> QED  BY <2>2, <2>3
<1>2. ASSUME q # << >>
      PROVE  /\ ~SetsMode(Head(q)) => Primed(Tail(q))
             /\ Head(q).op = "sync" => ~Head(q).keep /\ Head(q).con \notin Keepable
  <2>1. /\ Len(q) \in Nat /\ Len(q) # 0 /\ DOMAIN q = 1..Len(q)
        /\ Tail(q) \in Seq(Call) /\ Len(Tail(q)) = Len(q) - 1
        /\ \A i \in 1..Len(Tail(q)) : Tail(q)[i] = q[i + 1]
        /\ Head(q) = q[1]
    BY <1>2, HeadTailProperties, LenProperties, EmptySeq
  <2>2. ASSUME ~SetsMode(Head(q)), NEW i \in DOMAIN Tail(q), Tail(q)[i].op = "sync",
               Tail(q)[i].keep \/ Tail(q)[i].con \in Keepable
        PROVE  \E j \in 1..(i - 1) : SetsMode(Tail(q)[j])
    <3>1. i \in 1..Len(Tail(q)) /\ i + 1 \in DOMAIN q /\ Tail(q)[i] = q[i + 1]
      BY <2>1, LenProperties
    <3>2. PICK j \in 1..i : SetsMode(q[j])  BY <2>2, <3>1 DEF Primed
    <3>3. j # 1  BY <2>1, <2>2, <3>2
    <3>4. j - 1 \in 1..(i - 1) /\ Tail(q)[j - 1] = q[j]  BY <2>1, <3>1, <3>3
    <3> QED  BY <3>2, <3>4
  <2>3. Head(q).op = "sync" => ~Head(q).keep /\ Head(q).con \notin Keepable
    <3>1. 1 \in DOMAIN q /\ 1..(1 - 1) = {}  BY <2>1
    <3> QED  BY <2>1, <3>1 DEF Primed
  <2> QED  BY <2>2, <2>3 DEF Primed
<1> QED  BY <1>1, <1>2

\* What a rule without a mode calls for.
LEMMA EpiloguePrimed ==
  ASSUME TypeOK, ModeIsSet, SyncsLeft, NEW l, GoodList(l), Complete(l.rule, l.m), Tidy(l)
  PROVE  Primed(Epilogue(l)) /\ Epilogue(l) \in Seq(Call)
<1> DEFINE r == l.rule
           cs == RuleOrdered(l)
<1>1. /\ cs \in [Heads(r) -> Con] /\ Typed(r, cs) /\ r \in RuleId
  BY RuleOrderedNames DEF TypeOK, GoodList, Typed
<1> HIDE DEF cs
<1>2. Body(r, cs) \in Seq(Call) /\ Primed(Body(r, cs))
  BY <1>1, ThreadAssumption DEF Typed, ModeIsSet
<1>3. Kept(l) \in Seq(Call) /\ DOMAIN Kept(l) = DOMAIN l.keep  BY KeptCalls
<1>4. ASSUME NEW i \in DOMAIN l.keep PROVE Kept(l)[i].op # "sync"
  <2>1. PICK s : s = l.keep[i]  OBVIOUS
  <2>2. s \in Known /\ \E h \in 1..Rules[r].keep : con[s].name = HeadName(r, h)
    BY <2>1, KeptHead
  <2>3. con[s] \in Con  BY <2>2, LenProperties, ElementOfSeq DEF TypeOK, Known
  <2>4. CASE r \in NoMpi  BY <2>4 DEF Kept
  <2>5. CASE r \notin NoMpi
    <3>1. con[s] \in Keepable  BY <1>1, <2>2, <2>3, <2>5 DEF Keepable
    <3>2. mod[s] # "SYNC"  BY <2>2, <3>1 DEF SyncsLeft
    <3> QED  BY <2>1, <3>2 DEF Kept
  <2> QED  BY <2>4, <2>5
<1>5. Primed(Kept(l))  BY <1>3, <1>4 DEF Primed
<1> QED  BY <1>2, <1>3, <1>5, PrimedParts, ConcatProperties DEF Epilogue, cs

\* A step disturbs only what is said of its own thread.
Apartly(t) == \A u \in Thread \ {t} : pc'[u] = pc[u] /\ calls'[u] = calls[u] /\ job'[u] = job[u]

LEMMA TriedStep ==
  ASSUME TriedInv, NEW t \in Thread, Apartly(t), used_mode' \in {used_mode, "SET"}, TriedOf(t)',
         used_mode' = "NONE" => SyncsLeft'
  PROVE  TriedInv'
<1>1. ASSUME NEW u \in Thread \ {t} PROVE TriedOf(u)'
  <2>1. pc'[u] = pc[u] /\ calls'[u] = calls[u] /\ job'[u] = job[u]  BY DEF Apartly
  <2>2. TriedOf(u)  BY DEF TriedInv
  <2>3. used_mode' = "NONE" => used_mode = "NONE"  OBVIOUS
  <2> QED  BY <2>1, <2>2, <2>3 DEF TriedOf, Untried, Primed
<1> QED  BY <1>1 DEF TriedInv

\* The steps of a goal loop and of a search: the goal stays as it was added, or the
\* loop goes on or ends.
LEMMA TriedLoop ==
  ASSUME TypeOK, TriedInv, NEW t \in Thread, Quiet(t), calls' = calls,
         UNCHANGED <<con, mod, used_mode>>, pc[t] \notin {"allocate", "index", "enqueue"},
         \/ \E fired, retry : Return(t, fired, retry)
         \/ job'[t] = job[t] /\ pc'[t] \notin {"allocate", "poll", "wait"}
  PROVE  TriedInv'
<1>1. Apartly(t)  BY DEF Apartly, Quiet
<1>2. TriedOf(t) /\ job[t].op # "add"  BY DEF TriedInv, TriedOf
<1>3. TriedOf(t)'
  <2>1. CASE job'[t] = job[t] /\ pc'[t] \notin {"allocate", "poll", "wait"}
    BY <1>2, <2>1 DEF TriedOf, Untried, Primed
  <2>2. CASE \E fired, retry : Return(t, fired, retry)
    <3>1. PICK fired, retry : Return(t, fired, retry)  BY <2>2
    <3>2. job[t] \in Job  BY DEF TypeOK
    <3>3. pc'[t] \in Looping /\ (pc'[t] \in {"poll", "wait"} => job[t].op # "async")
      BY <3>1 DEF Return, Jump, TypeOK, Looping
    <3>4. job'[t] = NoJob \/ (job'[t].op = job[t].op /\ job'[t].run = job[t].run)
      BY <3>1, <3>2 DEF Return, TypeOK, Job
    <3>5. pc'[t] # "ready" => job'[t].op = job[t].op
      BY <3>1, <3>2 DEF Return, Jump, TypeOK, Job
    <3>6. job[t].op \in {"async", "sync"}  BY <1>2, <3>2 DEF Job
    <3>7. NoJob.op = "async"  BY DEF NoJob, NewJob
    <3>8. pc'[t] # "allocate"  BY <3>3 DEF Looping
    <3>9. /\ job'[t].op = "sync" => job'[t].run
          /\ job'[t].op # "add"
          /\ pc'[t] \in {"poll", "wait"} => job'[t].op = "sync"
      BY <1>2, <3>3, <3>4, <3>5, <3>6, <3>7 DEF TriedOf
    <3>10. used_mode' = "NONE" => Untried(t)'
      BY <1>2, <3>8 DEF TriedOf, Untried, Primed
    <3> QED  BY <3>8, <3>9, <3>10 DEF TriedOf
  <2> QED  BY <2>1, <2>2
<1>4. used_mode' = "NONE" => SyncsLeft'  BY DEF TriedInv, SyncsLeft, Known
<1> QED  BY <1>1, <1>3, <1>4, TriedStep

LEMMA TriedInitially == ASSUME Init, ModeIsSet PROVE TriedInv
<1>1. ASSUME NEW t \in Thread PROVE TriedOf(t)
  <2>1. pc[t] = "ready" /\ job[t] = NoJob  BY DEF Init
  <2>2. Primed(<< >>)  BY DEF Primed
  <2>3. Primed(calls[t])  BY <2>2 DEF Init, Thread, ModeIsSet
  <2> QED  BY <2>1, <2>3 DEF TriedOf, Untried, NoJob, NewJob
<1>2. Known = {}  BY EmptySeq, LenProperties DEF Init, Known
<1> QED  BY <1>1, <1>2 DEF TriedInv, SyncsLeft

LEMMA TriedStutter == ASSUME TriedInv, UNCHANGED vars PROVE TriedInv'
BY DEF vars, store, local, TriedInv, TriedOf, Untried, Primed, SyncsLeft, Known

LEMMA FrameApart == ASSUME NEW t \in Thread, Frame(t) PROVE Apartly(t)
BY DEF Frame, Same, Apartly

\* A call that sets the mode is the first to need it.
LEMMA MakeCallTried ==
  ASSUME EngineInv, TriedInv, NEW t \in Thread, MakeCall(t)
  PROVE  TriedInv'
<1> USE DEF EngineInv
<1> DEFINE k == Head(calls[t])
           m == IF k.keep THEN used_mode ELSE "SET"
<1>1. /\ pc[t] = "ready" /\ calls[t] # << >> /\ InsertCounted(t, k.con, k.op, m = "SET")
      /\ used_mode' \in (IF used_mode = "NONE" /\ k.op # "add" THEN {m} ELSE {used_mode})
                        \cup (IF k.op = "sync" THEN {used_mode} ELSE {})
  BY DEF MakeCall
<1>2. \E d : /\ job' = [job EXCEPT ![t] = NewJob(d, k.op, m = "SET")]
             /\ \/ Jump(t, "allocate") /\ calls' = calls
                \/ /\ calls' = [calls EXCEPT ![t] = Tail(@)]
                   /\ Jump(t, IF k.op = "sync" THEN "try" ELSE "enqueue")
             /\ con' = con /\ mod' = mod
  BY <1>1 DEF InsertCounted
<1>3. Apartly(t)  BY MakeCallInv, FrameApart
<1>4. calls[t] \in Seq(Call) /\ k \in Call /\ used_mode \in {"NONE", "SET"}
  BY <1>1, HeadTailProperties DEF TypeOK
<1>5. TriedOf(t)  BY DEF TriedInv
<1>6. used_mode = "NONE" =>
        /\ Primed(calls[t]) /\ (~SetsMode(k) => Primed(Tail(calls[t])))
        /\ k.op = "sync" => ~k.keep
  BY <1>1, <1>4, <1>5, PrimedParts DEF TriedOf, Untried
<1>7. k.op = "sync" => m = "SET"  BY <1>4, <1>6
<1>8. used_mode' \in {used_mode, "SET"}  BY <1>1, <1>4
<1>9. used_mode' = "NONE" => used_mode = "NONE" /\ ~SetsMode(k)  BY <1>1, <1>4 DEF SetsMode
<1>10. job'[t].op = k.op /\ job'[t].run = (m = "SET")  BY <1>2 DEF NewJob, TypeOK
<1>11. \/ pc'[t] = "allocate" /\ calls'[t] = calls[t]
       \/ calls'[t] = Tail(calls[t]) /\ pc'[t] = IF k.op = "sync" THEN "try" ELSE "enqueue"
  BY <1>2 DEF Jump, TypeOK
<1>12. (Primed(calls[t]) /\ calls'[t] = calls[t]) \/ (Primed(Tail(calls[t])) /\ calls'[t] = Tail(calls[t]))
       => Primed(calls'[t])
  OBVIOUS
<1> HIDE DEF k, m
<1>13. used_mode' = "NONE" => Untried(t)'
  <2>1. ASSUME used_mode' = "NONE" PROVE Primed(calls'[t])
    BY <1>6, <1>9, <1>11, <1>12, <2>1
  <2>2. ASSUME used_mode' = "NONE", pc'[t] = "allocate" PROVE ~SetsMode(Head(calls'[t]))
    <3>1. calls'[t] = calls[t]  BY <1>11, <2>2
    <3> QED  BY <1>9, <2>2, <3>1 DEF k
  <2> QED  BY <2>1, <2>2 DEF Untried, Primed, SetsMode
<1>14. pc'[t] = "allocate" => Head(calls'[t]) = k  BY <1>11 DEF k
<1>15. TriedOf(t)'  BY <1>7, <1>10, <1>11, <1>13, <1>14 DEF TriedOf
<1>16. used_mode' = "NONE" => SyncsLeft'  BY <1>2, <1>9 DEF TriedInv, SyncsLeft, Known
<1> QED  BY <1>3, <1>8, <1>15, <1>16, TriedStep

\* A status that sync adds before the mode is set is of no constraint that may be kept.
LEMMA AllocateTried ==
  ASSUME EngineInv, TriedInv, NEW t \in Thread, Allocate(t)
  PROVE  TriedInv'
<1> USE DEF EngineInv
<1> DEFINE k == Head(calls[t])
           n == Len(con) + 1
<1>1. /\ pc[t] = "allocate" /\ n \in Status
      /\ con' = Append(con, k.con)
      /\ mod' = [mod EXCEPT ![n] = IF job[t].op = "sync" THEN "SYNC" ELSE "ASYNC"]
      /\ job' = [job EXCEPT ![t].goal = n]
      /\ calls' = [calls EXCEPT ![t] = Tail(@)]
      /\ pc' = [pc EXCEPT ![t] = "index"]
      /\ used_mode' = used_mode
  BY DEF Allocate, Jump
<1>2. Apartly(t)  BY AllocateInv, FrameApart
<1>3. TriedOf(t)  BY DEF TriedInv
<1>4. calls[t] \in Seq(Call) /\ calls[t] # << >> /\ k \in Call
  BY <1>1, HeadTailProperties DEF ThreadInv, TypeOK
<1>5. used_mode = "NONE" => /\ Primed(Tail(calls[t]))
                            /\ k.op = "sync" => k.con \notin Keepable
  BY <1>1, <1>3, <1>4, PrimedParts DEF TriedOf, Untried
<1>6. job[t].op = k.op  BY <1>1, <1>3 DEF TriedOf
<1>7. /\ job'[t].op = job[t].op /\ job'[t].run = job[t].run /\ pc'[t] = "index"
      /\ calls'[t] = Tail(calls[t])
  BY <1>1 DEF TypeOK, Job
<1>8. TriedOf(t)'
  <2>1. used_mode' = "NONE" => Untried(t)'
    BY <1>1, <1>5, <1>7 DEF Untried, Primed
  <2> QED  BY <1>3, <1>7, <2>1 DEF TriedOf
<1> HIDE DEF k, n
<1>9. Known = 1..Len(con) /\ Len(con) \in Nat /\ Known \subseteq Status  BY Stati
<1>10. /\ Known' = 1..n /\ con'[n] = k.con
       /\ \A s \in Known : con'[s] = con[s]
  <2>1. k.con \in Con  BY <1>4 DEF Call
  <2>2. con \in Seq(Con) /\ con' \in Seq(Con)  BY <1>1, <2>1, AppendProperties DEF TypeOK
  <2>3. /\ Len(con') = n /\ con'[n] = k.con
        /\ \A i \in 1..Len(con) : con'[i] = con[i]
    BY <1>1, <2>1, <2>2, AppendProperties DEF n
  <2> QED  BY <1>9, <2>2, <2>3, LenProperties DEF Known
<1>11. ASSUME used_mode' = "NONE" PROVE SyncsLeft'
  <2> SUFFICES ASSUME NEW s \in Known', mod'[s] = "SYNC" PROVE con'[s] \notin Keepable
    BY DEF SyncsLeft
  <2>1. s = n \/ s \in Known  BY <1>9, <1>10 DEF n
  <2>2. CASE s = n
    <3>1. mod'[n] = IF job[t].op = "sync" THEN "SYNC" ELSE "ASYNC"  BY <1>1 DEF TypeOK
    <3>2. k.op = "sync"  BY <1>6, <2>2, <3>1
    <3>3. k.con \notin Keepable  BY <1>1, <1>5, <1>11, <3>2
    <3> QED  BY <1>10, <2>2, <3>3
  <2>3. CASE s # n /\ s \in Known
    <3>1. mod'[s] = mod[s] /\ con'[s] = con[s]  BY <1>1, <1>9, <1>10, <2>3 DEF TypeOK
    <3> QED  BY <1>1, <1>11, <2>3, <3>1 DEF TriedInv, SyncsLeft
  <2> QED  BY <2>1, <2>2, <2>3
<1> QED  BY <1>1, <1>2, <1>8, <1>11, TriedStep

LEMMA IndexTried ==
  ASSUME EngineInv, TriedInv, NEW t \in Thread, Index(t)
  PROVE  TriedInv'
<1>1. /\ pc[t] = "index"
      /\ \E b \in BOOLEAN : Jump(t, IF b THEN "index" ELSE IF job[t].op = "sync" THEN "try" ELSE "enqueue")
      /\ UNCHANGED <<con, mod, used_mode, calls, job>>
  BY DEF Index
<1>2. pc'[t] \in {"index", "try", "enqueue"} /\ (pc'[t] = "try" => job[t].op = "sync")
  BY <1>1 DEF Jump, EngineInv, TypeOK
<1>3. TriedOf(t)'  BY <1>1, <1>2 DEF TriedInv, TriedOf, Untried, Primed
<1>4. used_mode' = "NONE" => SyncsLeft'  BY <1>1 DEF TriedInv, SyncsLeft, Known
<1> QED  BY <1>1, <1>3, <1>4, IndexInv, FrameApart, TriedStep

\* Between two goals, and at the first step of a task.
LEMMA QueueTried ==
  ASSUME EngineInv, TriedInv, NEW t \in Thread, Enqueue(t) \/ TakeTask(t)
  PROVE  TriedInv'
<1>1. /\ \E g, run : job' = [job EXCEPT ![t] = NewJob(g, "async", run)]
      /\ Jump(t, "ready") \/ Jump(t, "check")
      /\ UNCHANGED <<con, mod, used_mode, calls>>
  BY DEF Enqueue, TakeTask, store, NoJob
<1>2. job'[t].op = "async" /\ pc'[t] \in {"ready", "check"}
  BY <1>1 DEF Jump, NewJob, EngineInv, TypeOK
<1>3. TriedOf(t)'  BY <1>1, <1>2 DEF TriedInv, TriedOf, Untried, Primed
<1>4. used_mode' = "NONE" => SyncsLeft'  BY <1>1 DEF TriedInv, SyncsLeft, Known
<1>5. Frame(t)  BY EnqueueInv, TakeTaskInv
<1> QED  BY <1>1, <1>3, <1>4, <1>5, FrameApart, TriedStep

\* The goal loops.
LEMMA LoopTried ==
  ASSUME EngineInv, TriedInv, NEW t \in Thread,
         CheckLive(t) \/ NoMode(t) \/ PopToken(t) \/ NoToken(t) \/ PushToken(t)
  PROVE  TriedInv'
<1> USE DEF EngineInv
<1>1. /\ UNCHANGED <<con, mod, used_mode, calls>>
      /\ pc[t] \notin {"allocate", "index", "enqueue"}
  BY DEF CheckLive, NoMode, PopToken, NoToken, PushToken, store
<1>2. Quiet(t)
  <2>1. Frame(t)  BY CheckLiveInv, NoModeInv, PopTokenInv, NoTokenInv, PushTokenInv
  <2> QED  BY <2>1 DEF Frame, Same, Quiet
<1>3. CASE \E fired, retry : Return(t, fired, retry)  BY <1>1, <1>2, <1>3, TriedLoop
<1>4. CASE CheckLive(t) \/ NoToken(t)
  <2>1. CASE Jump(t, "try") /\ job' = job
    <3>1. pc'[t] = "try"  BY <2>1 DEF Jump, TypeOK
    <3> QED  BY <1>1, <1>2, <2>1, <3>1, TriedLoop
  <2> QED  BY <1>3, <1>4, <2>1 DEF CheckLive, NoToken
<1>5. CASE PushToken(t)
  <2>1. cur[t].at \in DOMAIN list[t].used  BY <1>5 DEF PushToken, ThreadInv, Whole
  <2>2. job' = job /\ pc'[t] \in {"body", "consume"}
    BY <1>5, <2>1, AfterUseEffect DEF PushToken
  <2> QED  BY <1>1, <1>2, <2>2, TriedLoop
<1> QED  BY <1>3, <1>4, <1>5 DEF NoMode, PopToken

\* A rule that fires before the mode is set keeps nothing that sync added.
LEMMA RunBodyTried ==
  ASSUME EngineInv, TriedInv, ModeIsSet, NEW t \in Thread, RunBody(t), Tidy(list[t])
  PROVE  TriedInv'
<1> USE DEF EngineInv
<1>1. /\ pc[t] = "body" /\ calls' = [calls EXCEPT ![t] = Epilogue(list[t]) \o @]
      /\ Return(t, TRUE, FALSE) /\ UNCHANGED <<con, mod, used_mode>>
  BY DEF RunBody, store
<1>2. calls[t] \in Seq(Call) /\ calls'[t] = Epilogue(list[t]) \o calls[t]  BY <1>1 DEF TypeOK
<1>3. GoodList(list[t]) /\ Complete(list[t].rule, list[t].m)
  BY <1>1 DEF ThreadInv, Matching, Whole
<1>4. job'[t] = NoJob /\ pc'[t] = "ready"  BY <1>1 DEF Return, Jump, TypeOK
<1>5. ASSUME used_mode = "NONE" PROVE Primed(calls'[t])
  <2>1. SyncsLeft /\ Primed(calls[t])  BY <1>5 DEF TriedInv, TriedOf, Untried
  <2>2. Primed(Epilogue(list[t])) /\ Epilogue(list[t]) \in Seq(Call)
    BY <1>3, <2>1, EpiloguePrimed
  <2> QED  BY <1>2, <2>1, <2>2, PrimedParts
<1>6. TriedOf(t)'
  <2>1. used_mode' = "NONE" => Untried(t)'  BY <1>1, <1>4, <1>5 DEF Untried, Primed
  <2> QED  BY <1>4, <2>1 DEF TriedOf, NoJob, NewJob
<1>7. used_mode' = "NONE" => SyncsLeft'  BY <1>1 DEF TriedInv, SyncsLeft, Known
<1> QED  BY <1>1, <1>6, <1>7, RunBodyInv, FrameApart, TriedStep

LEMMA CommonTried ==
  ASSUME EngineInv, TriedInv, ModeIsSet, NEW t \in Thread, Common(t), pc[t] = "body" => Tidy(list[t])
  PROVE  TriedInv'
<1>1. CASE RunBody(t)  BY <1>1, RunBodyTried DEF RunBody
<1> QED  BY <1>1, MakeCallTried, AllocateTried, IndexTried, QueueTried, LoopTried DEF Common

LEMMA ConsumeTried ==
  ASSUME EngineInv, TriedInv, NEW t \in Thread, NEW silent, ConsumeUse(t, silent)
  PROVE  TriedInv'
<1> USE DEF EngineInv
<1>1. pc[t] = "consume" /\ UNCHANGED <<con, mod, used_mode, calls>>  BY DEF ConsumeUse
<1>2. Quiet(t)  BY ConsumeUseInv DEF Frame, Same, Quiet
<1>3. job' = job /\ pc'[t] \in {"body", "consume", "token"}
  <2>1. CASE AfterUse(t)
    <3>1. cur[t].at \in DOMAIN list[t].used  BY <1>1 DEF ThreadInv, Whole
    <3> QED  BY <2>1, <3>1, AfterUseEffect
  <2>2. CASE Search(t, "token", list[t], cur[t])  BY <2>2, SearchQuiet
  <2> QED  BY <2>1, <2>2 DEF ConsumeUse
<1> QED  BY <1>1, <1>2, <1>3, TriedLoop

LEMMA TriedWaits == ASSUME TriedInv PROVE OnlyTriedGoalsWait
BY DEF TriedInv, TriedOf, OnlyTriedGoalsWait

(***************************************************************************)
(* The search of any strategy: the checklist a rule starts with, the entry *)
(* that is looked at, and the places to go back to.  These are of partners *)
(* in the match, each there once; only a rule whose heads have a name each *)
(* and are all consumed has any, and a search of another rule has a        *)
(* constraint in its match.                                                *)
(***************************************************************************)
InMatch(l, s) == \E h \in Heads(l.rule) : l.m[h] = s

Stacked(l, q) ==
  /\ Apart(l.rule) \/ (q = << >> /\ Matched(l.rule, l.m) # {})
  /\ \A i \in DOMAIN q : /\ InMatch(l, q[i].s)
                         /\ \A j \in DOMAIN q : q[i].s = q[j].s => i = j

\* The entry that is looked at exists.
Facing(t) == cur[t].at <= cur[t].stop /\ cur[t].stop <= Len(Bucket(cur[t].bkt))

LEMMA HereKnown ==
  ASSUME TypeOK, NEW t \in Thread, Facing(t)
  PROVE  /\ cur[t] \in Cursor /\ cur[t].at \in 1..Len(Bucket(cur[t].bkt))
         /\ Here(t) \in Known
<1>1. cur[t] \in Cursor  BY DEF TypeOK
<1>2. cur[t].at \in 1..Len(Bucket(cur[t].bkt))
  BY <1>1, BucketTyped DEF Facing, Cursor
<1> QED  BY <1>1, <1>2, BucketTyped DEF Here

\* The step of another thread does not disturb a search.
LEMMA HereStays ==
  ASSUME TypeOK, TypeOK', NEW u \in Thread, Facing(u), Same(u), Longer
  PROVE  Here(u)' = Here(u) /\ Facing(u)'
<1> DEFINE k == cur[u].bkt
           i == cur[u].at
<1>1. i \in 1..Len(Bucket(k)) /\ cur[u] \in Cursor  BY HereKnown
<1>2. cur'[u] = cur[u]  BY DEF Same
<1>3. k \in Buckets
  <2>1. k \notin Buckets => Len(Bucket(k)) = 0  BY EmptySeq DEF Bucket
  <2> QED  BY <1>1, <2>1
<1>4. bucket'[k][i] = bucket[k][i] /\ Len(bucket[k]) <= Len(bucket'[k])
  BY <1>1, <1>3 DEF Longer, Bucket
<1>5. Len(bucket[k]) \in Nat /\ Len(bucket'[k]) \in Nat /\ cur[u].stop \in Nat
  BY <1>1, <1>3, LenProperties DEF TypeOK, Cursor
<1>6. cur[u].stop <= Len(bucket'[k])  BY <1>3, <1>4, <1>5 DEF Facing, Bucket
<1> QED  BY <1>2, <1>3, <1>4, <1>6 DEF Here, Bucket, Facing

\* What is known of a place of the search stays known.
LEMMA SearchStable ==
  ASSUME NEW l, GoodList(l), Tidy(l), Grown
  PROVE  /\ Tidy(l)'
         /\ \A q : Stacked(l, q) => Stacked(l, q)'
         /\ \A s \in Known : Convenient(l.rule, l.m, s) => Convenient(l.rule, l.m, s)'
<1>1. \A q : Stacked(l, q) => Stacked(l, q)'
  BY DEF Stacked, InMatch, Heads, Apart, DistinctNames, HeadName, Matched
<1> QED  BY <1>1, TidyStable, ConvenientStable DEF GoodList

\* A rule that accepts the goal starts with a checklist for it, which has nothing
\* else.
LEMMA RuleStarts ==
  ASSUME TypeOK, NEW t \in Thread, Goal(t) # None, RulesAfter(t) # {},
         NEW r, r = Least(RulesAfter(t)), NEW l, l = Add(NewChecklist(r), Goal(t))
  PROVE  /\ r \in RuleId /\ Accepts(r, Goal(t)) /\ Goal(t) \in Known
         /\ GoodList(l) /\ l.rule = r /\ l.used # << >>
         /\ l.used = <<Goal(t)>> /\ Led(l, Goal(t))
<1>1. r \in RuleId /\ Accepts(r, Goal(t))
  <2>1. RulesAfter(t) \in SUBSET Nat  BY HeadNumbers DEF RulesAfter
  <2>2. r \in RulesAfter(t)  BY <2>1, LeastIn
  <2> QED  BY <2>2 DEF RulesAfter
<1>2. /\ GoodList(NewChecklist(r)) /\ NewChecklist(r).rule = r
      /\ FreeHeads(r, NewChecklist(r).m, Goal(t)) # {}
  BY <1>1, NewChecklistGood
<1>3. Goal(t) \in Known /\ Known \subseteq Nat
  BY Stati DEF TypeOK, Job, Maybe, Goal
<1>4. GoodList(l) /\ l.rule = r /\ l.used = Append(NewChecklist(r).used, Goal(t))
  BY <1>2, <1>3, AddGood
<1>5. l.used = <<Goal(t)>>
  <2>1. NewChecklist(r).used = << >>  BY DEF NewChecklist
  <2> QED  BY <1>4, <2>1
<1>6. l.used # << >> /\ Led(l, Goal(t))  BY <1>5 DEF Led
<1> QED  BY <1>1, <1>3, <1>4, <1>5, <1>6

LEMMA StartsTidy ==
  ASSUME Orderly, TypeOK, NEW t \in Thread, Goal(t) # None, RulesAfter(t) # {},
         NEW r, r = Least(RulesAfter(t)), NEW l, l = Add(NewChecklist(r), Goal(t))
  PROVE  Tidy(l) /\ Stacked(l, << >>)
<1> DEFINE n == NewChecklist(r)
<1>1. r \in RuleId /\ Accepts(r, Goal(t)) /\ Goal(t) \in Known /\ GoodList(l) /\ l.rule = r
  BY RuleStarts
<1>2. /\ GoodList(n) /\ n.rule = r /\ Tidy(n)
      /\ FreeHeads(r, n.m, Goal(t)) # {} /\ Convenient(r, n.m, Goal(t))
  BY <1>1, NewChecklistGood, NewTidy
<1>3. Known \subseteq Status  BY Stati
<1>4. DistinctNames(r) \/ ~Rules[r].simpagation  BY <1>1 DEF Orderly, OrderlyRule
<1> HIDE DEF n
<1>5. Tidy(l) /\ \E h \in Heads(r) : l.m[h] = Goal(t)
  BY <1>1, <1>2, <1>3, <1>4, AddTidy DEF n
<1>6. Matched(l.rule, l.m) # {}  BY <1>1, <1>5 DEF Matched
<1> QED  BY <1>5, <1>6 DEF Stacked

\* The cursor of a bucket that is opened, and of one that is read on.
LEMMA OpenedTyped ==
  ASSUME TypeOK, NEW t \in Thread, NEW k, NEW c, c = Opened(t, k)
  PROVE  c \in Cursor /\ c.stop <= Len(Bucket(c.bkt)) /\ c.stack = cur[t].stack
<1> DEFINE n == Len(Bucket(k))
<1>1. cur[t] \in Cursor  BY DEF TypeOK
<1>2. n \in Nat /\ Len(Bucket(NoKey)) \in Nat  BY BucketTyped
<1>3. k \notin Buckets => n = 0  BY EmptySeq DEF Bucket
<1>4. cur[t].stop \in Nat  BY <1>1 DEF Cursor
<1>5. c = [cur[t] EXCEPT !.bkt = IF k \in Buckets THEN k ELSE NoKey,
                        !.stop = IF @ < n THEN @ ELSE n]
  BY DEF Opened
<1>6. c \in Cursor /\ c.bkt = (IF k \in Buckets THEN k ELSE NoKey)
      /\ c.stop = (IF cur[t].stop < n THEN cur[t].stop ELSE n)
      /\ c.stack = cur[t].stack
  BY <1>1, <1>2, <1>5 DEF Cursor
<1> QED  BY <1>2, <1>3, <1>4, <1>6

LEMMA PassedTyped ==
  ASSUME TypeOK, NEW t \in Thread, Facing(t), NEW c, c = [cur[t] EXCEPT !.at = @ + 1]
  PROVE  c \in Cursor /\ c.stop <= Len(Bucket(c.bkt)) /\ c.stack = cur[t].stack
<1>1. cur[t] \in Cursor /\ cur[t].stop <= Len(Bucket(cur[t].bkt))  BY DEF TypeOK, Facing
<1>2. c \in Cursor /\ c.stop = cur[t].stop /\ c.bkt = cur[t].bkt /\ c.stack = cur[t].stack
  BY <1>1 DEF Cursor
<1> QED  BY <1>1, <1>2

\* The next entry worth loading.
LEMMA CandidateNext ==
  ASSUME TypeOK, NEW t \in Thread, NEW c \in Cursor, c.stop <= Len(Bucket(c.bkt)),
         Candidates(t, c) # {}, NEW d, d = [c EXCEPT !.at = Least(Candidates(t, c))]
  PROVE  /\ d \in Cursor /\ d.stack = c.stack
         /\ d.at <= d.stop /\ d.stop <= Len(Bucket(d.bkt))
         /\ Bucket(d.bkt)[d.at] \in Known
         /\ Convenient(list[t].rule, list[t].m, Bucket(d.bkt)[d.at])
<1> DEFINE i == Least(Candidates(t, c))
<1>1. c.at \in Nat \ {0} /\ c.stop \in Nat  BY DEF Cursor
<1>2. Candidates(t, c) \in SUBSET Nat  BY <1>1 DEF Candidates
<1>3. i \in Candidates(t, c)  BY <1>2, LeastIn
<1>4. d = [c EXCEPT !.at = i]  OBVIOUS
<1> HIDE DEF i
<1>5. /\ i \in c.at..c.stop
      /\ Convenient(list[t].rule, list[t].m, Bucket(c.bkt)[i])
  BY <1>3 DEF Candidates
<1>6. d \in Cursor /\ d.at = i /\ d.stop = c.stop /\ d.bkt = c.bkt /\ d.stack = c.stack
  BY <1>1, <1>4, <1>5 DEF Cursor
<1>7. Bucket(c.bkt)[i] \in Known
  <2>1. i \in 1..Len(Bucket(c.bkt))  BY <1>1, <1>5, BucketTyped
  <2> QED  BY <2>1, BucketTyped
<1> QED  BY <1>1, <1>5, <1>6, <1>7

\* The entry before it on the stack.
LEMMA GoBackTyped ==
  ASSUME TypeOK, NEW c \in Cursor, c.stack # << >>, NEW d, d = GoBack(c), NEW s, s = Top(c).s
  PROVE  /\ d \in Cursor /\ s \in Known
         /\ c.stack \in Seq(Place) /\ Len(c.stack) \in Nat \ {0}
         /\ DOMAIN c.stack = 1..Len(c.stack) /\ s = c.stack[Len(c.stack)].s
         /\ DOMAIN d.stack = 1..(Len(c.stack) - 1)
         /\ \A i \in DOMAIN d.stack : d.stack[i] = c.stack[i]
<1> DEFINE q == c.stack
           n == Len(q)
           p == SubSeq(q, 1, n - 1)
<1>1. q \in Seq(Place) /\ n \in Nat \ {0} /\ DOMAIN q = 1..n /\ n \in DOMAIN q
  BY EmptySeq, LenProperties DEF Cursor
<1>2. s \in Known /\ s = q[n].s  BY <1>1, PlaceKnown DEF Top
<1>3. Top(c) \in Place  BY <1>1, ElementOfSeq DEF Top
<1>4. d.stack = p  BY DEF GoBack
<1>5. d = [stack |-> p, bkt |-> NoKey, at |-> Top(c).i, stop |-> Top(c).n, filter |-> Top(c).s]
  BY DEF GoBack
<1> HIDE DEF n
<1>6. /\ p \in Seq(Place) /\ DOMAIN p = 1..(n - 1)
      /\ \A i \in 1..(n - 1) : p[i] = q[i]
  <2>1. \A i \in 1..(n - 1) : q[i] \in Place  BY <1>1, ElementOfSeq DEF n
  <2>2. 1 \in Int /\ n - 1 \in Int /\ n \in Nat \ {0}  BY <1>1
  <2>3. /\ p \in Seq(Place)
        /\ Len(p) = (IF 1 <= n - 1 THEN (n - 1) - 1 + 1 ELSE 0)
        /\ \A i \in 1..((n - 1) - 1 + 1) : p[i] = q[1 + i - 1]
    BY <2>1, <2>2, SubSeqProperties
  <2> HIDE DEF p
  <2>4. Len(p) = n - 1  BY <2>2, <2>3
  <2>5. DOMAIN p = 1..(n - 1)  BY <2>3, <2>4, LenProperties
  <2>6. (n - 1) - 1 + 1 = n - 1  BY <2>2
  <2>7. \A i \in 1..(n - 1) : 1 + i - 1 = i  BY <2>2
  <2> QED  BY <2>3, <2>5, <2>6, <2>7
<1> HIDE DEF p
<1>7. d \in Cursor  BY <1>3, <1>5, <1>6 DEF Cursor, Place, Maybe
<1> QED  BY <1>1, <1>2, <1>4, <1>6, <1>7 DEF n

\* Going back takes the last partner out of the match.
LEMMA GoBackStacked ==
  ASSUME TypeOK, NEW c \in Cursor, c.stack # << >>, NEW l, GoodList(l), Tidy(l), Stacked(l, c.stack)
  PROVE  LET s == Top(c).s
             n == Remove(l, s)
         IN  /\ GoodList(n) /\ n.rule = l.rule /\ Tidy(n) /\ Stacked(n, GoBack(c).stack)
             /\ Apart(l.rule) /\ InMatch(l, s)
<1> DEFINE q == c.stack
           k == Len(q)
           s == Top(c).s
           n == Remove(l, s)
           d == GoBack(c)
<1>1. /\ s \in Known /\ k \in Nat \ {0} /\ DOMAIN q = 1..k /\ s = q[k].s
      /\ DOMAIN d.stack = 1..(k - 1) /\ \A i \in 1..(k - 1) : d.stack[i] = q[i]
  BY GoBackTyped
<1>2. InMatch(l, s) /\ Apart(l.rule)  BY <1>1 DEF Stacked
<1>3. Known \subseteq Status /\ Known \subseteq Nat  BY Stati
<1> HIDE DEF s, d, k
<1>4. GoodList(n) /\ n.rule = l.rule  BY <1>3, RemoveGood
<1>5. Tidy(n) /\ \A g \in Heads(l.rule) : l.m[g] # s => n.m[g] = l.m[g]
  BY <1>1, <1>2, <1>3, RemoveTidy DEF InMatch, Apart
<1> HIDE DEF n
<1>6. \A u : u # s /\ InMatch(l, u) => InMatch(n, u)  BY <1>4, <1>5 DEF InMatch
<1>7. \A i \in 1..(k - 1) : i \in DOMAIN q /\ k \in DOMAIN q /\ i # k  BY <1>1
<1>8. \A i \in 1..(k - 1) : q[i].s # s  BY <1>1, <1>7 DEF Stacked
<1>9. ASSUME NEW i \in 1..(k - 1)
      PROVE  /\ InMatch(n, q[i].s)
             /\ \A j \in 1..(k - 1) : q[i].s = q[j].s => i = j
  BY <1>6, <1>7, <1>8 DEF Stacked
<1>10. Stacked(n, d.stack)  BY <1>1, <1>2, <1>4, <1>9 DEF Stacked
<1> QED  BY <1>2, <1>4, <1>5, <1>10 DEF s, n, d

\* The place of the entry, to go back to.
LEMMA FoundTyped ==
  ASSUME TypeOK, NEW t \in Thread, Facing(t)
  PROVE  /\ Found(t) \in Cursor
         /\ \E o \in Place : o.s = Here(t) /\ Found(t).stack = Append(cur[t].stack, o)
<1> DEFINE o == [i |-> cur[t].at, n |-> Len(Bucket(cur[t].bkt)), s |-> Here(t)]
<1>1. cur[t] \in Cursor /\ Here(t) \in Known  BY HereKnown
<1>2. o \in Place /\ o.s = Here(t)  BY <1>1, BucketTyped DEF Place, Cursor
<1>3. cur[t].stack \in Seq(Place)  BY <1>1 DEF Cursor
<1> HIDE DEF o
<1>4. Append(cur[t].stack, o) \in Seq(Place)  BY <1>2, <1>3, AppendProperties
<1>5. Found(t) = [Rewound EXCEPT !.stack = Append(cur[t].stack, o)]  BY DEF Found, o
<1>6. Found(t) \in Cursor  BY <1>4, <1>5, RewoundTyped DEF Cursor
<1>7. Found(t).stack = Append(cur[t].stack, o)  BY <1>5 DEF Rewound
<1> QED  BY <1>2, <1>6, <1>7

\* Adding a convenient entry.  One that does not complete the match was not in it,
\* and is of a rule whose heads are apart: there are more than two of them, or it
\* has none to spare.
LEMMA AddStacked ==
  ASSUME Orderly, TypeOK, NEW l, GoodList(l), Tidy(l), NEW q \in Seq(Place), Stacked(l, q),
         NEW s \in Known, Convenient(l.rule, l.m, s), NEW n, n = Add(l, s)
  PROVE  /\ GoodList(n) /\ n.rule = l.rule /\ n.used = Append(l.used, s) /\ Tidy(n)
         /\ \A g : Led(l, g) => Led(n, g)
         /\ ~Complete(n.rule, n.m) =>
              /\ Apart(l.rule) /\ ~InMatch(l, s)
              /\ \A o \in Place : o.s = s => Stacked(n, Append(q, o))
<1> DEFINE m == l.m
           r == l.rule
<1>1. /\ Known \subseteq Status /\ Known \subseteq Nat /\ s # None /\ r \in RuleId
      /\ FreeHeads(r, m, s) # {}
  BY Stati DEF GoodList, Convenient
<1>2. GoodList(n) /\ n.rule = r /\ n.used = Append(l.used, s)  BY <1>1, AddGood
<1>3. DistinctNames(r) \/ ~Rules[r].simpagation  BY <1>1 DEF Orderly, OrderlyRule
<1>4. /\ Tidy(n) /\ \A h \in Heads(r) : m[h] # None => n.m[h] = m[h]
      /\ \E h \in Heads(r) : m[h] = None /\ n.m[h] = s
  BY <1>1, <1>3, AddTidy
<1>5. PICK h \in Heads(r) : m[h] = None /\ n.m[h] = s  BY <1>4
<1>6. ASSUME NEW g, Led(l, g) PROVE Led(n, g)
  <2>1. l.used \in Seq(Known) /\ l.used # << >>  BY <1>6 DEF GoodList, List, Led
  <2>2. Len(l.used) \in Nat /\ Len(l.used) # 0  BY <2>1, EmptySeq, LenProperties
  <2>3. 1 \in 1..Len(l.used)  BY <2>2
  <2> QED  BY <1>2, <1>6, <2>1, <2>3, AppendProperties DEF Led
<1>7. ASSUME ~Complete(n.rule, n.m)
      PROVE  /\ Apart(r) /\ ~InMatch(l, s)
             /\ \A o \in Place : o.s = s => Stacked(n, Append(q, o))
  <2>1. Apart(r)
    <3> SUFFICES ASSUME ~Apart(r) PROVE FALSE  OBVIOUS
    <3>1. PICK g \in Heads(r) : m[g] # None  BY DEF Stacked, Matched
    <3>2. PICK k \in Heads(r) : n.m[k] = None  BY <1>2, <1>7 DEF Complete, Matched
    <3>3. Heads(r) = 1..Len(Rules[r].heads) /\ Len(Rules[r].heads) \in Nat
      BY <1>1, HeadNumbers
    <3>4. g # h /\ g # k /\ h # k  BY <1>1, <1>4, <1>5, <3>1, <3>2
    <3>5. ~(Len(Rules[r].heads) <= 2)  BY <3>3, <3>4
    <3> QED  BY <1>1, <3>5 DEF Orderly, OrderlyRule, Apart
  <2>2. ASSUME NEW k \in Heads(r), m[k] = s PROVE FALSE
    <3>1. con[s].name = HeadName(r, k)  BY <1>1, <2>2 DEF GoodList, Named
    <3>2. con[s].name = HeadName(r, h)  BY <1>1, <1>2, <1>5 DEF GoodList, Named
    <3>3. k = h  BY <2>1, <3>1, <3>2 DEF Apart, DistinctNames
    <3> QED  BY <1>1, <1>5, <2>2, <3>3
  <2>3. ~InMatch(l, s)  BY <2>2 DEF InMatch
  <2>4. ASSUME NEW o \in Place, o.s = s PROVE Stacked(n, Append(q, o))
    <3>1. /\ DOMAIN q = 1..Len(q) /\ Len(q) \in Nat
          /\ DOMAIN Append(q, o) = 1..(Len(q) + 1)
          /\ \A i \in 1..Len(q) : Append(q, o)[i] = q[i]
          /\ Append(q, o)[Len(q) + 1] = o
      BY LenProperties, AppendProperties
    <3>2. \A i \in 1..Len(q) : q[i].s # None  BY <3>1, PlaceKnown, Stati
    <3>3. \A i \in 1..Len(q) : InMatch(l, q[i].s)
                               /\ \A j \in 1..Len(q) : q[i].s = q[j].s => i = j
      BY <3>1 DEF Stacked
    <3>4. \A u : u # None /\ InMatch(l, u) => InMatch(n, u)  BY <1>2, <1>4 DEF InMatch
    <3>5. InMatch(n, s)  BY <1>2, <1>5 DEF InMatch
    <3>6. \A j \in 1..(Len(q) + 1) : j \in 1..Len(q) \/ j = Len(q) + 1  BY <3>1
    <3>7. \A j \in 1..Len(q) : q[j].s # s  BY <2>3, <3>3
    <3>8. ASSUME NEW i \in 1..(Len(q) + 1)
          PROVE  /\ InMatch(n, Append(q, o)[i].s)
                 /\ \A j \in 1..(Len(q) + 1) : Append(q, o)[i].s = Append(q, o)[j].s => i = j
      <4>1. CASE i = Len(q) + 1  BY <2>4, <3>1, <3>5, <3>6, <3>7, <4>1
      <4>2. CASE i \in 1..Len(q)  BY <2>4, <3>1, <3>2, <3>3, <3>4, <3>6, <3>7, <4>2
      <4> QED  BY <3>6, <4>1, <4>2
    <3> QED  BY <1>2, <2>1, <3>1, <3>8 DEF Stacked
  <2> QED  BY <2>1, <2>3, <2>4
<1> QED  BY <1>2, <1>4, <1>6, <1>7

\* Rule.h:50, "only those are consumed", and README.md:16, "the found constraints are
\* locked": a rule with a tidy checklist adds again what its kept heads matched, and
\* has claimed what all of its heads matched, and nothing else.
LEMMA TidyBodies ==
  ASSUME TypeOK, \A t \in Thread : pc[t] = "body" => Tidy(list[t])
  PROVE  KeptHeadsReturn /\ ClaimsAreMatched
<1>1. ASSUME NEW t \in Thread, pc[t] = "body", NEW s \in DOMAIN con
      PROVE  /\ Cardinality({i \in DOMAIN list[t].keep : list[t].keep[i] = s}) =
                Cardinality({h \in 1..Rules[list[t].rule].keep : list[t].m[h] = s})
             /\ Cardinality({i \in DOMAIN list[t].used : list[t].used[i] = s}) =
                Cardinality({h \in Heads(list[t].rule) : list[t].m[h] = s})
  <2>1. Tidy(list[t]) /\ s \in Status  BY <1>1, Stati DEF Known
  <2>2. /\ Pick(list[t].keep, {s}) = {i \in DOMAIN list[t].keep : list[t].keep[i] = s}
        /\ Pick(list[t].used, {s}) = {i \in DOMAIN list[t].used : list[t].used[i] = s}
    BY DEF Pick
  <2>3. /\ Fiber(KeptHeads(list[t].rule), list[t].m, s) =
           {h \in 1..Rules[list[t].rule].keep : list[t].m[h] = s}
        /\ Fiber(Heads(list[t].rule), list[t].m, s) = {h \in Heads(list[t].rule) : list[t].m[h] = s}
    BY DEF Fiber, KeptHeads
  <2>4. /\ Number(list[t].keep, {s}) = Cardinality(Fiber(KeptHeads(list[t].rule), list[t].m, s))
        /\ Number(list[t].used, {s}) = Cardinality(Fiber(Heads(list[t].rule), list[t].m, s))
    BY <2>1 DEF Tidy
  <2> QED  BY <2>2, <2>3, <2>4 DEF Number
<1> QED  BY <1>1 DEF KeptHeadsReturn, ClaimsAreMatched

LEMMA LedMatched ==
  ASSUME TypeOK, NEW l, GoodList(l), Tidy(l), NEW g, Led(l, g)
  PROVE  g \in Known /\ InMatch(l, g)
<1>1. l.used \in Seq(Known)  BY DEF GoodList, List
<1>2. DOMAIN l.used = 1..Len(l.used) /\ Len(l.used) \in Nat /\ Len(l.used) # 0
  BY <1>1, LenProperties, EmptySeq DEF Led
<1>3. 1 \in DOMAIN l.used /\ g \in Known  BY <1>1, <1>2, ElementOfSeq DEF Led
<1>4. 1 \in Pick(l.used, {g})  BY <1>3 DEF Pick, Led
<1>5. IsFiniteSet(Pick(l.used, {g}))  BY <1>1, PickFinite
<1>6. Number(l.used, {g}) # 0  BY <1>4, <1>5, FS_EmptySet DEF Number
<1>7. Cardinality(Fiber(Heads(l.rule), l.m, g)) # 0  BY <1>3, <1>6, Stati DEF Tidy
<1>8. Fiber(Heads(l.rule), l.m, g) # {}  BY <1>7, FS_EmptySet
<1> QED  BY <1>3, <1>8 DEF Fiber, InMatch

LEMMA DropLater ==
  ASSUME NEW S, NEW q \in Seq(S), NEW i \in DOMAIN q, i # 1
  PROVE  DropAt(q, i) # << >> /\ DropAt(q, i)[1] = q[1]
<1>1. Len(q) \in Nat /\ i \in 1..Len(q) /\ i - 1 \in Nat \ {0}  BY LenProperties
<1>2. \A j \in 1..(i - 1) : q[j] \in S  BY <1>1, ElementOfSeq
<1>3. \A j \in (i + 1)..Len(q) : q[j] \in S  BY <1>1, ElementOfSeq
<1> DEFINE a == SubSeq(q, 1, i - 1)
           b == SubSeq(q, i + 1, Len(q))
<1>4. a \in Seq(S) /\ Len(a) = i - 1 /\ a[1] = q[1]
  <2>1. 1 \in Int /\ i - 1 \in Int /\ 1 <= i - 1  BY <1>1
  <2>2. /\ a \in Seq(S) /\ Len(a) = (IF 1 <= i - 1 THEN (i - 1) - 1 + 1 ELSE 0)
        /\ \A j \in 1..((i - 1) - 1 + 1) : a[j] = q[1 + j - 1]
    BY <1>2, <2>1, SubSeqProperties
  <2>3. (i - 1) - 1 + 1 = i - 1 /\ 1 \in 1..(i - 1) /\ 1 + 1 - 1 = 1  BY <1>1
  <2>4. Len(a) = i - 1  BY <2>1, <2>2, <2>3
  <2>5. a[1] = q[1 + 1 - 1]  BY <2>2, <2>3
  <2> HIDE DEF a
  <2> QED  BY <2>2, <2>3, <2>4, <2>5
<1>5. b \in Seq(S)  BY <1>1, <1>3, SubSeqProperties
<1> HIDE DEF a, b
<1>6. /\ a \o b \in Seq(S) /\ Len(a \o b) = Len(a) + Len(b)
      /\ \A j \in 1..(Len(a) + Len(b)) : (a \o b)[j] = IF j <= Len(a) THEN a[j] ELSE b[j - Len(a)]
  BY <1>4, <1>5, ConcatProperties
<1>7. Len(b) \in Nat  BY <1>5, LenProperties
<1>8. 1 \in 1..(Len(a) + Len(b)) /\ 1 <= Len(a) /\ Len(a \o b) # 0  BY <1>1, <1>4, <1>6, <1>7
<1>9. (a \o b)[1] = q[1]  BY <1>4, <1>6, <1>8
<1>10. a \o b # << >>  BY <1>6, <1>8, EmptySeq
<1> QED  BY <1>9, <1>10 DEF DropAt, a, b

\* Taking back another constraint of the match leaves the goal the first use.
LEMMA RemoveLed ==
  ASSUME TypeOK, NEW l, GoodList(l), Tidy(l), NEW g, Led(l, g), Apart(l.rule),
         NEW s \in Known, s # g, InMatch(l, s)
  PROVE  Led(Remove(l, s), g)
<1> DEFINE rest == Without(l.rule, l.m, s)
           twin == {i \in DOMAIN l.used : con[l.used[i]] = con[s]}
           u == IF Consistent(l.rule, ById(l.rule, rest)) /\ twin # {}
                THEN DropAt(l.used, Least(twin)) ELSE l.used
<1>1. l.used \in Seq(Known) /\ Remove(l, s).used = u
  BY DEF GoodList, List, Remove
<1>2. g \in Known /\ InMatch(l, g)  BY LedMatched
<1>3. 1 \notin twin
  <2> SUFFICES ASSUME con[g] = con[s] PROVE FALSE  BY DEF Led
  <2>1. PICK h \in Heads(l.rule) : l.m[h] = g  BY <1>2 DEF InMatch
  <2>2. PICK k \in Heads(l.rule) : l.m[k] = s  BY DEF InMatch
  <2>3. con[g].name = HeadName(l.rule, h) /\ con[s].name = HeadName(l.rule, k)
    BY <1>2, <2>1, <2>2, Stati DEF GoodList, Named
  <2>4. h = k  BY <2>3 DEF Apart, DistinctNames
  <2> QED  BY <2>1, <2>2, <2>4
<1>4. twin # {} => Least(twin) \in DOMAIN l.used /\ Least(twin) # 1
  <2>1. DOMAIN l.used \subseteq Nat  BY <1>1, LenProperties
  <2>2. twin # {} => Least(twin) \in twin  BY <2>1, LeastIn
  <2> QED  BY <1>3, <2>2
<1>5. twin # {} => DropAt(l.used, Least(twin)) # << >> /\ DropAt(l.used, Least(twin))[1] = l.used[1]
  <2> HIDE DEF twin
  <2> QED  BY <1>1, <1>4, DropLater
<1> HIDE DEF twin, rest
<1>6. u # << >> /\ u[1] = g  BY <1>5 DEF Led
<1> QED  BY <1>1, <1>6 DEF Led

\* The places to go back to are of partners, not of the goal.
Partners(q, g) == \A i \in DOMAIN q : q[i].s # g

LEMMA AddPartners ==
  ASSUME Orderly, TypeOK, NEW l, GoodList(l), Tidy(l), NEW q \in Seq(Place), Stacked(l, q),
         NEW o \in Place, Convenient(l.rule, l.m, o.s), NEW n, n = Add(l, o.s), ~Complete(n.rule, n.m),
         NEW g, Led(l, g), Partners(q, g)
  PROVE  Partners(Append(q, o), g)
<1>1. ~InMatch(l, o.s)
  <2>1. o.s \in Known  BY DEF Place
  <2> QED  BY <2>1, AddStacked
<1>2. o.s # g  BY <1>1, LedMatched
<1>3. /\ DOMAIN q = 1..Len(q) /\ Len(q) \in Nat
      /\ DOMAIN Append(q, o) = 1..(Len(q) + 1)
      /\ \A i \in 1..Len(q) : Append(q, o)[i] = q[i]
      /\ Append(q, o)[Len(q) + 1] = o
  BY LenProperties, AppendProperties
<1>4. \A i \in 1..(Len(q) + 1) : i \in 1..Len(q) \/ i = Len(q) + 1  BY <1>3
<1> QED  BY <1>2, <1>3, <1>4 DEF Partners

LEMMA GoBackPartners ==
  ASSUME TypeOK, NEW c \in Cursor, c.stack # << >>, NEW l, GoodList(l), Tidy(l), Stacked(l, c.stack),
         NEW g, Led(l, g), Partners(c.stack, g)
  PROVE  Led(Remove(l, Top(c).s), g) /\ Partners(GoBack(c).stack, g)
<1> DEFINE s == Top(c).s
           d == GoBack(c)
           k == Len(c.stack)
<1>1. /\ s \in Known /\ k \in Nat \ {0} /\ DOMAIN c.stack = 1..k /\ s = c.stack[k].s
      /\ DOMAIN d.stack = 1..(k - 1) /\ \A i \in 1..(k - 1) : d.stack[i] = c.stack[i]
  BY GoBackTyped
<1>2. InMatch(l, s) /\ Apart(l.rule)  BY GoBackStacked
<1> HIDE DEF s, d, k
<1>3. s # g /\ \A i \in 1..(k - 1) : c.stack[i].s # g  BY <1>1 DEF Partners
<1>4. Led(Remove(l, s), g)  BY <1>1, <1>2, <1>3, RemoveLed
<1>5. Partners(d.stack, g)  BY <1>1, <1>3 DEF Partners
<1> QED  BY <1>4, <1>5 DEF s, d

(***************************************************************************)
(* The searches of the two optimistic strategies: what the steps and the   *)
(* claims of OptimisticSearch keep.                                        *)
(***************************************************************************)
\* A search holds no claim, and the entry it looks at exists and has a free head;
\* while it commits, the uses before its position are claimed.
SearchInv(t) ==
  /\ pc[t] \in {"open", "pending", "claims"} => held[t] = {}
  /\ pc[t] \in {"pending", "claims"} =>
       Facing(t) /\ FreeHeads(list[t].rule, list[t].m, Here(t)) # {}
  /\ pc[t] = "commit" => held[t] = 1..(cur[t].at - 1)
  /\ pc[t] = "rollback" => /\ held[t] # {} /\ held[t] \subseteq DOMAIN list[t].used
                           /\ cur[t].at \in DOMAIN list[t].used

IInv == EngineInv /\ \A t \in Thread : SearchInv(t)

\* The step of another thread does not disturb a search.
LEMMA OtherSearches ==
  ASSUME TypeOK, TypeOK', NEW u \in Thread, SearchInv(u), Same(u), Grown, Longer
  PROVE  SearchInv(u)'
<1>1. ASSUME pc[u] \in {"pending", "claims"}
      PROVE  (Facing(u) /\ FreeHeads(list[u].rule, list[u].m, Here(u)) # {})'
  <2>1. Facing(u) /\ Here(u) \in Known  BY <1>1, HereKnown DEF SearchInv
  <2>2. list'[u] = list[u]  BY DEF Same
  <2>3. Here(u)' = Here(u) /\ Facing(u)'  BY <2>1, HereStays
  <2>4. con'[Here(u)] = con[Here(u)]  BY <2>1 DEF Grown
  <2>5. FreeHeads(list[u].rule, list[u].m, Here(u))' = FreeHeads(list[u].rule, list[u].m, Here(u))
    BY <2>2, <2>3, <2>4 DEF FreeHeads, Matched
  <2> QED  BY <1>1, <2>3, <2>5 DEF SearchInv
<1> QED  BY <1>1 DEF SearchInv, Same

(***************************************************************************)
(* Steps of a search.                                                      *)
(***************************************************************************)
\* A step to another place of the search, without a claim.
LEMMA SearchStep ==
  ASSUME IInv, NEW t \in Thread, NEW p \in {"open", "pending", "claims", "commit", "again", "againclaims"},
         NEW l, GoodList(l), NEW c \in Cursor, Search(t, p, l, c),
         UNCHANGED <<store, tasks, used_mode, calls, keys, held>>,
         held[t] = {}, Goal(t) # None,
         p \in {"pending", "claims"} =>
           /\ c.stop <= Len(Bucket(c.bkt)) /\ c.at <= c.stop
           /\ FreeHeads(l.rule, l.m, Bucket(c.bkt)[c.at]) # {},
         p = "commit" => Complete(l.rule, l.m) /\ c = Rewound /\ l.used # << >>
  PROVE  IInv'
<1> USE DEF IInv, EngineInv
<1>1. /\ con' = con /\ bucket' = bucket /\ claimed' = claimed /\ held' = held /\ job' = job
      /\ UNCHANGED <<con, mod, pending, claimed, tokens, bucket, tasks, used_mode, calls, keys>>
  BY DEF store, Search
<1>2. l \in List /\ p \in PC  BY DEF GoodList, PC
<1>3. /\ pc' \in [Thread -> PC] /\ list' \in [Thread -> List] /\ cur' \in [Thread -> Cursor]
      /\ pc'[t] = p /\ list'[t] = l /\ cur'[t] = c
      /\ \A u \in Thread \ {t} : pc'[u] = pc[u] /\ list'[u] = list[u] /\ cur'[u] = cur[u]
  BY <1>2, MoveEffect DEF Search
<1>4. Grown /\ Frame(t) /\ Longer
  <2>1. \A k \in Buckets : Len(bucket[k]) \in Nat  BY LenProperties DEF TypeOK
  <2> QED  BY <1>1, <1>3, <2>1, SameTypes DEF Frame, Same, Longer
<1>5. TypeOK'  BY <1>1, <1>3, SameTypes DEF TypeOK
<1>6. p = "commit" => c.at = 1 /\ 1 \in DOMAIN l.used
  <2>1. l.used \in Seq(Known)  BY <1>2 DEF List
  <2>2. l.used # << >> => 1 \in DOMAIN l.used  BY <2>1, EmptySeq, LenProperties
  <2> QED  BY <2>2 DEF Rewound
<1>7. ThreadInv(t)'
  <2>1. GoodList(l)' /\ (Complete(l.rule, l.m) => Complete(l.rule, l.m)')
    BY <1>4, GoodListStable
  <2>2. GoodList(list[t])' /\ (Complete(l.rule, l.m) => Complete(list[t].rule, list[t].m)')
    BY <1>3, <2>1
  <2> QED  BY <1>1, <1>3, <1>6, <2>2, FS_EmptySet DEF ThreadInv, Matching, Whole, Empty, Goal
<1>8. EngineInv'  BY <1>1, <1>4, <1>5, <1>7, QuietStep
<1>9. SearchInv(t)'
  BY <1>1, <1>3, <1>6 DEF SearchInv, Facing, Here, Bucket, FreeHeads, Matched
<1>10. \A u \in Thread \ {t} : SearchInv(u)'  BY <1>4, <1>5, OtherSearches DEF Frame
<1> QED  BY <1>8, <1>9, <1>10

\* A return from the search, again without a claim.
LEMMA SearchReturns ==
  ASSUME IInv, NEW t \in Thread, NEW fired, NEW retry, Return(t, fired, retry),
         UNCHANGED <<store, tasks, used_mode, calls, keys, held>>, held[t] = {}, Goal(t) # None
  PROVE  IInv'
<1> USE DEF IInv
<1>1. UNCHANGED <<con, mod, pending, claimed, tokens, bucket, tasks, used_mode, calls, keys, held>>
  BY DEF store
<1>2. tokens' \in [Status -> Nat] /\ calls' \in [Thread -> Seq(Call)]
  BY <1>1 DEF EngineInv, TypeOK
<1>3. EngineInv' /\ Frame(t) /\ Grown  BY <1>1, <1>2, ReturnStep
<1>4. Longer
  <2>1. \A k \in Buckets : Len(bucket[k]) \in Nat  BY LenProperties DEF EngineInv, TypeOK
  <2> QED  BY <1>1, <2>1 DEF Longer
<1>5. \A u \in Thread \ {t} : SearchInv(u)'
  BY <1>3, <1>4, OtherSearches DEF Frame, EngineInv
<1>6. pc'[t] \in Looping  BY ReturnEffect DEF EngineInv
<1>7. SearchInv(t)'  BY <1>6 DEF SearchInv, Looping
<1> QED  BY <1>3, <1>5, <1>7

\* The next entry of the bucket, or the entry before it on the stack.
LEMMA ScanOnInv ==
  ASSUME IInv, NEW t \in Thread, NEW c \in Cursor, c.stop <= Len(Bucket(c.bkt)),
         ScanOn(t, c), ~Exhausted(t, c), GoodList(list[t]),
         UNCHANGED <<store, tasks, used_mode, calls, keys, held>>, held[t] = {}, Goal(t) # None
  PROVE  IInv'
<1> USE DEF IInv, EngineInv
<1>1. CASE Candidates(t, c) # {}
  <2> DEFINE d == [c EXCEPT !.at = Least(Candidates(t, c))]
  <2>1. Search(t, "pending", list[t], d)  BY <1>1 DEF ScanOn
  <2>2. /\ d \in Cursor /\ d.at <= d.stop /\ d.stop <= Len(Bucket(d.bkt))
        /\ Convenient(list[t].rule, list[t].m, Bucket(d.bkt)[d.at])
    BY <1>1, CandidateNext
  <2> HIDE DEF d
  <2> QED  BY <2>1, <2>2, SearchStep DEF Convenient
<1>2. CASE Candidates(t, c) = {} /\ c.stack # << >>
  <2> DEFINE l == Remove(list[t], Top(c).s)
             d == GoBack(c)
  <2>1. Search(t, "open", l, d)  BY <1>2 DEF ScanOn
  <2>2. GoodList(l)  BY Stati, RemoveGood
  <2>3. d \in Cursor  BY <1>2, GoBackTyped
  <2> HIDE DEF l, d
  <2> QED  BY <2>1, <2>2, <2>3, SearchStep
<1> QED  BY <1>1, <1>2 DEF Exhausted

\* Adding the entry: the match is complete and is claimed, or the search goes on.
LEMMA AddHereInv ==
  ASSUME IInv, NEW t \in Thread, pc[t] \in {"pending", "claims"}, AddHere(t),
         UNCHANGED <<store, tasks, used_mode, calls, keys, held>>
  PROVE  IInv'
<1> USE DEF IInv, EngineInv
<1> DEFINE l == Add(list[t], Here(t))
<1>1. /\ held[t] = {} /\ Goal(t) # None /\ GoodList(list[t])
      /\ FreeHeads(list[t].rule, list[t].m, Here(t)) # {}
  BY DEF SearchInv, ThreadInv, Matching
<1>2. /\ cur[t] \in Cursor /\ cur[t].at \in 1..Len(Bucket(cur[t].bkt))
      /\ Here(t) \in Known
  BY HereKnown DEF SearchInv
<1>3. /\ GoodList(l) /\ l.rule = list[t].rule
      /\ l.used = Append(list[t].used, Here(t))
  BY <1>1, <1>2, Stati, AddGood
<1>4. l.used # << >>
  <2>1. list[t].used \in Seq(Known)  BY <1>1 DEF GoodList, List
  <2> QED  BY <1>2, <1>3, <2>1, AppendProperties
<1>5. IF Complete(l.rule, l.m) THEN Search(t, "commit", l, Rewound)
      ELSE Search(t, "open", l, Found(t))
  BY DEF AddHere
<1>6. Found(t) \in Cursor  BY FoundTyped DEF SearchInv
<1> HIDE DEF l
<1>7. CASE Complete(l.rule, l.m)
  BY <1>1, <1>3, <1>4, <1>5, <1>7, RewoundTyped, SearchStep
<1>8. CASE ~Complete(l.rule, l.m)
  BY <1>1, <1>3, <1>5, <1>6, <1>8, SearchStep
<1> QED  BY <1>7, <1>8

LEMMA LoadPendingInv == ASSUME IInv, NEW t \in Thread, LoadPending(t) PROVE IInv'
<1>1. CASE AddHere(t)  BY <1>1, AddHereInv DEF LoadPending
<1>2. CASE Search(t, "claims", list[t], cur[t])
  <2>1. held[t] = {} /\ Goal(t) # None /\ GoodList(list[t]) /\ cur[t] \in Cursor
    BY DEF LoadPending, IInv, EngineInv, TypeOK, SearchInv, ThreadInv, Matching
  <2>2. /\ cur[t].stop <= Len(Bucket(cur[t].bkt)) /\ cur[t].at <= cur[t].stop
        /\ FreeHeads(list[t].rule, list[t].m, Bucket(cur[t].bkt)[cur[t].at]) # {}
    BY DEF LoadPending, IInv, SearchInv, Here, Facing
  <2> QED  BY <1>2, <2>1, <2>2, SearchStep DEF LoadPending
<1> QED  BY <1>1, <1>2 DEF LoadPending

LEMMA ClaimInv == ASSUME IInv, NEW t \in Thread, Claim(t) PROVE IInv'
<1> USE DEF IInv, EngineInv
<1> DEFINE i == cur[t].at
           n == Len(list[t].used)
           s == list[t].used[i]
           p == IF i = n THEN "consume" ELSE "commit"
           c == IF i = n THEN Rewound ELSE [cur[t] EXCEPT !.at = @ + 1]
<1>1. /\ pc[t] = "commit" /\ pending[s] > 0
      /\ pending' = [pending EXCEPT ![s] = @ - 1]
      /\ claimed' = [claimed EXCEPT ![s] = @ + 1]
      /\ held' = [held EXCEPT ![t] = @ \cup {i}]
      /\ Move(t, p, list[t], c) /\ job' = job
      /\ UNCHANGED <<con, mod, tokens, bucket, tasks, used_mode, calls, keys>>
  BY DEF Claim, Take, Search
<1>2. /\ i \in DOMAIN list[t].used /\ held[t] = 1..(i - 1)
      /\ Goal(t) # None /\ GoodList(list[t]) /\ Complete(list[t].rule, list[t].m)
      /\ IsFiniteSet(held[t])
  BY <1>1 DEF ThreadInv, SearchInv, Whole, Matching
<1>3. /\ list[t].used \in Seq(Known) /\ list[t] \in List /\ cur[t] \in Cursor
      /\ n \in Nat /\ DOMAIN list[t].used = 1..n /\ i \in 1..n
  <2>1. list[t] \in List /\ cur[t] \in Cursor  BY DEF TypeOK
  <2>2. list[t].used \in Seq(Known)  BY <2>1 DEF List
  <2> QED  BY <1>2, <2>1, <2>2, LenProperties
<1>4. s \in Status  BY <1>3, ElementOfSeq, Stati
<1>5. c \in Cursor /\ p \in PC /\ c.at = (IF i = n THEN 1 ELSE i + 1)
  <2>1. Rewound \in Cursor /\ Rewound.at = 1  BY RewoundTyped DEF Rewound
  <2>2. [cur[t] EXCEPT !.at = @ + 1] \in Cursor /\ [cur[t] EXCEPT !.at = @ + 1].at = i + 1
    BY <1>3 DEF Cursor
  <2> QED  BY <2>1, <2>2 DEF PC
<1> HIDE DEF c, p
<1>6. /\ pc' \in [Thread -> PC] /\ list' \in [Thread -> List] /\ cur' \in [Thread -> Cursor]
      /\ pc'[t] = p /\ list'[t] = list[t] /\ cur'[t] = c
      /\ \A u \in Thread \ {t} : pc'[u] = pc[u] /\ list'[u] = list[u] /\ cur'[u] = cur[u]
  BY <1>1, <1>3, <1>5, MoveEffect
<1> HIDE DEF s, n, i
<1>7. /\ held \in [Thread -> SUBSET Nat] /\ claimed \in [Status -> Nat]
      /\ pending \in [Status -> Nat] /\ \A u \in Thread : IsFiniteSet(held[u])
  BY DEF TypeOK, ThreadInv
<1>8. Frame(t) /\ Grown /\ Longer
  <2>1. \A k \in Buckets : Len(bucket[k]) \in Nat  BY LenProperties DEF TypeOK
  <2> QED  BY <1>1, <1>6, <1>7, <2>1, SameTypes DEF Frame, Same, Longer
<1>9. /\ i \in Nat /\ i \notin held[t] /\ held' \in [Thread -> SUBSET Nat]
      /\ held'[t] = 1..i /\ IsFiniteSet(held'[t])
  <2>1. i \in Nat /\ i \notin held[t]  BY <1>2, <1>3
  <2>2. held'[t] = held[t] \cup {i}  BY <1>1, <1>7
  <2>3. held'[t] = 1..i  BY <1>2, <1>3, <2>2
  <2> QED  BY <1>1, <1>2, <1>7, <2>1, <2>2, <2>3, FS_AddElement
<1>10. TypeOK'
  <2>1. pending' \in [Status -> Nat] /\ claimed' \in [Status -> Nat]
    BY <1>1, <1>4, <1>7
  <2> QED  BY <1>1, <1>6, <1>9, <2>1, SameTypes DEF TypeOK
<1>11. ClaimsOwned'
  <2>1. list'[t].used[i] = s /\ list'[t].used = list[t].used  BY <1>6 DEF s
  <2> QED  BY <1>1, <1>4, <1>8, <1>9, <2>1, ClaimBegins
<1>12. ThreadInv(t)'
  <2>1. PICK l : l = list[t]  OBVIOUS
  <2>2. GoodList(l)' /\ Complete(l.rule, l.m)'  BY <1>2, <1>8, <2>1, GoodListStable
  <2>3. GoodList(list[t])' /\ Complete(list[t].rule, list[t].m)'  BY <1>6, <2>1, <2>2
  <2>4. cur'[t].at \in DOMAIN list'[t].used  BY <1>3, <1>5, <1>6
  <2>5. p = "consume" => held'[t] = cur'[t].at..Len(list'[t].used)
    BY <1>3, <1>5, <1>6, <1>9 DEF n, p
  <2>6. p \in {"consume", "commit"}  BY DEF p
  <2> QED  BY <1>1, <1>2, <1>6, <1>9, <2>3, <2>4, <2>5, <2>6
           DEF ThreadInv, Matching, Whole, Empty, Goal
<1>13. SearchInv(t)'
  <2>1. p = "commit" => held'[t] = 1..(cur'[t].at - 1)  BY <1>3, <1>5, <1>6, <1>9 DEF p
  <2> QED  BY <1>6, <2>1 DEF SearchInv, p
<1>14. \A u \in Thread \ {t} : ThreadInv(u)' /\ SearchInv(u)'
  BY <1>8, <1>10, OtherThreads, OtherSearches DEF Frame
<1> QED  BY <1>10, <1>11, <1>12, <1>13, <1>14

\* A claim fails after others succeeded: they will be given back.
LEMMA RollbackBegins ==
  ASSUME IInv, NEW t \in Thread, pc[t] = "commit", held[t] # {}, NEW c \in {Rewound, cur[t]},
         Search(t, "rollback", list[t], c),
         UNCHANGED <<store, tasks, used_mode, calls, keys, held>>
  PROVE  IInv'
<1> USE DEF IInv, EngineInv
<1>1. /\ Goal(t) # None /\ GoodList(list[t])
      /\ cur[t].at \in DOMAIN list[t].used /\ held[t] = 1..(cur[t].at - 1)
      /\ UNCHANGED <<con, mod, pending, claimed, tokens, bucket, tasks, used_mode, calls, keys, held>>
  BY DEF ThreadInv, SearchInv, Whole, Matching, store
<1>2. Move(t, "rollback", list[t], c) /\ job' = job  BY DEF Search
<1>3. list[t] \in List /\ cur[t] \in Cursor /\ c \in Cursor /\ "rollback" \in PC
  BY RewoundTyped DEF TypeOK, PC
<1>4. /\ pc' \in [Thread -> PC] /\ list' \in [Thread -> List] /\ cur' \in [Thread -> Cursor]
      /\ pc'[t] = "rollback" /\ list'[t] = list[t] /\ cur'[t] = c
      /\ \A u \in Thread \ {t} : pc'[u] = pc[u] /\ list'[u] = list[u] /\ cur'[u] = cur[u]
  BY <1>2, <1>3, MoveEffect
<1>5. Frame(t) /\ Grown /\ Longer
  <2>1. \A k \in Buckets : Len(bucket[k]) \in Nat  BY LenProperties DEF TypeOK
  <2> QED  BY <1>1, <1>2, <1>4, <2>1, SameTypes DEF Frame, Same, Longer
<1>6. TypeOK'  BY <1>1, <1>2, <1>4, SameTypes DEF TypeOK
<1>7. ThreadInv(t)'
  <2>1. PICK l : l = list[t]  OBVIOUS
  <2>2. GoodList(l)'  BY <1>1, <1>5, <2>1, GoodListStable
  <2>3. GoodList(list[t])'  BY <1>4, <2>1, <2>2
  <2>4. IsFiniteSet(held'[t])  BY <1>1 DEF ThreadInv
  <2> QED  BY <1>1, <1>2, <1>4, <2>3, <2>4 DEF ThreadInv, Matching, Whole, Empty, Goal
<1>8. EngineInv'  BY <1>1, <1>4, <1>5, <1>6, <1>7, QuietStep
<1>9. SearchInv(t)'
  <2>1. list[t].used \in Seq(Known)  BY <1>3 DEF List
  <2>2. cur[t].at \in 1..Len(list[t].used) /\ DOMAIN list[t].used = 1..Len(list[t].used)
        /\ Len(list[t].used) \in Nat
    BY <1>1, <2>1, LenProperties
  <2>3. held[t] \subseteq DOMAIN list[t].used /\ 1 \in DOMAIN list[t].used  BY <1>1, <2>2
  <2>4. c.at \in DOMAIN list[t].used  BY <1>1, <2>3 DEF Rewound
  <2> QED  BY <1>1, <1>4, <2>3, <2>4 DEF SearchInv
<1>10. \A u \in Thread \ {t} : SearchInv(u)'  BY <1>5, <1>6, OtherSearches DEF Frame
<1> QED  BY <1>8, <1>9, <1>10

\* Giving back goes on, or the last claim was given back and the attempt is over:
\* the goal loop has the goal again, or the search starts from a smaller match.
LEMMA GiveBackInv ==
  ASSUME IInv, NEW t \in Thread, GiveBack(t), NEW l, GoodList(l), NEW retry,
         IF held[t] = {Least(held[t])}
         THEN Return(t, FALSE, retry) \/ Search(t, "again", l, Rewound)
         ELSE Search(t, "rollback", list[t], cur[t])
  PROVE  IInv'
<1> USE DEF IInv, EngineInv
<1> DEFINE i == Least(held[t])
           s == list[t].used[i]
<1>1. /\ pc[t] = "rollback"
      /\ pending' = [pending EXCEPT ![s] = IF claimed[s] > 0 THEN @ + 1 ELSE @]
      /\ claimed' = [claimed EXCEPT ![s] = IF @ > 0 THEN @ - 1 ELSE @]
      /\ held' = [held EXCEPT ![t] = @ \ {i}]
      /\ IF held[t] = {i} THEN Return(t, FALSE, retry) \/ Search(t, "again", l, Rewound)
         ELSE Search(t, "rollback", list[t], cur[t])
      /\ UNCHANGED <<con, mod, tokens, bucket, tasks, used_mode, calls, keys>>
  BY DEF GiveBack, Release
<1>2. /\ held[t] # {} /\ held[t] \subseteq DOMAIN list[t].used /\ Goal(t) # None
      /\ cur[t].at \in DOMAIN list[t].used /\ GoodList(list[t]) /\ IsFiniteSet(held[t])
  BY <1>1 DEF ThreadInv, SearchInv, Matching
<1>3. /\ held \in [Thread -> SUBSET Nat] /\ claimed \in [Status -> Nat]
      /\ pending \in [Status -> Nat] /\ list[t] \in List /\ cur[t] \in Cursor /\ l \in List
      /\ Rewound \in Cursor /\ {"rollback", "again"} \subseteq PC /\ job \in [Thread -> Job]
  BY RewoundTyped DEF TypeOK, GoodList, PC
<1>4. i \in held[t] /\ i \in Nat  BY <1>2, <1>3, LeastIn
<1>5. s \in Status
  <2>1. list[t].used \in Seq(Known)  BY <1>3 DEF List
  <2>2. i \in 1..Len(list[t].used)  BY <1>2, <1>4, <2>1, LenProperties
  <2> QED  BY <2>1, <2>2, ElementOfSeq, Stati
<1> HIDE DEF i
<1>6. /\ pc' \in [Thread -> PC] /\ job' \in [Thread -> Job]
      /\ list' \in [Thread -> List] /\ cur' \in [Thread -> Cursor]
      /\ \A u \in Thread \ {t} : /\ pc'[u] = pc[u] /\ job'[u] = job[u]
                                 /\ list'[u] = list[u] /\ cur'[u] = cur[u]
      /\ \/ held[t] = {i} /\ Return(t, FALSE, retry) /\ pc'[t] \in Looping
         \/ held[t] = {i} /\ pc'[t] = "again" /\ list'[t] = l /\ job' = job
         \/ /\ held[t] # {i} /\ pc'[t] = "rollback" /\ list'[t] = list[t] /\ cur'[t] = cur[t]
            /\ job' = job
  <2>1. CASE Return(t, FALSE, retry) /\ held[t] = {i}  BY <2>1, ReturnEffect
  <2>2. CASE Search(t, "again", l, Rewound) /\ held[t] = {i}
    <3>1. Move(t, "again", l, Rewound) /\ job' = job  BY <2>2 DEF Search
    <3>2. /\ pc' \in [Thread -> PC] /\ list' \in [Thread -> List] /\ cur' \in [Thread -> Cursor]
          /\ pc'[t] = "again" /\ list'[t] = l
          /\ \A u \in Thread \ {t} : pc'[u] = pc[u] /\ list'[u] = list[u] /\ cur'[u] = cur[u]
      BY <1>3, <3>1, MoveEffect
    <3> QED  BY <1>3, <2>2, <3>1, <3>2
  <2>3. CASE held[t] # {i}
    <3>1. Move(t, "rollback", list[t], cur[t]) /\ job' = job  BY <1>1, <2>3 DEF Search
    <3> QED  BY <1>3, <2>3, <3>1, MoveEffect
  <2> QED  BY <1>1, <2>1, <2>2, <2>3
<1>7. /\ held'[t] = held[t] \ {i} /\ held' \in [Thread -> SUBSET Nat]
      /\ IsFiniteSet(held'[t])
  BY <1>1, <1>2, <1>3, FS_RemoveElement
<1>8. Frame(t) /\ Grown /\ Longer
  <2>1. \A k \in Buckets : Len(bucket[k]) \in Nat  BY LenProperties DEF TypeOK
  <2> QED  BY <1>1, <1>3, <1>6, <2>1, SameTypes DEF Frame, Same, Longer
<1>9. ClaimsOwned' /\ claimed[s] > 0
  <2>1. held'[t] # {} => list'[t].used = list[t].used  BY <1>4, <1>6, <1>7
  <2> HIDE DEF s
  <2>2. list[t].used[i] = s  BY DEF s
  <2> QED  BY <1>1, <1>4, <1>5, <1>8, <2>1, <2>2, ClaimEnds
<1>10. TypeOK'
  <2> HIDE DEF s
  <2>1. pending' \in [Status -> Nat] /\ claimed' \in [Status -> Nat]
    BY <1>1, <1>3, <1>5
  <2> QED  BY <1>1, <1>6, <1>7, <2>1, SameTypes DEF TypeOK
<1>11. \A u \in Thread \ {t} : ThreadInv(u)' /\ SearchInv(u)'
  BY <1>8, <1>10, OtherThreads, OtherSearches DEF Frame
<1>12. held[t] = {i} => held'[t] = {}  BY <1>7
<1>13. ThreadInv(t)' /\ SearchInv(t)'
  <2>1. CASE held[t] = {i} /\ Return(t, FALSE, retry) /\ pc'[t] \in Looping
    <3>1. ThreadInv(t)'  BY <1>2, <1>12, <2>1, ReturnInv
    <3> QED  BY <2>1, <3>1 DEF SearchInv, Looping
  <2>2. CASE held[t] = {i} /\ pc'[t] = "again" /\ list'[t] = l /\ job' = job
    <3>1. GoodList(l)'  BY <1>8, GoodListStable
    <3>2. GoodList(list[t])'  BY <2>2, <3>1
    <3>3. ThreadInv(t)'
      BY <1>2, <1>7, <1>12, <2>2, <3>2 DEF ThreadInv, Matching, Whole, Empty, Goal
    <3> QED  BY <2>2, <3>3 DEF SearchInv
  <2>3. CASE held[t] # {i} /\ pc'[t] = "rollback" /\ list'[t] = list[t] /\ cur'[t] = cur[t] /\ job' = job
    <3>1. ThreadInv(t)'
      <4>1. PICK k : k = list[t]  OBVIOUS
      <4>2. GoodList(k)'  BY <1>2, <1>8, <4>1, GoodListStable
      <4>3. GoodList(list[t])'  BY <2>3, <4>1, <4>2
      <4> QED  BY <1>2, <1>7, <2>3, <4>3 DEF ThreadInv, Matching, Whole, Empty, Goal
    <3> QED  BY <1>2, <1>4, <1>7, <2>3, <3>1 DEF SearchInv
  <2> QED  BY <1>6, <2>1, <2>2, <2>3
<1> QED  BY <1>9, <1>10, <1>11, <1>13

\* The steps of Engine lead to no place that SearchInv speaks of.
LEMMA SharedSteps ==
  ASSUME IInv, NEW t \in Thread, NEW silent,
         Common(t) \/ ConsumeUse(t, silent)
  PROVE  IInv'
<1>1. EngineInv' /\ Frame(t) /\ Grown
  BY CommonInv, ConsumeUseInv DEF IInv
<1>2. Longer /\ pc'[t] \in Between
  BY CommonLonger, ConsumeUseLonger DEF IInv
<1>3. SearchInv(t)'  BY <1>2 DEF SearchInv, Between
<1>4. \A u \in Thread \ {t} : SearchInv(u)'
  BY <1>1, <1>2, OtherSearches DEF IInv, EngineInv, Frame
<1> QED  BY <1>1, <1>3, <1>4 DEF IInv

LEMMA Stutter == ASSUME IInv, UNCHANGED vars PROVE IInv'
<1>1. TypeOK' /\ ClaimsOwned' /\ \A t \in Thread : ThreadInv(t)' /\ SearchInv(t)'
  <2>1. /\ UNCHANGED <<con, mod, pending, claimed, tokens, bucket, tasks, used_mode>>
        /\ UNCHANGED <<pc, calls, job, keys, list, cur, held>>
    BY DEF vars, store, local
  <2>2. TypeOK'  BY <2>1, SameTypes DEF IInv, EngineInv, TypeOK
  <2>3. ClaimsOwned'
    BY <2>1 DEF IInv, EngineInv, ClaimsOwned, Owners, Position
  <2>4. \A t \in Thread : Same(t)  BY <2>1 DEF Same
  <2>5. Grown /\ Longer
    <3>1. \A k \in Buckets : Len(bucket[k]) \in Nat
      BY LenProperties DEF IInv, EngineInv, TypeOK
    <3> QED  BY <2>1, <3>1, SameTypes DEF Longer
  <2>6. \A t \in Thread : ThreadInv(t)' /\ SearchInv(t)'
    BY <2>2, <2>4, <2>5, OtherThreads, OtherSearches DEF IInv, EngineInv
  <2> QED  BY <2>2, <2>3, <2>6
<1> QED  BY <1>1 DEF IInv, EngineInv

\* consume() and rollback() never find a word without a claim: the if in them is
\* never false.
NeverUnclaimed ==
  \A t \in Thread :
    /\ pc[t] = "consume" => claimed[list[t].used[cur[t].at]] > 0
    /\ pc[t] = "rollback" => claimed[list[t].used[Least(held[t])]] > 0

LEMMA ClaimedOnes == IInv => NeverUnclaimed
<1>1. ASSUME IInv, NEW t \in Thread, NEW i \in held[t], i \in DOMAIN list[t].used
      PROVE  claimed[list[t].used[i]] > 0
  <2> USE DEF IInv, EngineInv
  <2>1. list[t].used \in Seq(Known)  BY <1>1 DEF TypeOK, List
  <2>2. i \in 1..Len(list[t].used)  BY <1>1, <2>1, LenProperties
  <2>3. PICK s \in Status : s = list[t].used[i]  BY <1>1, <2>1, <2>2, ElementOfSeq, Stati
  <2>4. \A u \in Thread : IsFiniteSet(held[u])  BY <1>1 DEF ThreadInv
  <2>5. IsFiniteSet(Owners(s)) /\ Cardinality(Owners(s)) \in Nat  BY <2>4, OwnersFinite
  <2>6. <<t, i>> \in Owners(s)  BY <1>1, <2>3, OwnerIs
  <2>7. Cardinality(Owners(s)) # 0  BY <2>5, <2>6, FS_EmptySet
  <2>8. claimed[s] = Cardinality(Owners(s))  BY <1>1 DEF ClaimsOwned
  <2> QED  BY <2>3, <2>5, <2>7, <2>8
<1>2. IInv => NeverUnclaimed
  <2> SUFFICES ASSUME IInv, NEW t \in Thread
               PROVE  /\ pc[t] = "consume" => claimed[list[t].used[cur[t].at]] > 0
                      /\ pc[t] = "rollback" => claimed[list[t].used[Least(held[t])]] > 0
    BY DEF NeverUnclaimed
  <2> USE DEF IInv, EngineInv
  <2>1. ASSUME pc[t] = "consume" PROVE claimed[list[t].used[cur[t].at]] > 0
    <3>1. cur[t].at \in DOMAIN list[t].used /\ held[t] = cur[t].at..Len(list[t].used)
      BY <2>1 DEF ThreadInv, Whole
    <3>2. list[t].used \in Seq(Known)  BY DEF TypeOK, List
    <3>3. cur[t].at \in held[t]  BY <3>1, <3>2, LenProperties
    <3> QED  BY <1>1, <3>1, <3>3
  <2>2. ASSUME pc[t] = "rollback" PROVE claimed[list[t].used[Least(held[t])]] > 0
    <3>1. held[t] # {} /\ held[t] \subseteq DOMAIN list[t].used  BY <2>2 DEF SearchInv
    <3>2. held[t] \in SUBSET Nat  BY DEF TypeOK
    <3>3. Least(held[t]) \in held[t]  BY <3>1, <3>2, LeastIn
    <3> QED  BY <1>1, <3>1, <3>3
  <2> QED  BY <2>1, <2>2
<1> QED  BY <1>2

(***************************************************************************)
(* Searches keep checklists tidy.  Beyond IInv this needs that the places  *)
(* to go back to are stacked, and that the entry that is looked at is      *)
(* convenient.                                                             *)
(***************************************************************************)
TidyInv(t) ==
  /\ held[t] \subseteq DOMAIN list[t].used
  /\ pc[t] \in Matching => Tidy(list[t])
  /\ pc[t] \in {"open", "pending", "claims"} => Stacked(list[t], cur[t].stack)
  /\ pc[t] \in {"pending", "claims"} => Convenient(list[t].rule, list[t].m, Here(t))

LEMMA OtherTidy ==
  ASSUME TypeOK, TypeOK', NEW u \in Thread, ThreadInv(u), SearchInv(u), TidyInv(u), Same(u), Grown,
         Longer
  PROVE  TidyInv(u)'
<1>1. PICK l : l = list[u]  OBVIOUS
<1>2. PICK c : c = cur[u]  OBVIOUS
<1>3. list'[u] = l /\ cur'[u] = c /\ pc'[u] = pc[u] /\ held'[u] = held[u]
  BY <1>1, <1>2 DEF Same
<1>4. pc[u] \in Matching => GoodList(l)  BY <1>1 DEF ThreadInv
<1>5. pc[u] \in Matching => Tidy(l)'
  BY <1>1, <1>4, TidyStable DEF TidyInv
<1>6. ASSUME pc[u] \in {"pending", "claims"}
      PROVE  Convenient(list[u].rule, list[u].m, Here(u))'
  <2>1. PICK s : s = Here(u)  OBVIOUS
  <2>2. Here(u)' = s /\ s \in Known  BY <1>6, <2>1, HereStays, HereKnown DEF SearchInv
  <2>3. l.rule \in RuleId /\ l.m \in Match(l.rule, Known)
    BY <1>4, <1>6 DEF GoodList, Matching
  <2>4. Convenient(l.rule, l.m, s)  BY <1>1, <1>6, <2>1 DEF TidyInv
  <2>5. Convenient(l.rule, l.m, s)'  BY <2>2, <2>3, <2>4, ConvenientStable
  <2> QED  BY <1>3, <2>2, <2>5
<1>7. Tidy(l)' => Tidy(list[u])'  BY <1>3
<1>8. Stacked(l, c.stack) => Stacked(list[u], cur[u].stack)'
  BY <1>3 DEF Stacked, InMatch, Heads, Apart, DistinctNames, HeadName, Matched
<1>9. held'[u] \subseteq DOMAIN list'[u].used  BY <1>1, <1>3 DEF TidyInv
<1>10. pc'[u] \in {"open", "pending", "claims"} => Stacked(l, c.stack)
  BY <1>1, <1>2, <1>3 DEF TidyInv
<1> QED  BY <1>3, <1>5, <1>6, <1>7, <1>8, <1>9, <1>10 DEF TidyInv

LEMMA TidySearch ==
  ASSUME TypeOK, NEW t \in Thread,
         NEW p \in {"open", "pending", "claims", "commit", "again", "againclaims"},
         NEW l, NEW c, Search(t, p, l, c), Grown, bucket' = bucket, held' = held, held[t] = {},
         GoodList(l), Tidy(l),
         p \in {"open", "pending", "claims"} => Stacked(l, c.stack),
         p \in {"pending", "claims"} => /\ Bucket(c.bkt)[c.at] \in Known
                                        /\ Convenient(l.rule, l.m, Bucket(c.bkt)[c.at])
  PROVE  TidyInv(t)'
<1>1. pc'[t] = p /\ list'[t] = l /\ cur'[t] = c  BY SearchQuiet
<1>2. Tidy(l)'  BY TidyStable
<1>3. Tidy(list[t])'  BY <1>1, <1>2
<1>4. p \in {"open", "pending", "claims"} => Stacked(list[t], cur[t].stack)'
  BY <1>1 DEF Stacked, InMatch, Heads, Apart, DistinctNames, HeadName, Matched
<1>5. ASSUME p \in {"pending", "claims"} PROVE Convenient(list[t].rule, list[t].m, Here(t))'
  <2>1. PICK s : s = Bucket(c.bkt)[c.at]  OBVIOUS
  <2>2. Here(t)' = s  BY <1>1, <2>1 DEF Here, Bucket
  <2>3. Convenient(l.rule, l.m, s)'  BY <1>5, <2>1, ConvenientStable DEF GoodList
  <2> QED  BY <1>1, <2>2, <2>3
<1> QED  BY <1>1, <1>3, <1>4, <1>5 DEF TidyInv

LEMMA TidyReturn ==
  ASSUME TypeOK, NEW t \in Thread, NEW fired, NEW retry, Return(t, fired, retry), held'[t] = {}
  PROVE  TidyInv(t)'
BY ReturnQuiet DEF TidyInv, Looping, Matching

LEMMA ScanOnTidy ==
  ASSUME IInv, NEW t \in Thread, NEW c \in Cursor, c.stop <= Len(Bucket(c.bkt)),
         ScanOn(t, c), ~Exhausted(t, c), GoodList(list[t]), Tidy(list[t]), Stacked(list[t], c.stack),
         con' = con, bucket' = bucket, held' = held, held[t] = {}
  PROVE  TidyInv(t)'
<1> USE DEF IInv, EngineInv
<1>0. Grown  BY SameTypes
<1>1. CASE Candidates(t, c) # {}
  <2> DEFINE d == [c EXCEPT !.at = Least(Candidates(t, c))]
  <2>1. Search(t, "pending", list[t], d)  BY <1>1 DEF ScanOn
  <2>2. /\ d.stack = c.stack /\ Bucket(d.bkt)[d.at] \in Known
        /\ Convenient(list[t].rule, list[t].m, Bucket(d.bkt)[d.at])
    BY <1>1, CandidateNext
  <2> HIDE DEF d
  <2> QED  BY <1>0, <2>1, <2>2, TidySearch
<1>2. CASE Candidates(t, c) = {} /\ c.stack # << >>
  <2> DEFINE l == Remove(list[t], Top(c).s)
             d == GoBack(c)
  <2>1. Search(t, "open", l, d)  BY <1>2 DEF ScanOn
  <2>2. GoodList(l) /\ Tidy(l) /\ Stacked(l, d.stack)  BY <1>2, GoBackStacked
  <2> HIDE DEF l, d
  <2> QED  BY <1>0, <2>1, <2>2, TidySearch
<1> QED  BY <1>1, <1>2 DEF Exhausted

\* Adding the entry, or going on to the next head.
LEMMA AddHereTidy ==
  ASSUME Orderly, IInv, NEW t \in Thread, TidyInv(t), pc[t] \in {"pending", "claims"}, AddHere(t),
         con' = con, bucket' = bucket, held' = held
  PROVE  TidyInv(t)'
<1> USE DEF IInv, EngineInv
<1> DEFINE l == Add(list[t], Here(t))
<1>1. /\ held[t] = {} /\ GoodList(list[t]) /\ Tidy(list[t]) /\ Stacked(list[t], cur[t].stack)
      /\ Facing(t) /\ Convenient(list[t].rule, list[t].m, Here(t))
  BY DEF SearchInv, ThreadInv, Matching, TidyInv
<1>2. Here(t) \in Known /\ cur[t].stack \in Seq(Place)  BY <1>1, HereKnown DEF Cursor
<1>3. /\ GoodList(l) /\ Tidy(l)
      /\ ~Complete(l.rule, l.m) => \A o \in Place : o.s = Here(t) => Stacked(l, Append(cur[t].stack, o))
  BY <1>1, <1>2, AddStacked
<1>4. IF Complete(l.rule, l.m) THEN Search(t, "commit", l, Rewound)
      ELSE Search(t, "open", l, Found(t))
  BY DEF AddHere
<1>5. ~Complete(l.rule, l.m) => Stacked(l, Found(t).stack)  BY <1>1, <1>3, FoundTyped
<1>6. Grown  BY SameTypes
<1> HIDE DEF l
<1> QED  BY <1>1, <1>3, <1>4, <1>5, <1>6, TidySearch

LEMMA LoadPendingTidy ==
  ASSUME Orderly, IInv, NEW t \in Thread, TidyInv(t), LoadPending(t)
  PROVE  TidyInv(t)'
<1> USE DEF IInv, EngineInv
<1>1. CASE AddHere(t)  BY <1>1, AddHereTidy DEF LoadPending, store
<1>2. CASE Search(t, "claims", list[t], cur[t])
  <2>1. /\ held[t] = {} /\ GoodList(list[t]) /\ Tidy(list[t]) /\ Stacked(list[t], cur[t].stack)
        /\ Convenient(list[t].rule, list[t].m, Bucket(cur[t].bkt)[cur[t].at])
        /\ con' = con /\ bucket' = bucket /\ held' = held
    BY DEF LoadPending, SearchInv, ThreadInv, Matching, TidyInv, Here, store
  <2>2. Bucket(cur[t].bkt)[cur[t].at] \in Known  BY HereKnown DEF LoadPending, Here, SearchInv
  <2>3. Grown  BY <2>1, SameTypes
  <2> QED  BY <1>2, <2>1, <2>2, <2>3, TidySearch
<1> QED  BY <1>1, <1>2 DEF LoadPending

\* A step that keeps the checklist of its thread.
LEMMA TidyKeeps ==
  ASSUME NEW t \in Thread, ThreadInv(t), TidyInv(t), pc[t] \in Matching, Grown,
         list'[t] = list[t], held'[t] \subseteq DOMAIN list[t].used,
         pc'[t] \notin {"open", "pending", "claims"}
  PROVE  TidyInv(t)'
<1>1. PICK l : l = list[t]  OBVIOUS
<1>2. GoodList(l) /\ Tidy(l)  BY <1>1 DEF ThreadInv, TidyInv
<1>3. Tidy(l)'  BY <1>2, TidyStable
<1>4. Tidy(list[t])'  BY <1>1, <1>3
<1> QED  BY <1>4 DEF TidyInv

LEMMA ClaimTidy ==
  ASSUME IInv, NEW t \in Thread, TidyInv(t), Claim(t)
  PROVE  TidyInv(t)'
<1> USE DEF IInv, EngineInv
<1>1. /\ list'[t] = list[t] /\ pc[t] = "commit" /\ pc'[t] \in {"commit", "consume"}
      /\ con' = con
  BY SearchQuiet DEF Claim
<1>2. held'[t] \subseteq DOMAIN list[t].used
  <2>1. cur[t].at \in DOMAIN list[t].used  BY <1>1 DEF ThreadInv, Whole
  <2>2. held'[t] = held[t] \cup {cur[t].at}  BY DEF Claim, TypeOK
  <2> QED  BY <2>1, <2>2 DEF TidyInv
<1> QED  BY <1>1, <1>2, SameTypes, TidyKeeps DEF Matching

LEMMA RollbackBeginsTidy ==
  ASSUME IInv, NEW t \in Thread, TidyInv(t), pc[t] = "commit", NEW c,
         Search(t, "rollback", list[t], c), con' = con, held' = held
  PROVE  TidyInv(t)'
<1>1. list'[t] = list[t] /\ pc'[t] = "rollback"  BY SearchQuiet DEF IInv, EngineInv
<1>2. held'[t] \subseteq DOMAIN list[t].used  BY DEF TidyInv
<1> QED  BY <1>1, <1>2, SameTypes, TidyKeeps DEF Matching, IInv, EngineInv

LEMMA GiveBackTidy ==
  ASSUME IInv, NEW t \in Thread, TidyInv(t), GiveBack(t), NEW l, GoodList(l), NEW retry,
         IF held[t] = {Least(held[t])}
         THEN Return(t, FALSE, retry) \/ (Search(t, "again", l, Rewound) /\ Tidy(l))
         ELSE Search(t, "rollback", list[t], cur[t])
  PROVE  TidyInv(t)'
<1> USE DEF IInv, EngineInv
<1>1. /\ pc[t] = "rollback" /\ held'[t] = held[t] \ {Least(held[t])} /\ con' = con
  BY DEF GiveBack, TypeOK
<1>2. Grown  BY <1>1, SameTypes
<1>3. CASE held[t] = {Least(held[t])} /\ Return(t, FALSE, retry)
  BY <1>1, <1>3, TidyReturn
<1>4. CASE held[t] = {Least(held[t])} /\ Search(t, "again", l, Rewound) /\ Tidy(l)
  <2>1. pc'[t] = "again" /\ list'[t] = l /\ held'[t] = {}  BY <1>1, <1>4, SearchQuiet
  <2>2. Tidy(l)'  BY <1>2, <1>4, TidyStable
  <2>3. Tidy(list[t])'  BY <2>1, <2>2
  <2> QED  BY <2>1, <2>3 DEF TidyInv
<1>5. CASE held[t] # {Least(held[t])}
  <2>1. list'[t] = list[t] /\ pc'[t] = "rollback"  BY <1>5, SearchQuiet
  <2>2. held'[t] \subseteq DOMAIN list[t].used  BY <1>1 DEF TidyInv
  <2> QED  BY <1>1, <1>2, <2>1, <2>2, TidyKeeps DEF Matching
<1> QED  BY <1>3, <1>4, <1>5

LEMMA SharedTidy ==
  ASSUME IInv, IInv', NEW t \in Thread, TidyInv(t), NEW silent, Common(t) \/ ConsumeUse(t, silent)
  PROVE  TidyInv(t)'
<1> USE DEF IInv, EngineInv
<1>1. pc'[t] \in Between  BY CommonLonger, ConsumeUseLonger
<1>2. held'[t] \subseteq DOMAIN list'[t].used
  <2>1. ThreadInv(t)'  OBVIOUS
  <2>2. pc'[t] \in Empty => held'[t] = {}  BY <2>1 DEF ThreadInv
  <2>3. list'[t] \in List'  BY DEF TypeOK
  <2>4. DOMAIN list'[t].used = 1..Len(list'[t].used) /\ Len(list'[t].used) \in Nat
    BY <2>3, LenProperties DEF List
  <2>5. pc'[t] \in {"consume", "token"} => cur'[t].at \in DOMAIN list'[t].used
    BY <2>1 DEF ThreadInv, Whole
  <2>6. pc'[t] = "consume" => held'[t] = cur'[t].at..Len(list'[t].used)
    BY <2>1 DEF ThreadInv
  <2>7. pc'[t] = "token" => held'[t] = (cur'[t].at + 1)..Len(list'[t].used)
    BY <2>1 DEF ThreadInv
  <2>8. pc'[t] \in {"consume", "token"} => held'[t] \subseteq DOMAIN list'[t].used
    BY <2>4, <2>5, <2>6, <2>7
  <2> QED  BY <1>1, <2>2, <2>8 DEF Between, Empty
<1>3. CASE pc'[t] \notin {"consume", "token", "body"}
  BY <1>1, <1>2, <1>3 DEF TidyInv, Between, Matching
<1>4. CASE pc'[t] \in {"consume", "token", "body"}
  <2>1. ASSUME NEW fired, NEW retry, Return(t, fired, retry) PROVE FALSE
    BY <1>4, <2>1, ReturnQuiet DEF Looping
  <2>2. ASSUME NEW p, Jump(t, p) PROVE p \in {"consume", "token", "body"}
    BY <1>4, <2>2 DEF Jump, TypeOK
  <2>3. ASSUME AfterUse(t) PROVE list'[t] = list[t]
    BY <2>3, SearchQuiet DEF AfterUse
  <2>4. CASE Common(t)
    <3>1. ~MakeCall(t)
      <4>1. ASSUME NEW p, Jump(t, p) PROVE pc'[t] = p  BY <4>1 DEF Jump, TypeOK
      <4> QED  BY <1>4, <4>1 DEF MakeCall, InsertCounted
    <3>2. ~Allocate(t) /\ ~Enqueue(t) /\ ~TakeTask(t) /\ ~NoToken(t)
      BY <2>2 DEF Allocate, Enqueue, TakeTask, NoToken
    <3>3. ~Index(t)  BY <2>2 DEF Index
    <3>4. ~CheckLive(t)  BY <1>4, <2>1 DEF CheckLive, Jump, TypeOK
    <3>5. ~NoMode(t) /\ ~PopToken(t) /\ ~RunBody(t)  BY <2>1 DEF NoMode, PopToken, RunBody
    <3>6. PushToken(t)  BY <2>4, <3>1, <3>2, <3>3, <3>4, <3>5 DEF Common
    <3>7. list'[t] = list[t] /\ pc[t] = "token"  BY <2>3, <3>6 DEF PushToken
    <3>8. Grown  BY <2>4, CommonInv
    <3> QED  BY <1>2, <1>4, <3>7, <3>8, TidyKeeps DEF Matching
  <2>5. CASE ConsumeUse(t, silent)
    <3>1. list'[t] = list[t] /\ pc[t] = "consume"
      BY <2>3, <2>5, SearchQuiet DEF ConsumeUse
    <3>2. Grown  BY <2>5, ConsumeUseInv
    <3> QED  BY <1>2, <1>4, <3>1, <3>2, TidyKeeps DEF Matching
  <2> QED  BY <2>4, <2>5
<1> QED  BY <1>3, <1>4

TidyAll == IInv /\ \A t \in Thread : TidyInv(t)

LEMMA TidyInitially == ASSUME Init PROVE \A t \in Thread : TidyInv(t)
BY DEF Init, TidyInv, Matching

LEMMA TidyStutter ==
  ASSUME TidyAll, UNCHANGED vars PROVE \A t \in Thread : TidyInv(t)'
<1>1. UNCHANGED <<con, bucket, pc, calls, job, list, cur, held>>
  BY DEF vars, store, local
<1>2. Grown /\ Longer
  <2>1. \A k \in Buckets : Len(bucket[k]) \in Nat
    BY LenProperties DEF TidyAll, IInv, EngineInv, TypeOK
  <2> QED  BY <1>1, <2>1, SameTypes DEF Longer
<1>3. \A t \in Thread : Same(t)  BY <1>1 DEF Same
<1>4. TypeOK'  BY Stutter DEF TidyAll, IInv, EngineInv
<1> QED  BY <1>2, <1>3, <1>4, OtherTidy DEF TidyAll, IInv, EngineInv

LEMMA TidyReturns == TidyAll => KeptHeadsReturn /\ ClaimsAreMatched
BY TidyBodies DEF TidyAll, TidyInv, Matching, IInv, EngineInv

(***************************************************************************)
(* What the steps of a search do to the live constraints and to the calls  *)
(* that are owed: only the last claim on a match shows.                    *)
(***************************************************************************)
Searches(t) ==
  \/ \E fired, retry : Return(t, fired, retry)
  \/ \E p \in {"open", "pending", "claims", "commit", "again", "againclaims", "rollback"} : \E l, c :
       Search(t, p, l, c)

LEMMA SearchFrame ==
  ASSUME TypeOK, NEW t \in Thread, Searches(t),
         \/ UNCHANGED <<store, tasks, used_mode, calls, keys, held>>
         \/ /\ \A u \in Thread \ {t} : held'[u] = held[u]
            /\ UNCHANGED <<con, bucket, calls>>
  PROVE  Frame(t) /\ Grown /\ Longer /\ ~Firing(t)'
<1>1. con' = con /\ bucket' = bucket /\ calls' = calls /\ \A u \in Thread \ {t} : held'[u] = held[u]
  BY DEF store
<1>2. Quiet(t) /\ ~Firing(t)'
  <2>1. ASSUME NEW fired, NEW retry, Return(t, fired, retry) PROVE Quiet(t) /\ ~Firing(t)'
    BY <2>1, ReturnQuiet DEF Looping, Firing
  <2>2. ASSUME NEW p \in {"open", "pending", "claims", "commit", "again", "againclaims", "rollback"},
               NEW l, NEW c, Search(t, p, l, c)
        PROVE  Quiet(t) /\ ~Firing(t)'
    BY <2>2, SearchQuiet DEF Firing
  <2> QED  BY <2>1, <2>2 DEF Searches
<1>3. Longer
  <2>1. \A k \in Buckets : Len(bucket[k]) \in Nat  BY LenProperties DEF TypeOK
  <2> QED  BY <1>1, <2>1 DEF Longer
<1>4. Frame(t)  BY <1>1, <1>2 DEF Quiet, Frame, Same
<1> QED  BY <1>1, <1>2, <1>3, <1>4, SameTypes

LEMMA ClaimFrame ==
  ASSUME IInv, NEW t \in Thread, Claim(t)
  PROVE  Frame(t) /\ Grown /\ Longer
<1> USE DEF IInv, EngineInv
<1>1. Quiet(t)  BY SearchQuiet DEF Claim
<1>2. con' = con /\ bucket' = bucket /\ calls' = calls /\ \A u \in Thread \ {t} : held'[u] = held[u]
  BY DEF Claim, TypeOK
<1>3. Longer
  <2>1. \A k \in Buckets : Len(bucket[k]) \in Nat  BY LenProperties DEF TypeOK
  <2> QED  BY <1>2, <2>1 DEF Longer
<1>4. Frame(t)  BY <1>1, <1>2 DEF Quiet, Frame, Same
<1> QED  BY <1>2, <1>3, <1>4, SameTypes

LEMMA SearchIdle ==
  ASSUME IInv, IInv', NEW t \in Thread, ~Firing(t), held[t] = {}, Searches(t),
         UNCHANGED <<store, tasks, used_mode, calls, keys, held>>
  PROVE  Abstract!Next
<1>1. con' = con /\ mod' = mod /\ pending' = pending /\ calls' = calls /\ held'[t] = {}
  BY DEF store
<1> QED  BY <1>1, SearchFrame, IdleOutside DEF IInv, EngineInv

LEMMA Searching ==
  ASSUME NEW t \in Thread
  PROVE  /\ \A c : ScanOn(t, c) => Searches(t)
         /\ AddHere(t) => Searches(t)
         /\ LoadPending(t) => Searches(t)
BY DEF ScanOn, AddHere, LoadPending, Searches

\* A claim that fails after others: nothing is given back yet.
LEMMA RollbackBeginsIdle ==
  ASSUME IInv, IInv', NEW t \in Thread, pc[t] = "commit", NEW c,
         Search(t, "rollback", list[t], c),
         UNCHANGED <<store, tasks, used_mode, calls, keys, held>>
  PROVE  Abstract!Next
<1> USE DEF IInv, EngineInv
<1>1. con' = con /\ mod' = mod /\ pending' = pending /\ calls' = calls /\ held' = held
  BY DEF store
<1>2. Frame(t) /\ ~Firing(t)'
  <2>1. Searches(t)  BY DEF Searches
  <2> QED  BY <2>1, SearchFrame
<1>3. ~Firing(t)  BY DEF Firing
<1>4. list'[t] = list[t]  BY SearchQuiet
<1>5. CallsDue(t)' = CallsDue(t)  BY <1>1, <1>2, <1>3 DEF CallsDue
<1>6. \A s \in Status : Share(t, s)' = Share(t, s)  BY <1>1, <1>2, <1>3, <1>4 DEF Share
<1>7. \A s \in Status : pending'[s] + Cardinality(Share(t, s)') =
                        pending[s] + Cardinality(Share(t, s))
  BY <1>1, <1>6
<1> QED  BY <1>1, <1>2, <1>5, <1>7, IdleStep

\* One more claim: the last one takes the constraints of the match.
LEMMA ClaimStep ==
  ASSUME Orderly, IInv, IInv', NEW t \in Thread, TidyInv(t), Claim(t)
  PROVE  Abstract!Next
<1> USE DEF IInv, EngineInv
<1> DEFINE l == list[t]
           n == Len(l.used)
           i == cur[t].at
           d == l.used[i]
<1>1. /\ pc[t] = "commit" /\ pending[d] > 0
      /\ pending' = [pending EXCEPT ![d] = @ - 1]
      /\ held' = [held EXCEPT ![t] = @ \cup {i}]
      /\ con' = con /\ mod' = mod /\ calls' = calls /\ bucket' = bucket
      /\ IF i = n THEN Search(t, "consume", l, Rewound)
         ELSE Search(t, "commit", l, [cur[t] EXCEPT !.at = @ + 1])
  BY DEF Claim, Take
<1>2. /\ GoodList(l) /\ Complete(l.rule, l.m) /\ i \in DOMAIN l.used /\ held[t] = 1..(i - 1)
      /\ Tidy(l) /\ ~Firing(t)
  BY <1>1 DEF ThreadInv, SearchInv, TidyInv, Matching, Whole, Firing
<1>3. list'[t] = l /\ (pc'[t] = IF i = n THEN "consume" ELSE "commit") /\ Quiet(t)
  BY <1>1, SearchQuiet
<1>4. Frame(t)
  <2>1. \A u \in Thread \ {t} : held'[u] = held[u]  BY <1>1 DEF TypeOK
  <2> QED  BY <1>1, <1>3, <2>1 DEF Quiet, Frame, Same
<1>5. /\ DOMAIN l.used = 1..n /\ n \in Nat /\ \A j \in 1..n : l.used[j] \in Known
  BY <1>2, LenProperties, ElementOfSeq DEF GoodList, List
<1>6. i \in 1..n /\ d \in Known /\ Known \subseteq Status  BY <1>2, <1>5, Stati
<1>7. held'[t] = held[t] \cup {i} /\ i \notin held[t]  BY <1>1, <1>2, <1>5, <1>6 DEF TypeOK
<1>8. \A s \in Status : /\ pending[s] \in Nat /\ pending'[s] \in Nat
                        /\ pending[s] = pending'[s] + (IF s = d THEN 1 ELSE 0)
  <2>1. pending \in [Status -> Nat] /\ d \in Status  BY <1>6 DEF TypeOK
  <2>2. pending' = [pending EXCEPT ![d] = @ - 1] /\ pending[d] > 0  BY <1>1
  <2> HIDE DEF d
  <2> QED  BY <2>1, <2>2
<1>9. ASSUME NEW s \in Status, NEW A, A = {j \in held'[t] : l.used[j] = s}
      PROVE  /\ Cardinality(A) = Cardinality(Share(t, s)) + (IF s = d THEN 1 ELSE 0)
             /\ Cardinality(Share(t, s)) \in Nat
  <2>1. Share(t, s) = {j \in held[t] : l.used[j] = s}  BY <1>2 DEF Share
  <2>2. A = IF s = d THEN Share(t, s) \cup {i} ELSE Share(t, s)  BY <1>7, <1>9, <2>1
  <2>3. IsFiniteSet(Share(t, s)) /\ i \notin Share(t, s)
    <3>1. Share(t, s) \in SUBSET held[t] /\ IsFiniteSet(held[t])  BY <2>1 DEF ThreadInv
    <3> QED  BY <1>7, <3>1, FS_Subset
  <2>4. /\ Cardinality(Share(t, s) \cup {i}) = Cardinality(Share(t, s)) + 1
        /\ Cardinality(Share(t, s)) \in Nat
    BY <2>3, FS_AddElement, FS_CardinalityType
  <2> HIDE DEF d, i
  <2> QED  BY <2>2, <2>4
<1>10. CASE i # n
  <2>1. ~Firing(t)'  BY <1>3, <1>10 DEF Firing
  <2>2. CallsDue(t)' = CallsDue(t)  BY <1>1, <1>2, <2>1 DEF CallsDue
  <2>3. ASSUME NEW s \in Status
        PROVE  pending'[s] + Cardinality(Share(t, s)') = pending[s] + Cardinality(Share(t, s))
    <3>1. PICK A : A = Share(t, s)'  OBVIOUS
    <3>2. A = {j \in held'[t] : l.used[j] = s}  BY <1>3, <2>1, <3>1 DEF Share
    <3>3. /\ Cardinality(A) = Cardinality(Share(t, s)) + (IF s = d THEN 1 ELSE 0)
          /\ Cardinality(Share(t, s)) \in Nat
      BY <1>9, <3>2
    <3>4. pending'[s] + Cardinality(A) = pending[s] + Cardinality(Share(t, s))
      BY <1>8, <3>3
    <3> QED  BY <3>1, <3>4
  <2> QED  BY <1>1, <1>4, <2>2, <2>3, IdleStep
<1>11. CASE i = n
  <2>1. Firing(t)'  BY <1>3, <1>11 DEF Firing
  <2>2. OrderlyRule(l.rule)  BY <1>2 DEF GoodList, Orderly
  <2>3. calls'[t] = calls[t]  BY <1>1
  <2>4. ASSUME NEW s \in Status
        PROVE  pending[s] + Cardinality(Share(t, s)) = pending'[s] + Number(l.used, {s})
    <3>1. Pick(l.used, {s}) = {j \in held'[t] : l.used[j] = s}
      <4>1. held'[t] = DOMAIN l.used  BY <1>2, <1>5, <1>6, <1>7, <1>11
      <4> QED  BY <4>1 DEF Pick
    <3>2. /\ Number(l.used, {s}) = Cardinality(Share(t, s)) + (IF s = d THEN 1 ELSE 0)
          /\ Cardinality(Share(t, s)) \in Nat
      BY <1>9, <3>1 DEF Number
    <3> HIDE DEF l, d
    <3> QED  BY <1>8, <3>2
  <2>5. PICK k : k = l  OBVIOUS
  <2>6. /\ GoodList(k) /\ Complete(k.rule, k.m) /\ Tidy(k) /\ OrderlyRule(k.rule)
        /\ list'[t] = k /\ con' = con /\ mod' = mod
        /\ \A s \in Status : pending[s] + Cardinality(Share(t, s)) =
                             pending'[s] + Number(k.used, {s})
    BY <1>1, <1>2, <1>3, <2>2, <2>4, <2>5
  <2> HIDE DEF l, d, i, n
  <2> QED  BY <1>2, <1>4, <2>1, <2>3, <2>6, FireStep
<1> QED  BY <1>10, <1>11

\* One claim less: what was claimed is pending again.
LEMMA GiveBackStep ==
  ASSUME IInv, IInv', NEW t \in Thread, GiveBack(t), NEW k, NEW retry,
         IF held[t] = {Least(held[t])}
         THEN Return(t, FALSE, retry) \/ Search(t, "again", k, Rewound)
         ELSE Search(t, "rollback", list[t], cur[t])
  PROVE  Abstract!Next
<1> USE DEF IInv, EngineInv
<1> DEFINE l == list[t]
           i == Least(held[t])
           d == l.used[i]
<1>1. /\ pc[t] = "rollback"
      /\ pending' = [pending EXCEPT ![d] = IF claimed[d] > 0 THEN @ + 1 ELSE @]
      /\ held' = [held EXCEPT ![t] = @ \ {i}]
      /\ con' = con /\ mod' = mod /\ calls' = calls /\ bucket' = bucket
      /\ IF held[t] = {i} THEN Return(t, FALSE, retry) \/ Search(t, "again", k, Rewound)
         ELSE Search(t, "rollback", l, cur[t])
  BY DEF GiveBack, Release
<1>2. Frame(t) /\ ~Firing(t)'
  <2>1. Searches(t)  BY <1>1 DEF Searches
  <2>2. \A u \in Thread \ {t} : held'[u] = held[u]  BY <1>1 DEF TypeOK
  <2> QED  BY <1>1, <2>1, <2>2, SearchFrame
<1>3. held[t] # {} /\ held[t] \subseteq DOMAIN l.used /\ IsFiniteSet(held[t]) /\ ~Firing(t)
  BY <1>1 DEF SearchInv, ThreadInv, Firing
<1>4. i \in held[t]
  <2>1. held[t] \in SUBSET Nat  BY DEF TypeOK
  <2> QED  BY <1>3, <2>1, LeastIn
<1>5. d \in Status
  <2>1. l.used \in Seq(Known)  BY DEF TypeOK, List
  <2>2. l.used[i] \in Known  BY <1>3, <1>4, <2>1, LenProperties, ElementOfSeq
  <2> QED  BY <2>2, Stati
<1>6. claimed[d] > 0  BY <1>1, ClaimedOnes DEF NeverUnclaimed
<1> HIDE DEF i
<1>7. held'[t] = held[t] \ {i}  BY <1>1 DEF TypeOK
<1>8. held'[t] # {} => list'[t] = l
  <2>1. CASE held[t] = {i}  BY <1>7, <2>1
  <2>2. CASE held[t] # {i}
    <3>1. Search(t, "rollback", l, cur[t])  BY <1>1, <2>2
    <3> QED  BY <3>1, SearchQuiet
  <2> QED  BY <2>1, <2>2
<1>9. ASSUME NEW s \in Status
      PROVE  pending'[s] + Cardinality(Share(t, s)') = pending[s] + Cardinality(Share(t, s))
  <2>1. PICK A : A = Share(t, s)'  OBVIOUS
  <2>2. A = {j \in held'[t] : list'[t].used[j] = s}  BY <1>2, <2>1 DEF Share
  <2>3. A = {j \in held'[t] : l.used[j] = s}  BY <1>8, <2>2
  <2>4. Share(t, s) = {j \in held[t] : l.used[j] = s}  BY <1>3 DEF Share
  <2>5. A = Share(t, s) \ {i} /\ (i \in Share(t, s) <=> s = d)
    BY <1>4, <1>7, <2>3, <2>4
  <2>6. IsFiniteSet(Share(t, s))
    <3>1. Share(t, s) \in SUBSET held[t]  BY <2>4
    <3> QED  BY <1>3, <3>1, FS_Subset
  <2>7. /\ Cardinality(Share(t, s)) \in Nat
        /\ Cardinality(A) = IF s = d THEN Cardinality(Share(t, s)) - 1 ELSE Cardinality(Share(t, s))
    <3>1. i \notin Share(t, s) => A = Share(t, s)  BY <2>5
    <3>2. i \in Share(t, s) => Cardinality(A) = Cardinality(Share(t, s)) - 1
      BY <2>5, <2>6, FS_RemoveElement
    <3>3. Cardinality(Share(t, s)) \in Nat  BY <2>6, FS_CardinalityType
    <3> QED  BY <2>5, <3>1, <3>2, <3>3
  <2>8. pending[s] \in Nat /\ pending'[s] = IF s = d THEN pending[s] + 1 ELSE pending[s]
    BY <1>1, <1>5, <1>6 DEF TypeOK
  <2>9. pending'[s] + Cardinality(A) = pending[s] + Cardinality(Share(t, s))  BY <2>7, <2>8
  <2> QED  BY <2>1, <2>9
<1>10. CallsDue(t)' = CallsDue(t)  BY <1>1, <1>2, <1>3 DEF CallsDue
<1> QED  BY <1>1, <1>2, <1>9, <1>10, IdleStep

(***************************************************************************)
(* SyncServed.  The goal is the first use of a checklist while its rule is *)
(* searched: the places a search may go back to are of partners.           *)
(***************************************************************************)
Rooted(t) == pc[t] \in {"open", "pending", "claims"} => Partners(cur[t].stack, Goal(t))

SyncAll == SyncInv /\ \A t \in Thread : Rooted(t)

LEMMA OtherRooted ==
  ASSUME NEW t \in Thread, Frame(t), \A u \in Thread : Rooted(u), Rooted(t)'
  PROVE  \A u \in Thread : Rooted(u)'
<1>1. ASSUME NEW u \in Thread \ {t} PROVE Rooted(u)'
  <2>1. Same(u) /\ Rooted(u)  BY DEF Frame
  <2> QED  BY <2>1 DEF Same, Rooted, Goal, Partners
<1> QED  BY <1>1

LEMMA SyncSearch ==
  ASSUME IInv, IInv', SyncAll, NEW t \in Thread, ~Firing(t),
         NEW p \in {"open", "pending", "claims", "commit"}, NEW l, NEW c, Search(t, p, l, c),
         UNCHANGED <<store, tasks, used_mode, calls, keys, held>>, Led(l, Goal(t)),
         Partners(c.stack, Goal(t))
  PROVE  SyncAll'
<1> USE DEF IInv, EngineInv
<1>1. pc'[t] = p /\ list'[t] = l /\ cur'[t] = c /\ job' = job  BY SearchQuiet
<1>2. Frame(t)
  <2>1. Searches(t)  BY DEF Searches
  <2> QED  BY <2>1, SearchFrame
<1>3. SyncInv'
  BY <1>1, <1>2, SyncSearches DEF SyncAll, Matching, store
<1>4. Rooted(t)'  BY <1>1 DEF Rooted, Goal, Partners
<1> QED  BY <1>2, <1>3, <1>4, OtherRooted DEF SyncAll

LEMMA SyncAllReturns ==
  ASSUME IInv, IInv', SyncAll, NEW t \in Thread, ~Firing(t), Goal(t) # None,
         NEW retry, Return(t, FALSE, retry),
         UNCHANGED <<store, tasks, used_mode, calls, keys, held>>
  PROVE  SyncAll'
<1> USE DEF IInv, EngineInv
<1>1. Frame(t)
  <2>1. Searches(t)  BY DEF Searches
  <2> QED  BY <2>1, SearchFrame
<1>2. SyncInv'  BY <1>1, SyncReturns DEF SyncAll, store
<1>3. Rooted(t)'  BY ReturnQuiet DEF Rooted, Looping
<1> QED  BY <1>1, <1>2, <1>3, OtherRooted DEF SyncAll

LEMMA AddHereSync ==
  ASSUME Orderly, TidyAll, IInv', SyncAll, NEW t \in Thread, pc[t] \in {"pending", "claims"}, AddHere(t),
         UNCHANGED <<store, tasks, used_mode, calls, keys, held>>
  PROVE  SyncAll'
<1> USE DEF TidyAll, IInv, EngineInv
<1>1. PICK l : /\ l = Add(list[t], Here(t))
               /\ IF Complete(l.rule, l.m) THEN Search(t, "commit", l, Rewound)
                  ELSE Search(t, "open", l, Found(t))
  BY DEF AddHere
<1>2. /\ GoodList(list[t]) /\ Tidy(list[t]) /\ Stacked(list[t], cur[t].stack)
      /\ Facing(t) /\ Convenient(list[t].rule, list[t].m, Here(t))
      /\ Led(list[t], Goal(t)) /\ Partners(cur[t].stack, Goal(t)) /\ ~Firing(t)
  BY DEF SearchInv, ThreadInv, Matching, TidyInv, SyncAll, SyncInv, CallerInv, Firing, Rooted
<1>3. Here(t) \in Known /\ cur[t].stack \in Seq(Place)  BY <1>2, HereKnown DEF Cursor
<1>4. Led(l, Goal(t))  BY <1>1, <1>2, <1>3, AddStacked
<1>5. CASE Complete(l.rule, l.m)
  <2>1. Search(t, "commit", l, Rewound)  BY <1>1, <1>5
  <2>2. Partners(Rewound.stack, Goal(t))  BY DEF Rewound, Partners
  <2> QED  BY <1>2, <1>4, <2>1, <2>2, SyncSearch
<1>6. CASE ~Complete(l.rule, l.m)
  <2>1. Search(t, "open", l, Found(t))  BY <1>1, <1>6
  <2>2. Partners(Found(t).stack, Goal(t))  BY <1>1, <1>2, <1>3, <1>6, FoundTyped, AddPartners
  <2> QED  BY <1>2, <1>4, <2>1, <2>2, SyncSearch
<1> QED  BY <1>5, <1>6

LEMMA ScanOnSync ==
  ASSUME TidyAll, IInv', SyncAll, NEW t \in Thread, ~Firing(t), NEW c \in Cursor,
         ScanOn(t, c), ~Exhausted(t, c), GoodList(list[t]), Tidy(list[t]), Stacked(list[t], c.stack),
         Led(list[t], Goal(t)), Partners(c.stack, Goal(t)),
         UNCHANGED <<store, tasks, used_mode, calls, keys, held>>
  PROVE  SyncAll'
<1> USE DEF TidyAll, IInv, EngineInv
<1>1. CASE Candidates(t, c) # {}
  <2> DEFINE d == [c EXCEPT !.at = Least(Candidates(t, c))]
  <2>1. Search(t, "pending", list[t], d)  BY <1>1 DEF ScanOn
  <2>2. d.stack = c.stack  BY DEF Cursor
  <2> HIDE DEF d
  <2> QED  BY <2>1, <2>2, SyncSearch
<1>2. CASE Candidates(t, c) = {} /\ c.stack # << >>
  <2> DEFINE l == Remove(list[t], Top(c).s)
             d == GoBack(c)
  <2>1. Search(t, "open", l, d)  BY <1>2 DEF ScanOn
  <2>2. Led(l, Goal(t)) /\ Partners(d.stack, Goal(t))  BY <1>2, GoBackPartners
  <2> HIDE DEF d, l
  <2> QED  BY <2>1, <2>2, SyncSearch
<1> QED  BY <1>1, <1>2 DEF Exhausted

LEMMA LoadPendingSync ==
  ASSUME Orderly, TidyAll, IInv', SyncAll, NEW t \in Thread, LoadPending(t)
  PROVE  SyncAll'
<1>1. CASE AddHere(t)  BY <1>1, AddHereSync DEF LoadPending
<1>2. CASE Search(t, "claims", list[t], cur[t])
  <2>1. pc[t] = "pending" /\ Led(list[t], Goal(t)) /\ ~Firing(t)
    BY DEF LoadPending, SyncAll, SyncInv, CallerInv, Matching, Firing
  <2>2. Partners(cur[t].stack, Goal(t))  BY <2>1 DEF SyncAll, Rooted
  <2> QED  BY <1>2, <2>1, <2>2, SyncSearch DEF LoadPending, TidyAll
<1> QED  BY <1>1, <1>2 DEF LoadPending

\* A claim, and a rollback, move a copy from one half of the word to the other.
LEMMA ClaimSync ==
  ASSUME IInv, IInv', SyncAll, NEW t \in Thread, Claim(t)
  PROVE  SyncAll'
<1> USE DEF IInv, EngineInv
<1>1. /\ pc[t] = "commit" /\ list'[t] = list[t] /\ job' = job
      /\ pc'[t] = "commit" \/ (pc'[t] = "consume" /\ cur'[t] = Rewound)
  BY SearchQuiet DEF Claim
<1>2. /\ Take(list[t].used[cur[t].at]) /\ pending[list[t].used[cur[t].at]] > 0
      /\ UNCHANGED <<con, mod, tokens, tasks, calls>>
  BY DEF Claim
<1>3. Frame(t)  BY ClaimFrame
<1>4. ~Firing(t) /\ Led(list'[t], Goal(t))
  BY <1>1 DEF Firing, SyncAll, SyncInv, CallerInv, Matching
<1>5. pc'[t] = "consume" => 1 \in held'[t]
  <2> SUFFICES ASSUME pc'[t] = "consume" PROVE 1 \in held'[t]  OBVIOUS
  <2>1. cur'[t].at = 1  BY <1>1 DEF Rewound
  <2>2. 1 \in DOMAIN list'[t].used /\ held'[t] = 1..Len(list'[t].used)
    BY <2>1 DEF ThreadInv, Whole
  <2>3. list'[t].used \in Seq(Known')
    <3>1. list'[t] \in List'  BY DEF TypeOK
    <3> QED  BY <3>1 DEF List
  <2>4. DOMAIN list'[t].used = 1..Len(list'[t].used)  BY <2>3, LenProperties
  <2> QED  BY <2>2, <2>4
<1>6. \A s \in Status : pending'[s] + claimed'[s] = pending[s] + claimed[s]
  <2>1. pending \in [Status -> Nat] /\ claimed \in [Status -> Nat]  BY DEF TypeOK
  <2>2. PICK x : Take(x)  BY <1>2
  <2> QED  BY <2>1, <2>2 DEF Take
<1>7. SyncInv'
  BY <1>1, <1>2, <1>3, <1>4, <1>5, <1>6, SyncSearches DEF SyncAll, Matching
<1>8. Rooted(t)'  BY <1>1 DEF Rooted
<1> QED  BY <1>3, <1>7, <1>8, OtherRooted DEF SyncAll

LEMMA RollbackBeginsSync ==
  ASSUME IInv, IInv', SyncAll, NEW t \in Thread, pc[t] = "commit", NEW c,
         Search(t, "rollback", list[t], c),
         UNCHANGED <<store, tasks, used_mode, calls, keys, held>>
  PROVE  SyncAll'
<1> USE DEF IInv, EngineInv
<1>1. pc'[t] = "rollback" /\ list'[t] = list[t] /\ job' = job  BY SearchQuiet
<1>2. Frame(t)
  <2>1. Searches(t)  BY DEF Searches
  <2> QED  BY <2>1, SearchFrame
<1>3. ~Firing(t) /\ Led(list'[t], Goal(t))
  BY <1>1 DEF Firing, SyncAll, SyncInv, CallerInv, Matching
<1>4. SyncInv'  BY <1>1, <1>2, <1>3, SyncSearches DEF SyncAll, Matching, store
<1>5. Rooted(t)'  BY <1>1 DEF Rooted
<1> QED  BY <1>2, <1>4, <1>5, OtherRooted DEF SyncAll

LEMMA GiveBackSync ==
  ASSUME IInv, IInv', SyncAll, NEW t \in Thread, GiveBack(t), NEW retry,
         IF held[t] = {Least(held[t])} THEN Return(t, FALSE, retry)
         ELSE Search(t, "rollback", list[t], cur[t])
  PROVE  SyncAll'
<1> USE DEF IInv, EngineInv
<1>1. /\ pc[t] = "rollback" /\ Release(list[t].used[Least(held[t])])
      /\ held' = [held EXCEPT ![t] = @ \ {Least(held[t])}]
      /\ UNCHANGED <<con, mod, tokens, bucket, tasks, calls>>
  BY DEF GiveBack
<1>2. \A s \in Status : pending'[s] + claimed'[s] = pending[s] + claimed[s]
  <2>1. pending \in [Status -> Nat] /\ claimed \in [Status -> Nat]  BY DEF TypeOK
  <2>2. PICK x : Release(x)  BY <1>1
  <2> QED  BY <2>1, <2>2 DEF Release
<1>3. Frame(t)
  <2>1. Searches(t)  BY DEF Searches
  <2>2. \A u \in Thread \ {t} : held'[u] = held[u]  BY <1>1 DEF TypeOK
  <2> QED  BY <1>1, <2>1, <2>2, SearchFrame
<1>4. ~Firing(t) /\ Goal(t) # None /\ Led(list[t], Goal(t))
  BY <1>1 DEF Firing, ThreadInv, SyncAll, SyncInv, CallerInv, Matching
<1>5. CASE Return(t, FALSE, retry)
  <2>1. SyncInv'  BY <1>1, <1>2, <1>3, <1>4, <1>5, SyncReturns DEF SyncAll
  <2>2. Rooted(t)'  BY <1>5, ReturnQuiet DEF Rooted, Looping
  <2> QED  BY <1>3, <2>1, <2>2, OtherRooted DEF SyncAll
<1>6. CASE Search(t, "rollback", list[t], cur[t])
  <2>1. pc'[t] = "rollback" /\ list'[t] = list[t] /\ job' = job  BY <1>6, SearchQuiet
  <2>2. SyncInv'
    BY <1>1, <1>2, <1>3, <1>4, <2>1, SyncSearches DEF SyncAll, Matching
  <2>3. Rooted(t)'  BY <2>1 DEF Rooted
  <2> QED  BY <1>3, <2>2, <2>3, OtherRooted DEF SyncAll
<1> QED  BY <1>5, <1>6

\* The steps that the strategies share lead to no step of a search.
LEMMA SharedSync ==
  ASSUME TidyAll, IInv', SyncAll, NEW t \in Thread, Common(t) \/ Consume(t)
  PROVE  SyncAll'
<1> USE DEF TidyAll, IInv, EngineInv
<1>1. SyncInv'
  <2>1. pc[t] = "body" => Tidy(list[t])  BY DEF TidyInv, Matching
  <2> QED  BY <2>1, CommonSync, ConsumeSync DEF SyncAll
<1>2. pc'[t] \in Between /\ Frame(t)
  BY CommonLonger, ConsumeUseLonger, CommonInv, ConsumeUseInv DEF Consume
<1>3. Rooted(t)'  BY <1>2 DEF Rooted, Between
<1> QED  BY <1>1, <1>2, <1>3, OtherRooted DEF SyncAll
==============================================================================
