--------------------------- MODULE ThreadPoolProofs --------------------------
(***************************************************************************)
(* Proofs about ThreadPool, for any clients, workers, scripts and tasks.   *)
(***************************************************************************)
EXTENDS ThreadPool, FiniteSetTheorems, SequenceTheorems, TLAPS

\* A thread about to push has a task to push.
PushInv == \A t \in Thread : pc[t] = "push" => todo[t] # << >> /\ Head(todo[t]) \in Task

IInv == TypeOK /\ PushInv /\ CounterExact

\* What is counted is finite.
LEMMA Finite ==
  /\ IsFiniteSet(Enqueuing) /\ Cardinality(Enqueuing) \in Nat
  /\ IsFiniteSet(Running) /\ Cardinality(Running) \in Nat
<1>1. IsFiniteSet(Thread)  BY FS_Union, PoolAssumption DEF Thread
<1>2. Enqueuing \in SUBSET Thread /\ Running \in SUBSET Worker  BY DEF Enqueuing, Running
<1> QED  BY <1>1, <1>2, FS_Subset, FS_CardinalityType, PoolAssumption

LEMMA InitInv == ASSUME Init PROVE IInv
<1>1. \A script \in Scripts : \A t \in Thread : (IF t \in Client THEN script[t] ELSE << >>) \in Seq(Op)
  BY PoolAssumption, EmptySeq
<1>2. TypeOK
  <2>1. todo \in [Thread -> Seq(Op)]
    <3>1. PICK script \in Scripts : todo = [t \in Thread |-> IF t \in Client THEN script[t] ELSE << >>]
      BY DEF Init
    <3> QED  BY <1>1, <3>1
  <2>2. pc \in [Thread -> {"ready", "push", "wake", "idle", "finish", "exited", "block", "joining"}]
    BY DEF Init
  <2>3. tasks \in Seq(Task)  BY EmptySeq DEF Init
  <2>4. counter \in Nat  BY DEF Init
  <2>6. stop \in BOOLEAN  BY Zenon DEF Init
  <2>5. mutex \in SUBSET Client /\ asleep \in SUBSET Worker /\ joining \in SUBSET Client
    BY DEF Init, Free
  <2> QED  BY <2>1, <2>2, <2>3, <2>4, <2>5, <2>6 DEF TypeOK
<1>3. Enqueuing = {} /\ Running = {}
  BY PoolAssumption DEF Init, Enqueuing, Running, Thread
<1>4. Cardinality(Enqueuing) = 0 /\ Cardinality(Running) = 0  BY <1>3, FS_EmptySet
<1>5. PushInv  BY PoolAssumption DEF Init, PushInv, Thread
<1> QED  BY <1>2, <1>4, <1>5 DEF Init, IInv, CounterExact

\* A thread that moves from one step to another changes the counted sets by itself
\* at most.
Active == {"ready", "push", "wake"}
Delta(before, after) == IF after /\ ~before THEN 1 ELSE IF before /\ ~after THEN -1 ELSE 0

LEMMA MoveCounts ==
  ASSUME TypeOK, NEW t \in Thread, NEW p, Jump(t, p)
  PROVE  /\ Cardinality(Enqueuing') = Cardinality(Enqueuing) + Delta(pc[t] = "push", p = "push")
         /\ Cardinality(Running') = Cardinality(Running)
              + IF t \in Worker THEN Delta(pc[t] \in Active, p \in Active) ELSE 0
<1>1. Enqueuing' = IF p = "push" THEN Enqueuing \cup {t} ELSE Enqueuing \ {t}
  BY DEF TypeOK, Enqueuing, Jump
<1>2. t \in Enqueuing <=> pc[t] = "push"  BY DEF Enqueuing
<1>3. Cardinality(Enqueuing') = Cardinality(Enqueuing) + Delta(pc[t] = "push", p = "push")
  <2>1. CASE p = "push"
    <3>1. Cardinality(Enqueuing \cup {t}) =
            IF t \in Enqueuing THEN Cardinality(Enqueuing) ELSE Cardinality(Enqueuing) + 1
      BY Finite, FS_AddElement
    <3>2. Enqueuing' = Enqueuing \cup {t}  BY <1>1, <2>1
    <3> QED  BY <1>2, <2>1, <3>1, <3>2, Finite DEF Delta
  <2>2. CASE p # "push"
    <3>1. Cardinality(Enqueuing \ {t}) =
            IF t \in Enqueuing THEN Cardinality(Enqueuing) - 1 ELSE Cardinality(Enqueuing)
      BY Finite, FS_RemoveElement
    <3>2. Enqueuing' = Enqueuing \ {t}  BY <1>1, <2>2
    <3> QED  BY <1>2, <2>2, <3>1, <3>2, Finite DEF Delta
  <2> QED  BY <2>1, <2>2
<1>4. CASE t \notin Worker
  <2>1. Running' = Running  BY <1>4 DEF TypeOK, Running, Jump, Thread
  <2> QED  BY <1>3, <1>4, <2>1, Finite
<1>5. CASE t \in Worker
  <2>1. Running' = IF p \in Active THEN Running \cup {t} ELSE Running \ {t}
    BY <1>5 DEF TypeOK, Running, Jump, Thread, Active
  <2>2. t \in Running <=> pc[t] \in Active  BY <1>5 DEF Running, Active
  <2>3. Cardinality(Running') = Cardinality(Running) + Delta(pc[t] \in Active, p \in Active)
    <3>1. CASE p \in Active
      <4>1. Cardinality(Running \cup {t}) =
              IF t \in Running THEN Cardinality(Running) ELSE Cardinality(Running) + 1
        BY Finite, FS_AddElement
      <4>2. Running' = Running \cup {t}  BY <2>1, <3>1
      <4> QED  BY <2>2, <3>1, <4>1, <4>2, Finite DEF Delta
    <3>2. CASE p \notin Active
      <4>1. Cardinality(Running \ {t}) =
              IF t \in Running THEN Cardinality(Running) - 1 ELSE Cardinality(Running)
        BY Finite, FS_RemoveElement
      <4>2. Running' = Running \ {t}  BY <2>1, <3>2
      <4> QED  BY <2>2, <3>2, <4>1, <4>2, Finite DEF Delta
    <3> QED  BY <3>1, <3>2
  <2> QED  BY <1>3, <1>5, <2>3
<1> QED  BY <1>4, <1>5

\* What follows an operation in a script is again a script.
LEMMA DoneType ==
  ASSUME TypeOK, NEW t \in Thread, todo[t] # << >>, Done(t)
  PROVE  todo' \in [Thread -> Seq(Op)]
<1>1. todo[t] \in Seq(Op)  BY DEF TypeOK
<1>2. Tail(todo[t]) \in Seq(Op)  BY <1>1, HeadTailProperties
<1> QED  BY <1>2 DEF TypeOK, Done

\* The steps of enqueue keep the invariant, whoever takes them.
LEMMA EnqueueInv ==
  ASSUME IInv, NEW t \in Thread, Count(t) \/ Push(t) \/ Wake(t)
  PROVE  IInv'
<1> USE DEF IInv
<1>1. CASE Count(t)
  <2>1. TypeOK'  BY <1>1 DEF TypeOK, Count, Jump
  <2>2. PushInv'  BY <1>1 DEF TypeOK, PushInv, Count, Calls, Jump
  <2>3. pc[t] = "ready" /\ Jump(t, "push")  BY <1>1 DEF Count, Calls
  <2>4. CounterExact'
    BY <1>1, <2>3, MoveCounts, Finite DEF TypeOK, CounterExact, Count, Delta, Active
  <2> QED  BY <2>1, <2>2, <2>4
<1>2. CASE Push(t)
  <2>1. tasks' \in Seq(Task) /\ Len(tasks') = Len(tasks) + 1 /\ Len(tasks) \in Nat
    BY <1>2, AppendProperties, LenProperties DEF TypeOK, PushInv, Push
  <2>2. TypeOK'  BY <1>2, <2>1, DoneType DEF TypeOK, PushInv, Push, Jump
  <2>3. PushInv'  BY <1>2 DEF TypeOK, PushInv, Push, Jump, Done
  <2>4. pc[t] = "push" /\ Jump(t, "wake")  BY <1>2 DEF Push
  <2>5. CounterExact'
    <3>1. Cardinality(Enqueuing') = Cardinality(Enqueuing) - 1  BY <2>4, MoveCounts, Finite DEF Delta
    <3>2. Cardinality(Running') = Cardinality(Running)
      BY <2>4, MoveCounts, Finite DEF Delta, Active
    <3>3. counter' = counter  BY <1>2 DEF Push
    <3> QED  BY <2>1, <3>1, <3>2, <3>3, Finite DEF CounterExact
  <2> QED  BY <2>2, <2>3, <2>5
<1>3. CASE Wake(t)
  <2>1. TypeOK'  BY <1>3 DEF TypeOK, Wake, Jump
  <2>2. PushInv'  BY <1>3 DEF TypeOK, PushInv, Wake, Jump
  <2>3. pc[t] = "wake" /\ Jump(t, "ready")  BY <1>3 DEF Wake
  <2>4. CounterExact'
    BY <1>3, <2>3, MoveCounts, Finite DEF TypeOK, CounterExact, Wake, Delta, Active
  <2> QED  BY <2>1, <2>2, <2>4
<1> QED  BY <1>1, <1>2, <1>3

\* So do the other steps of a client.
LEMMA ClientInv ==
  ASSUME IInv, NEW c \in Client,
         JoinReturns(c) \/ JoinFails(c) \/ Block(c) \/ JoinWakes(c) \/ Stop(c)
  PROVE  IInv'
<1> USE DEF IInv
<1>1. c \in Thread /\ c \notin Worker  BY PoolAssumption DEF Thread
<1>2. CASE JoinReturns(c) \/ Stop(c)
  <2>1. pc' = pc /\ tasks' = tasks /\ counter' = counter  BY <1>2 DEF JoinReturns, Stop
  <2>2. todo[c] # << >> /\ Done(c) /\ pc[c] = "ready"  BY <1>2 DEF JoinReturns, Stop, Calls
  <2>3. TypeOK'  BY <1>1, <1>2, <2>1, <2>2, DoneType DEF TypeOK, JoinReturns, Stop
  <2>4. PushInv'  BY <2>1, <2>2 DEF TypeOK, PushInv, Done
  <2>5. CounterExact'  BY <2>1 DEF CounterExact, Enqueuing, Running
  <2> QED  BY <2>3, <2>4, <2>5
<1>3. CASE JoinFails(c) \/ Block(c) \/ JoinWakes(c)
  <2>1. TypeOK'  BY <1>1, <1>3 DEF TypeOK, JoinFails, Block, JoinWakes, Jump, Free
  <2>2. PushInv'  BY <1>1, <1>3 DEF TypeOK, PushInv, JoinFails, Block, JoinWakes, Jump
  <2>3. /\ tasks' = tasks /\ counter' = counter /\ pc[c] # "push"
        /\ \E p \in {"block", "joining", "ready"} : Jump(c, p)
    BY <1>3 DEF JoinFails, Block, JoinWakes, Calls
  <2>4. PICK p \in {"block", "joining", "ready"} : Jump(c, p)  BY <2>3
  <2>5. Cardinality(Enqueuing') = Cardinality(Enqueuing) /\ Cardinality(Running') = Cardinality(Running)
    BY <1>1, <2>3, <2>4, MoveCounts, Finite DEF Delta
  <2> QED  BY <2>1, <2>2, <2>3, <2>5 DEF CounterExact
<1> QED  BY <1>2, <1>3

\* And those of a worker.
LEMMA WorkerInv ==
  ASSUME IInv, NEW w \in Worker,
         Sleep(w) \/ Leave(w) \/ Pop(w) \/ Finish(w) \/ NotifyJoin(w)
  PROVE  IInv'
<1> USE DEF IInv
<1>1. w \in Thread  BY DEF Thread
<1>2. CASE Sleep(w)
  BY <1>2 DEF TypeOK, PushInv, CounterExact, Enqueuing, Running, Sleep
<1>3. CASE Leave(w) \/ NotifyJoin(w)
  <2>1. TypeOK'  BY <1>1, <1>3 DEF TypeOK, Leave, NotifyJoin, Jump
  <2>2. PushInv'  BY <1>1, <1>3 DEF TypeOK, PushInv, Leave, NotifyJoin, Jump
  <2>3. /\ tasks' = tasks /\ counter' = counter /\ pc[w] \notin Active
        /\ \E p \in {"exited", "idle"} : Jump(w, p)
    BY <1>3 DEF Leave, NotifyJoin, Active
  <2>4. PICK p \in {"exited", "idle"} : Jump(w, p)  BY <2>3
  <2>5. Cardinality(Enqueuing') = Cardinality(Enqueuing) /\ Cardinality(Running') = Cardinality(Running)
    BY <1>1, <2>3, <2>4, MoveCounts, Finite DEF Delta, Active
  <2> QED  BY <2>1, <2>2, <2>3, <2>5 DEF CounterExact
<1>4. CASE Pop(w)
  <2>1. /\ tasks # << >> /\ tasks \in Seq(Task) /\ tasks' = Tail(tasks)
        /\ todo' = [todo EXCEPT ![w] = Spawn[Head(tasks)]]
    BY <1>4 DEF TypeOK, Pop
  <2>2. Head(tasks) \in Task /\ tasks' \in Seq(Task) /\ Len(tasks') = Len(tasks) - 1 /\ Len(tasks) \in Nat
    BY <2>1, HeadTailProperties, LenProperties
  <2>3. Spawn[Head(tasks)] \in Seq(Op)
    <3>1. Spawn[Head(tasks)] \in Seq(Task)  BY <2>2, PoolAssumption
    <3> QED  BY <3>1, SeqMonotonic DEF Op
  <2>4. TypeOK'  BY <1>1, <1>4, <2>2, <2>3 DEF TypeOK, Pop, Jump
  <2>5. PushInv'  BY <1>1, <1>4 DEF TypeOK, PushInv, Pop, Jump
  <2>6. pc[w] = "idle" /\ Jump(w, "ready") /\ counter' = counter  BY <1>4 DEF Pop
  <2>7. /\ Cardinality(Enqueuing') = Cardinality(Enqueuing)
        /\ Cardinality(Running') = Cardinality(Running) + 1
    BY <1>1, <2>6, MoveCounts, Finite DEF Delta, Active
  <2>8. CounterExact'  BY <2>2, <2>6, <2>7, Finite DEF CounterExact
  <2> QED  BY <2>4, <2>5, <2>8
<1>5. CASE Finish(w)
  <2>2. PushInv'  BY <1>1, <1>5 DEF TypeOK, PushInv, Finish, Jump
  <2>3. pc[w] = "ready" /\ Jump(w, "finish") /\ tasks' = tasks /\ counter' = counter - 1
    BY <1>5 DEF Finish
  <2>4. /\ Cardinality(Enqueuing') = Cardinality(Enqueuing)
        /\ Cardinality(Running') = Cardinality(Running) - 1
    BY <1>1, <2>3, MoveCounts, Finite DEF Delta, Active
  <2>5. Len(tasks) \in Nat  BY LenProperties DEF TypeOK
  <2>6. Cardinality(Running) # 0
    <3>1. w \in Running  BY <2>3 DEF Running
    <3> QED  BY <3>1, Finite, FS_EmptySet
  <2>7. counter' \in Nat  BY <2>3, <2>5, <2>6, Finite DEF CounterExact
  <2>1. TypeOK'  BY <1>1, <1>5, <2>7 DEF TypeOK, Finish, Jump
  <2> QED  BY <2>1, <2>2, <2>3, <2>4, <2>5, Finite DEF CounterExact
<1> QED  BY <1>2, <1>3, <1>4, <1>5

LEMMA NextInv == ASSUME IInv, [Next]_vars PROVE IInv'
<1>1. CASE UNCHANGED vars
  BY <1>1 DEF vars, IInv, TypeOK, PushInv, CounterExact, Enqueuing, Running
<1>2. ASSUME NEW c \in Client, ClientStep(c) PROVE IInv'
  BY <1>2, EnqueueInv, ClientInv DEF ClientStep, Thread
<1>3. ASSUME NEW w \in Worker, WorkerStep(w) PROVE IInv'
  BY <1>3, EnqueueInv, WorkerInv DEF WorkerStep, Thread
<1>4. ASSUME NEW t \in Thread, Spurious(t) PROVE IInv'
  BY <1>4 DEF IInv, TypeOK, PushInv, CounterExact, Enqueuing, Running, Spurious
<1> QED  BY <1>1, <1>2, <1>3, <1>4 DEF Next, Steps

\* Every value of the state has its type.
THEOREM TypeCorrect == Spec => []TypeOK
<1>1. Init => IInv  BY InitInv
<1>2. IInv /\ [Next]_vars => IInv'  BY NextInv
<1>3. IInv => TypeOK  BY DEF IInv
<1> QED  BY <1>1, <1>2, <1>3, PTL DEF Spec

\* counter_ counts the tasks that have not ended (ThreadPool.cpp:9-17, 50-78).
THEOREM CounterIsExact == Spec => []CounterExact
<1>1. Init => IInv  BY InitInv
<1>2. IInv /\ [Next]_vars => IInv'  BY NextInv
<1>3. IInv => CounterExact  BY DEF IInv
<1> QED  BY <1>1, <1>2, <1>3, PTL DEF Spec

\* A join that returns found the pool quiet (ThreadPool.cpp:42-46).
THEOREM JoinIsSound == Spec => JoinSound
<1>1. Init => IInv  BY InitInv
<1>2. IInv /\ [Next]_vars => IInv'  BY NextInv
<1>3. IInv => [(\E c \in Client : JoinReturns(c)) => Quiet]_vars
  <2> SUFFICES ASSUME IInv, NEW c \in Client, JoinReturns(c) PROVE Quiet  OBVIOUS
  <2>1. counter \in Nat /\ ~(counter > 0)  BY DEF IInv, TypeOK, JoinReturns
  <2>2. tasks \in Seq(Task) /\ Len(tasks) \in Nat  BY LenProperties DEF IInv, TypeOK
  <2>3. Cardinality(Enqueuing) = 0 /\ Len(tasks) = 0 /\ Cardinality(Running) = 0
    BY <2>1, <2>2, Finite DEF IInv, CounterExact
  <2>4. Enqueuing = {} /\ Running = {}  BY <2>3, Finite, FS_EmptySet
  <2>5. tasks = << >>  BY <2>2, <2>3, EmptySeq
  <2> QED  BY <2>4, <2>5 DEF Quiet
<1> QED  BY <1>1, <1>2, <1>3, PTL DEF Spec, JoinSound
==============================================================================
