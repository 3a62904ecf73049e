------------------------------ MODULE ThreadPool -----------------------------
(***************************************************************************)
(* ThreadPool.cpp: the queue of goal loops, the workers that run them, and *)
(* join(), on which wait() and get() of WorkerCHR rest.  A step is one     *)
(* atomic access to counter_, one critical section under queue_mutex_, or  *)
(* one notification.                                                       *)
(***************************************************************************)
EXTENDS Integers, Sequences, FiniteSets

CONSTANTS
  Client, Worker,
  Scripts,      \* the programs: what each client does, "join", "stop", or enqueue a task
  Task, Spawn   \* Spawn[x]: the tasks that task x enqueues while it runs

Thread == Client \cup Worker
Op == Task \cup {"join", "stop"}

ASSUME PoolAssumption ==
  /\ IsFiniteSet(Worker) /\ IsFiniteSet(Client) /\ Client \cap Worker = {}
  /\ {"join", "stop"} \cap Task = {}
  /\ Scripts \subseteq [Client -> Seq(Op)] /\ Spawn \in [Task -> Seq(Task)]

VARIABLES
  counter,            \* counter_
  tasks, stop,        \* tasks_ and stop_
  mutex,              \* the thread in the middle of a critical section, if any
  asleep, joining,    \* the threads waiting on condition_ and on join_
  pc,
  todo                \* per thread: what is left of its script or of its task

vars == <<counter, tasks, stop, mutex, asleep, joining, pc, todo>>

Free == {}            \* value of mutex: the set of its holders

TypeOK ==
  /\ counter \in Nat /\ tasks \in Seq(Task) /\ stop \in BOOLEAN
  /\ mutex \in SUBSET Client /\ asleep \in SUBSET Worker /\ joining \in SUBSET Client
  /\ pc \in [Thread -> {"ready", "push", "wake", "idle", "finish", "exited", "block", "joining"}]
  /\ todo \in [Thread -> Seq(Op)]

Init ==
  /\ counter = 0 /\ tasks = << >> /\ stop = FALSE
  /\ mutex = Free /\ asleep = {} /\ joining = {}
  /\ pc = [t \in Thread |-> IF t \in Client THEN "ready" ELSE "idle"]
  /\ \E script \in Scripts :
       todo = [t \in Thread |-> IF t \in Client THEN script[t] ELSE << >>]

Jump(t, p) == pc' = [pc EXCEPT ![t] = p]
Calls(t, ops) == pc[t] = "ready" /\ todo[t] # << >> /\ Head(todo[t]) \in ops
Done(t) == todo' = [todo EXCEPT ![t] = Tail(@)]

(***************************************************************************)
(* enqueue: count, push under the mutex, notify one sleeping worker.       *)
(***************************************************************************)
Count(t) ==
  /\ Calls(t, Task)
  /\ counter' = counter + 1
  /\ Jump(t, "push")
  /\ UNCHANGED <<tasks, stop, mutex, asleep, joining, todo>>

Push(t) ==
  /\ pc[t] = "push" /\ mutex = Free
  /\ tasks' = Append(tasks, Head(todo[t]))
  /\ Done(t) /\ Jump(t, "wake")
  /\ UNCHANGED <<counter, stop, mutex, asleep, joining>>

\* A variant of enqueue that notifies no one.
WakeNobody(t) ==
  /\ pc[t] = "wake"
  /\ Jump(t, "ready")
  /\ UNCHANGED <<counter, tasks, stop, mutex, asleep, joining, todo>>

Wake(t) ==
  /\ pc[t] = "wake"
  /\ asleep' \in (IF asleep = {} THEN {{}} ELSE {asleep \ {w} : w \in asleep})
  /\ Jump(t, "ready")
  /\ UNCHANGED <<counter, tasks, stop, mutex, joining, todo>>

(***************************************************************************)
(* join: the predicate is evaluated under the mutex, which blocking on     *)
(* join_ releases.  A woken thread starts over.                            *)
(***************************************************************************)
\* A variant that waits for the queue only.
JoinQueue(c) ==
  /\ Calls(c, {"join"}) /\ mutex = Free /\ tasks = << >>
  /\ Done(c)
  /\ UNCHANGED <<counter, tasks, stop, mutex, asleep, joining, pc>>

JoinReturns(c) ==
  /\ Calls(c, {"join"}) /\ mutex = Free /\ ~(counter > 0)
  /\ Done(c)
  /\ UNCHANGED <<counter, tasks, stop, mutex, asleep, joining, pc>>

JoinFails(c) ==
  /\ Calls(c, {"join"}) /\ mutex = Free /\ counter > 0
  /\ mutex' = {c} /\ Jump(c, "block")
  /\ UNCHANGED <<counter, tasks, stop, asleep, joining, todo>>

Block(c) ==
  /\ pc[c] = "block"
  /\ mutex' = Free /\ joining' = joining \cup {c} /\ Jump(c, "joining")
  /\ UNCHANGED <<counter, tasks, stop, asleep, todo>>

JoinWakes(c) ==
  /\ pc[c] = "joining" /\ c \notin joining
  /\ Jump(c, "ready")
  /\ UNCHANGED <<counter, tasks, stop, mutex, asleep, joining, todo>>

\* A variant that drops the queue and leaves counter_ as it is.
StopClears(c) ==
  /\ Calls(c, {"stop"}) /\ mutex = Free
  /\ stop' = TRUE /\ asleep' = {} /\ tasks' = << >>
  /\ Done(c)
  /\ UNCHANGED <<counter, mutex, joining, pc>>

\* stop, and the first half of the destructor: what is still queued stays there.
Stop(c) ==
  /\ Calls(c, {"stop"}) /\ mutex = Free
  /\ stop' = TRUE /\ asleep' = {}
  /\ Done(c)
  /\ UNCHANGED <<counter, tasks, mutex, joining, pc>>

(***************************************************************************)
(* Worker::operator().  Every pop happens under the mutex, so that a       *)
(* worker that saw a task gets one.                                        *)
(***************************************************************************)
Sleep(w) ==
  /\ pc[w] = "idle" /\ w \notin asleep /\ mutex = Free /\ ~stop /\ tasks = << >>
  /\ asleep' = asleep \cup {w}
  /\ UNCHANGED <<counter, tasks, stop, mutex, joining, pc, todo>>

Leave(w) ==
  /\ pc[w] = "idle" /\ w \notin asleep /\ mutex = Free /\ stop
  /\ Jump(w, "exited")
  /\ UNCHANGED <<counter, tasks, stop, mutex, asleep, joining, todo>>

Pop(w) ==
  /\ pc[w] = "idle" /\ w \notin asleep /\ mutex = Free /\ ~stop /\ tasks # << >>
  /\ todo' = [todo EXCEPT ![w] = Spawn[Head(tasks)]]
  /\ tasks' = Tail(tasks)
  /\ Jump(w, "ready")
  /\ UNCHANGED <<counter, stop, mutex, asleep, joining>>

\* A variant that takes a task off counter_ before it runs and after it.
FinishTwice(w) ==
  /\ pc[w] = "ready" /\ todo[w] = << >>
  /\ counter' = counter - 2
  /\ Jump(w, "finish")
  /\ UNCHANGED <<tasks, stop, mutex, asleep, joining, todo>>

\* The task has ended: fetch_sub, then notify_all, neither under the mutex.
Finish(w) ==
  /\ pc[w] = "ready" /\ todo[w] = << >>
  /\ counter' = counter - 1
  /\ Jump(w, "finish")
  /\ UNCHANGED <<tasks, stop, mutex, asleep, joining, todo>>

NotifyJoin(w) ==
  /\ pc[w] = "finish"
  /\ joining' = {} /\ Jump(w, "idle")
  /\ UNCHANGED <<counter, tasks, stop, mutex, asleep, todo>>

\* A condition variable may wake a thread for no reason.
Spurious(t) ==
  /\ t \in asleep \cup joining
  /\ asleep' = asleep \ {t} /\ joining' = joining \ {t}
  /\ UNCHANGED <<counter, tasks, stop, mutex, pc, todo>>

ClientStep(c) ==
  \/ Count(c) \/ Push(c) \/ Wake(c) \/ JoinReturns(c) \/ JoinFails(c) \/ Block(c)
  \/ JoinWakes(c) \/ Stop(c)

WorkerStep(w) ==
  \/ Count(w) \/ Push(w) \/ Wake(w) \/ Sleep(w) \/ Leave(w) \/ Pop(w) \/ Finish(w) \/ NotifyJoin(w)

Steps == (\E c \in Client : ClientStep(c)) \/ (\E w \in Worker : WorkerStep(w))
Next == Steps \/ \E t \in Thread : Spurious(t)

Spec == Init /\ [][Next]_vars

\* Every thread keeps running, and spurious wake-ups come to an end: progress may
\* neither depend on them nor be starved by them.  The mutex is then not contended
\* for ever, and weak fairness is enough.
FairSpec ==
  /\ Spec /\ <>[][Steps]_vars
  /\ \A c \in Client : WF_vars(ClientStep(c))
  /\ \A w \in Worker : WF_vars(WorkerStep(w))

(***************************************************************************)
(* Properties.                                                             *)
(***************************************************************************)
Enqueuing == {t \in Thread : pc[t] = "push"}
Running == {w \in Worker : pc[w] \in {"ready", "push", "wake"}}

\* counter_ is the number of tasks that have been counted and not ended, queued or
\* running, at every interleaving of enqueue, the workers and stop.
CounterExact == counter = Cardinality(Enqueuing) + Len(tasks) + Cardinality(Running)

\* When join returns no task is queued or running, nor about to be queued: get()
\* then reads a store that nothing changes.
Quiet == tasks = << >> /\ Running = {} /\ Enqueuing = {}
JoinSound == [][(\E c \in Client : JoinReturns(c)) => Quiet]_vars

\* A queued task does not wait for ever while no one stops the pool: no wake-up of
\* condition_ is lost.
TasksRun == []<>(stop \/ tasks = << >>)

\* A thread in join goes on once the pool is quiet for good: worker.wait() at the
\* end of every test (test_mpi.h:107) returns.
JoinEnds == \A c \in Client : (pc[c] \in {"block", "joining"}) ~> (pc[c] = "ready" \/ ~Quiet)
==============================================================================
