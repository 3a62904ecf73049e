------------------------------- MODULE Uncounted -----------------------------
(***************************************************************************)
(* The uncounted engine of WorkerCHR.cpp: every constraint is an object of *)
(* its own with a state_, the store enters it under its name and under its *)
(* arguments (Store::insert), and queue_ holds the goals still to be tried.*)
(* run_parallel takes a batch of goals from the queue, tries each in a     *)
(* thread of its own and waits for all of them; async1 and sync1 try one   *)
(* goal in a thread of the pool or in the caller.  How a goal is tried is  *)
(* in UncountedSearch.                                                     *)
(*                                                                         *)
(* As in Engine, a step is one access to shared state with the local code  *)
(* up to the next one.  compare_exchange_weak fails only on another value, *)
(* as it does where it is one locked instruction.                          *)
(***************************************************************************)
EXTENDS Checklist

CONSTANTS
  Client, Worker,   \* the program's threads and those of the pool
  Slots,            \* the threads of a batch, <<first, ..., limit-th>>
  Driver,           \* the client that may call run_parallel after its other calls
  Setups,           \* the programs: [script, mode, runs], a script the calls of every
                    \* client, and runs whether the driver calls run_parallel
  Body(_, _)        \* Body(r, cs): the calls the body of rule r makes for cs

\* A key of store2_ is the XOR of the hashes, in which equal values cancel; store_
\* has the entries without arguments.
Xor(k, args) == [name |-> k.name, args |-> args, odd |-> {x \in DOMAIN k.vals : k.vals[x] % 2 = 1}]
Entry(c, S) == Xor(Key(c, S), S # {})
Entries == UNION {{Entry(c, S) : S \in SUBSET DOMAIN c.args} : c \in Con}

Modes == {"PESSIMISTIC", "OPTIMISTIC", "PARTIAL"}
Limit == Len(Slots)
Slot == {Slots[i] : i \in DOMAIN Slots}
Thread == Client \cup Worker \cup Slot
Call == [op : {"add", "async", "sync"}, con : Con, keep : BOOLEAN]

ASSUME UncountedAssumption ==
  /\ IsFiniteSet(Thread) /\ Driver \in Client
  /\ Slots \in Seq(Slot) /\ Slots # << >> /\ \A i, j \in DOMAIN Slots : Slots[i] = Slots[j] => i = j
  /\ Client \cap Worker = {} /\ Slot \cap (Client \cup Worker) = {}
  /\ \A x \in Setups : x.script \in [Client -> Seq(Call)] /\ x.mode \in Modes /\ x.runs \in BOOLEAN
  /\ \A r \in RuleId : \A cs \in [Heads(r) -> Con] :
       (\A h \in Heads(r) : cs[h].name = HeadName(r, h)) =>
          Body(r, cs) \in Seq({k \in Call : k.op # "sync"})

VARIABLES
  state,            \* state_ of every constraint
  bucket,           \* store_ and store2_
  queue, tasks,     \* queue_; the goal loops waiting in the pool
  mode,             \* the mode all calls of the program use
  batch,            \* of run_parallel: whether it is still to be called, how many
                    \* goals were taken, and handles
  pc, calls, job,   \* per thread: next step, calls still to make, the goal it tries
  new, keys,        \* per thread: the constraint it enters, argument sets left
  list, cur,        \* per thread: MatchChecklist, and position of the scan
  held              \* per thread: the constraints it has claimed

store == <<con, state, bucket>>
search == <<list, cur, held>>
local == <<pc, calls, job, new, keys, search>>
vars == <<store, queue, tasks, mode, batch, local>>

\* What a thread knows of its goal: who asked (op), saw_claimed, the rounds left
\* of a partial restart, and the pair that try_goal_* returned.
NewJob(s, op) == [goal |-> s, op |-> op, saw |-> FALSE, left |-> 0, fired |-> FALSE, retry |-> FALSE]
NoJob == NewJob(None, "batch")
NoNew == [goal |-> None, op |-> "add"]
NoList == [rule |-> 0, m |-> << >>, used |-> << >>, eat |-> << >>, spare |-> {}]
NoKey == [name |-> "", args |-> FALSE, odd |-> {}]
NoScan == [bkt |-> NoKey, off |-> 1, at |-> 1]

PC == {"ready", "insert", "index", "push", "enqueue", "check", "try", "stolen", "stolenpending",
       "again", "open", "look", "claim", "saw", "giveback", "commit", "rollback", "consume", "body",
       "fill", "peek", "peekclaimed", "requeue", "collect", "triggered", "retry",
       "passiveclaimed", "addback"}

\* Every constraint a thread, a bucket or a queue mentions has been created, and
\* a checklist holds no constraint twice unless it is without claims.
TypeOK ==
  /\ con \in Seq(Con) /\ Len(con) <= MaxStatus
  /\ state \in [Status -> {"PENDING", "CLAIMED", "CONSUMED"}]
  /\ bucket \in [Entries -> Seq(Known)] /\ queue \in Seq(Known) /\ tasks \in Seq(Known)
  /\ mode \in Modes
  /\ batch \in [due : BOOLEAN, taken : 0..Limit, handles : Seq(Slot)]
  /\ pc \in [Thread -> PC] /\ calls \in [Thread -> Seq(Call)]
  /\ job \in [Thread -> [goal : Maybe, op : {"batch", "async", "sync"}, saw : BOOLEAN,
                         left : 0..3, fired : BOOLEAN, retry : BOOLEAN]]
  /\ new \in [Thread -> [goal : Maybe, op : {"add", "async", "sync"}]]
  /\ keys \in [Thread -> SUBSET SUBSET (1..4)]
  /\ list \in [Thread -> [rule : Nat, m : Seq(Maybe), used : Seq(Known), eat : Seq(Known),
                          spare : SUBSET Nat]]
  /\ cur \in [Thread -> [bkt : Entries \cup {NoKey}, off : Nat \ {0}, at : Nat \ {0}]]
  /\ held \in [Thread -> SUBSET Known]

Init ==
  /\ con = << >>
  /\ state = [s \in Status |-> "PENDING"]
  /\ bucket = [k \in Entries |-> << >>]
  /\ queue = << >> /\ tasks = << >>
  /\ \E x \in Setups :
       /\ mode = x.mode
       /\ calls = [t \in Thread |-> IF t \in Client THEN x.script[t] ELSE << >>]
       /\ batch = [due |-> x.runs, taken |-> 0, handles |-> << >>]
  /\ pc = [t \in Thread |-> "ready"]
  /\ job = [t \in Thread |-> NoJob]
  /\ new = [t \in Thread |-> NoNew]
  /\ keys = [t \in Thread |-> {}]
  /\ list = [t \in Thread |-> NoList]
  /\ cur = [t \in Thread |-> NoScan]
  /\ held = [t \in Thread |-> {}]

In(q) == {q[i] : i \in DOMAIN q}
Bucket(k) == IF k \in Entries THEN bucket[k] ELSE << >>
Locked(k) == \E t \in Thread : cur[t].bkt = k
Goal(t) == job[t].goal
Jump(t, p) == pc' = [pc EXCEPT ![t] = p]

(***************************************************************************)
(* Adding a constraint: get_instance gives it its id, Store::insert enters *)
(* it in one bucket after the other, then it is pushed to queue_.  An      *)
(* insertion waits for the scans that hold an accessor on the bucket.      *)
(***************************************************************************)
\* get_instance.  MaxStatus bounds the constraints of one execution.
Create(t) ==
  /\ pc[t] = "ready" /\ calls[t] # << >> /\ Len(con) < MaxStatus
  /\ con' = Append(con, Head(calls[t]).con)
  /\ new' = [new EXCEPT ![t] = [goal |-> Len(con) + 1, op |-> Head(calls[t]).op]]
  /\ Jump(t, "insert")
  /\ UNCHANGED <<state, bucket, queue, tasks, mode, batch, calls, job, keys, search>>

Insert(t) ==
  LET c == con[new[t].goal]
  IN  /\ pc[t] = "insert"
      /\ \E k \in {Entry(c, {})} :
           ~Locked(k) /\ bucket' = [bucket EXCEPT ![k] = Append(@, new[t].goal)]
      /\ keys' = [keys EXCEPT ![t] = ArgSets(c)]
      /\ calls' = [calls EXCEPT ![t] = Tail(@)]
      /\ Jump(t, "index")
      /\ UNCHANGED <<con, state, queue, tasks, mode, batch, job, new, search>>

Index(t) ==
  /\ pc[t] = "index"
  /\ \E S \in {T \in keys[t] : \A U \in keys[t] \ {T} : Before(T, U)} :
       \E k \in {Entry(con[new[t].goal], S)} :
         /\ ~Locked(k)
         /\ bucket' = [bucket EXCEPT ![k] = Append(@, new[t].goal)]
         /\ keys' = [keys EXCEPT ![t] = @ \ {S}]
         /\ Jump(t, IF keys[t] = {S} THEN "push" ELSE "index")
  /\ UNCHANGED <<con, state, queue, tasks, mode, batch, calls, job, new, search>>

\* queue_.push; after it add_constraint returns, async1 enqueues its loop, and
\* sync1 starts its own.
Push(t) ==
  LET s == new[t].goal
      op == new[t].op
  IN  /\ pc[t] = "push"
      /\ queue' = Append(queue, s)
      /\ Jump(t, CASE op = "add" -> "ready" [] op = "async" -> "enqueue" [] OTHER -> "check")
      /\ job' = IF op = "sync" THEN [job EXCEPT ![t] = NewJob(s, "sync")] ELSE job
      /\ new' = IF op = "async" THEN new ELSE [new EXCEPT ![t] = NoNew]
      /\ UNCHANGED <<store, tasks, mode, batch, calls, keys, search>>

Enqueue(t) ==
  /\ pc[t] = "enqueue"
  /\ tasks' = Append(tasks, new[t].goal)
  /\ new' = [new EXCEPT ![t] = NoNew]
  /\ Jump(t, "ready")
  /\ UNCHANGED <<store, queue, mode, batch, calls, job, keys, search>>

(***************************************************************************)
(* The goal loops of async1 and sync1.  A thread of the pool or of a batch *)
(* is over with its goal when the body's calls are made.                   *)
(***************************************************************************)
Over(t) == pc[t] = "ready" /\ calls[t] = << >> /\ Goal(t) # None

\* The end of try_goal_*, with what its caller does next: async1 goes on only to
\* retry, sync1 until a rule fired.
Return(t, fired, retry) ==
  /\ job' = [job EXCEPT ![t] = IF fired /\ @.op = "sync" THEN NoJob
                               ELSE [NewJob(@.goal, @.op) EXCEPT !.fired = fired, !.retry = retry]]
  /\ Jump(t, IF ~fired /\ (job[t].op = "sync" \/ (job[t].op = "async" /\ retry))
             THEN "check" ELSE "ready")
  /\ list' = [list EXCEPT ![t] = NoList]
  /\ cur' = [cur EXCEPT ![t] = NoScan]

TakeTask(w) ==
  /\ w \in Worker /\ pc[w] = "ready" /\ calls[w] = << >> /\ Goal(w) = None /\ tasks # << >>
  /\ job' = [job EXCEPT ![w] = NewJob(Head(tasks), "async")]
  /\ tasks' = Tail(tasks)
  /\ Jump(w, "check")
  /\ UNCHANGED <<store, queue, mode, batch, calls, new, keys, search>>

\* get_state() != CONSUMED.  (abort_ is never set.)
Check(t) ==
  /\ pc[t] = "check"
  /\ IF state[Goal(t)] = "CONSUMED" THEN Jump(t, "ready") ELSE Jump(t, "try")
  /\ job' = IF state[Goal(t)] = "CONSUMED" /\ job[t].op = "sync" THEN [job EXCEPT ![t] = NoJob] ELSE job
  /\ UNCHANGED <<store, queue, tasks, mode, batch, calls, new, keys, search>>

\* A goal that async1 leaves in the store goes to queue_ again.
Passive(w) ==
  /\ w \in Worker /\ (Over(w) \/ pc[w] = "passiveclaimed")
  /\ LET left == state[Goal(w)] = (IF Over(w) THEN "PENDING" ELSE "CLAIMED")
     IN  /\ Jump(w, IF left THEN "addback" ELSE IF Over(w) THEN "passiveclaimed" ELSE "ready")
         /\ job' = IF ~left /\ ~Over(w) THEN [job EXCEPT ![w] = NoJob] ELSE job
  /\ UNCHANGED <<store, queue, tasks, mode, batch, calls, new, keys, search>>

AddBack(w) ==
  /\ pc[w] = "addback"
  /\ queue' = Append(queue, Goal(w))
  /\ job' = [job EXCEPT ![w] = NoJob]
  /\ Jump(w, "ready")
  /\ UNCHANGED <<store, tasks, mode, batch, calls, new, keys, search>>

(***************************************************************************)
(* run_parallel.  batch.taken is i of the inner loop.                      *)
(***************************************************************************)
RunParallel(t) ==
  /\ t = Driver /\ pc[t] = "ready" /\ calls[t] = << >> /\ batch.due
  /\ Jump(t, "collect")
  /\ batch' = [batch EXCEPT !.due = FALSE]
  /\ UNCHANGED <<store, queue, tasks, mode, calls, job, new, keys, search>>

FillUpTo(t, n) ==
  /\ pc[t] = "fill"
  /\ IF queue # << >> /\ batch.taken < n
     THEN /\ queue' = Tail(queue)
          /\ job' = [job EXCEPT ![t] = NewJob(Head(queue), "batch")]
          /\ batch' = [batch EXCEPT !.taken = @ + 1]
          /\ Jump(t, "peek")
     ELSE Jump(t, "collect") /\ UNCHANGED <<queue, job, batch>>
  /\ UNCHANGED <<store, tasks, mode, calls, new, keys, search>>

\* A variant with i <= limit.
FillOneMore(t) == FillUpTo(t, Limit + 1)
Fill(t) == FillUpTo(t, Limit)

\* A pending goal gets a thread.  What is not pending is loaded again: a claimed
\* goal is taken up later, any other is dropped.
Peek(t) ==
  LET s == Slots[batch.taken]
  IN  /\ pc[t] = "peek"
      /\ IF state[Goal(t)] = "PENDING"
         THEN /\ pc' = [pc EXCEPT ![t] = "fill", ![s] = "try"]
              /\ job' = [job EXCEPT ![s] = job[t], ![t] = NoJob]
              /\ batch' = [batch EXCEPT !.handles = Append(@, s)]
         ELSE Jump(t, "peekclaimed") /\ UNCHANGED <<job, batch>>
      /\ UNCHANGED <<store, queue, tasks, mode, calls, new, keys, search>>

PeekClaimed(t) ==
  /\ pc[t] = "peekclaimed"
  /\ Jump(t, IF state[Goal(t)] = "CLAIMED" THEN "requeue" ELSE "fill")
  /\ job' = IF state[Goal(t)] = "CLAIMED" THEN job ELSE [job EXCEPT ![t] = NoJob]
  /\ UNCHANGED <<store, queue, tasks, mode, batch, calls, new, keys, search>>

\* The results are taken in the order of the handles; when there are none left
\* the next batch begins, unless the queue is empty.
CollectWith(t, again(_)) ==
  /\ pc[t] = "collect"
  /\ IF batch.handles = << >>
     THEN /\ Jump(t, IF queue = << >> THEN "ready" ELSE "fill")
          /\ batch' = [batch EXCEPT !.taken = 0]
          /\ job' = job
     ELSE LET s == Head(batch.handles) IN
          /\ Over(s)
          /\ job' = [job EXCEPT ![t] = IF job[s].fired \/ again(s) THEN job[s] ELSE NoJob,
                                ![s] = NoJob]
          /\ batch' = [batch EXCEPT !.handles = Tail(@)]
          /\ Jump(t, CASE job[s].fired -> "triggered" [] again(s) -> "retry" [] OTHER -> "collect")
  /\ UNCHANGED <<store, queue, tasks, mode, calls, new, keys, search>>

\* A variant that drops every goal that did not fire.
CollectOnce(t) == CollectWith(t, LAMBDA s : FALSE)
Collect(t) == CollectWith(t, LAMBDA s : job[s].retry)

\* A goal that fired and is consumed is done; one that was kept is tried again
\* if the strategy says so.
Triggered(t) ==
  LET again == state[Goal(t)] # "CONSUMED" /\ job[t].retry
  IN  /\ pc[t] = "triggered"
      /\ Jump(t, IF again THEN "retry" ELSE "collect")
      /\ job' = IF again THEN job ELSE [job EXCEPT ![t] = NoJob]
      /\ UNCHANGED <<store, queue, tasks, mode, batch, calls, new, keys, search>>

Requeue(t) ==
  /\ pc[t] \in {"requeue", "retry"}
  /\ queue' = Append(queue, Goal(t))
  /\ job' = [job EXCEPT ![t] = NoJob]
  /\ Jump(t, IF pc[t] = "retry" THEN "collect" ELSE "fill")
  /\ UNCHANGED <<store, tasks, mode, batch, calls, new, keys, search>>

Driving(t) == RunParallel(t) \/ Fill(t) \/ Peek(t) \/ PeekClaimed(t) \/ Collect(t) \/ Triggered(t) \/ Requeue(t)

Looping(t) == TakeTask(t) \/ Check(t) \/ Passive(t) \/ AddBack(t)

Adding(t) == Create(t) \/ Insert(t) \/ Index(t) \/ Push(t) \/ Enqueue(t)
==============================================================================
