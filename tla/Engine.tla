-------------------------------- MODULE Engine -------------------------------
(***************************************************************************)
(* What the matching strategies share: the counted store (Store.h,         *)
(* Store.cpp), async and sync of WorkerCHR.cpp with their goal loops, the  *)
(* queue of the thread pool, and what follows a successful match: consume, *)
(* tokens, rule body, and the re-adding of kept constraints.               *)
(*                                                                         *)
(* A step of a thread is one access to shared state (a load or a compare-  *)
(* and-swap of a status word, one critical section of the store, one queue *)
(* operation) with the local code up to the next one.                      *)
(***************************************************************************)
EXTENDS Checklist

CONSTANTS
  Client, Worker,   \* the program's threads and those of the pool
  Scripts,          \* the programs: a script has the calls of every client
  Body(_, _),       \* Body(r, cs): the calls the body of rule r makes for cs
  NoMpi             \* the rules of the programs that run without use_mpi_

Thread == Client \cup Worker
Call == [op : {"async", "sync", "add"}, con : Con, keep : BOOLEAN]

ASSUME ThreadAssumption ==
  /\ IsFiniteSet(Thread) /\ Client \cap Worker = {}
  /\ Scripts \subseteq [Client -> Seq(Call)] /\ NoMpi \subseteq RuleId
  /\ \A r \in RuleId : \A cs \in [Heads(r) -> Con] :
       (\A h \in Heads(r) : cs[h].name = HeadName(r, h)) => Body(r, cs) \in Seq(Call)

VARIABLES
  mod, pending, claimed, tokens,  \* per status: m, the halves of stat, consumed_tokens
  bucket,                         \* name_hashmap_ and arg_hashmap_
  tasks,                          \* tasks_ of the pool
  used_mode,                      \* used_mode_: "NONE", or "SET" to the program's mode
  pc, calls,                      \* per thread: next step; calls still to make
  job,                            \* per thread: the goal, how it was added, whether
                                  \* its mode is set, saw_claimed
  keys,                           \* per thread: argument sets left to index
  list, cur,                      \* per thread: checklist, and position of the search
  held                            \* per thread: positions of used_stati_ it has claimed

store == <<con, mod, pending, claimed, tokens, bucket>>
local == <<pc, calls, job, keys, list, cur, held>>
vars == <<store, tasks, used_mode, local>>

NewJob(s, op, run) == [goal |-> s, op |-> op, run |-> run, saw |-> FALSE]
NoJob == NewJob(None, "async", TRUE)
NoList == [rule |-> 0, m |-> << >>, used |-> << >>, keep |-> << >>, spare |-> {}]
NoKey == [name |-> "", vals |-> << >>]

\* The search loop's locals: the stack of places to go back to, the bucket whose
\* accessor is held, i (start_index), last_index, filter.
Rewound == [stack |-> << >>, bkt |-> NoKey, at |-> 1, stop |-> MaxStatus, filter |-> None]

PC == {"ready", "allocate", "index", "enqueue", "check", "try", "recheck", "again",
       "againclaims", "open", "pending", "claims", "claim", "sawclaims", "sawpending", "undo",
       "commit", "rollback", "consume", "token", "body", "poll", "wait"}

Mode == {"ASYNC", "SYNC"}
Task == [goal : Known, run : BOOLEAN]
Job == [goal : Maybe, op : {"async", "sync", "add"}, run : BOOLEAN, saw : BOOLEAN]
Place == [i : Nat \ {0}, n : Nat, s : Known]
Cursor == [stack : Seq(Place), bkt : Buckets \cup {NoKey}, at : Nat \ {0}, stop : Nat,
           filter : Maybe]

\* Every status a thread, a bucket or a task mentions has been allocated.
TypeOK ==
  /\ con \in Seq(Con) /\ Len(con) <= MaxStatus
  /\ mod \in [Status -> Mode]
  /\ pending \in [Status -> Nat] /\ claimed \in [Status -> Nat] /\ tokens \in [Status -> Nat]
  /\ bucket \in [Buckets -> Seq(Known)]
  /\ tasks \in Seq(Task)
  /\ used_mode \in {"NONE", "SET"}
  /\ pc \in [Thread -> PC] /\ calls \in [Thread -> Seq(Call)] /\ job \in [Thread -> Job]
  /\ keys \in [Thread -> SUBSET SUBSET Nat]
  /\ list \in [Thread -> List] /\ cur \in [Thread -> Cursor]
  /\ held \in [Thread -> SUBSET Nat]

Init ==
  /\ con = << >>
  /\ mod = [s \in Status |-> "ASYNC"]
  /\ pending = [s \in Status |-> 0]
  /\ claimed = [s \in Status |-> 0]
  /\ tokens = [s \in Status |-> 0]
  /\ bucket = [k \in Buckets |-> << >>]
  /\ tasks = << >>
  /\ used_mode = "NONE"
  /\ pc = [t \in Thread |-> "ready"]
  /\ \E script \in Scripts :
       calls = [t \in Thread |-> IF t \in Client THEN script[t] ELSE << >>]
  /\ job = [t \in Thread |-> NoJob]
  /\ keys = [t \in Thread |-> {}]
  /\ list = [t \in Thread |-> NoList]
  /\ cur = [t \in Thread |-> Rewound]
  /\ held = [t \in Thread |-> {}]

(***************************************************************************)
(* The store.  A scan keeps a read accessor on its bucket; an insertion    *)
(* into that bucket waits for it.                                          *)
(***************************************************************************)
In(q) == {q[i] : i \in DOMAIN q}
Bucket(k) == IF k \in Buckets THEN bucket[k] ELSE << >>
Locked(k) == \E t \in Thread : cur[t].bkt = k
Goal(t) == job[t].goal
Jump(t, p) == pc' = [pc EXCEPT ![t] = p]


\* insert_counted, first section: if the bucket of the first argument has the
\* constraint, one more pending on its status, else a new status is needed.
InsertCounted(t, c, op, run) ==
  LET b == Bucket(FirstArgKey(c))
      twins == {i \in DOMAIN b : con[b[i]] = c}
      d == IF twins = {} THEN None ELSE b[Least(twins)]
  IN  /\ ~Locked(FirstArgKey(c))
      /\ job' = [job EXCEPT ![t] = NewJob(d, op, run)]
      /\ IF d = None
         THEN Jump(t, "allocate") /\ UNCHANGED <<pending, calls>>
         ELSE /\ pending' = [pending EXCEPT ![d] = @ + 1]
              /\ calls' = [calls EXCEPT ![t] = Tail(@)]
              /\ Jump(t, IF op = "sync" THEN "try" ELSE "enqueue")
      /\ UNCHANGED <<con, mod, claimed, tokens, bucket, tasks, keys, list, cur, held>>

\* Second section: allocate the status and enter it under its name.  MaxStatus
\* bounds the stati of one execution.
Allocate(t) ==
  LET c == Head(calls[t]).con
      s == Len(con) + 1
  IN  /\ pc[t] = "allocate" /\ s \in Status /\ ~Locked(NameKey(c))
      /\ con' = Append(con, c)
      /\ mod' = [mod EXCEPT ![s] = IF job[t].op = "sync" THEN "SYNC" ELSE "ASYNC"]
      /\ pending' = [pending EXCEPT ![s] = 1]
      /\ bucket' = [bucket EXCEPT ![NameKey(c)] = Append(@, s)]
      /\ job' = [job EXCEPT ![t].goal = s]
      /\ keys' = [keys EXCEPT ![t] = ArgSets(c)]
      /\ calls' = [calls EXCEPT ![t] = Tail(@)]
      /\ Jump(t, "index")
      /\ UNCHANGED <<claimed, tokens, tasks, used_mode, list, cur, held>>

\* add_constraint of insert_counted: one bucket of arg_hashmap_ at a time.
Index(t) ==
  LET S == CHOOSE S \in keys[t] : \A T \in keys[t] \ {S} : Before(S, T)
      k == Key(con[Goal(t)], S)
  IN  /\ pc[t] = "index" /\ ~Locked(k)
      /\ bucket' = [bucket EXCEPT ![k] = IF Goal(t) \in In(@) THEN @ ELSE Append(@, Goal(t))]
      /\ keys' = [keys EXCEPT ![t] = @ \ {S}]
      /\ Jump(t, IF keys[t] # {S} THEN "index"
                 ELSE IF job[t].op = "sync" THEN "try" ELSE "enqueue")
      /\ UNCHANGED <<con, mod, pending, claimed, tokens, tasks, used_mode, calls, job, list, cur, held>>

(***************************************************************************)
(* async, sync, and add_constraint, which only inserts.  A kept constraint *)
(* is re-added with used_mode_, which may still be NONE: sync compares it  *)
(* with an uninitialized variable, so setting it may fail.                 *)
(***************************************************************************)
\* A variant that never sets used_mode_.
MakeCallOnly(t) ==
  LET c == Head(calls[t])
  IN  /\ pc[t] = "ready" /\ calls[t] # << >>
      /\ InsertCounted(t, c.con, c.op, ~c.keep \/ used_mode = "SET")
      /\ UNCHANGED used_mode

MakeCall(t) ==
  LET c == Head(calls[t])
      m == IF c.keep THEN used_mode ELSE "SET"
  IN  /\ pc[t] = "ready" /\ calls[t] # << >>
      /\ InsertCounted(t, c.con, c.op, m = "SET")
      /\ used_mode' \in (IF used_mode = "NONE" /\ c.op # "add" THEN {m} ELSE {used_mode})
                         \cup (IF c.op = "sync" THEN {used_mode} ELSE {})

\* The end of async: pool_.enqueue of the goal loop.  (The stati_queue_ that
\* add_constraint fills is read by run_parallel2 only.)
Enqueue(t) ==
  /\ pc[t] = "enqueue"
  /\ tasks' = IF job[t].op = "add" THEN tasks
              ELSE Append(tasks, [goal |-> Goal(t), run |-> job[t].run])
  /\ job' = [job EXCEPT ![t] = NoJob]
  /\ Jump(t, "ready")
  /\ UNCHANGED <<store, used_mode, calls, keys, list, cur, held>>

TakeTask(w) ==
  /\ w \in Worker /\ pc[w] = "ready" /\ calls[w] = << >> /\ tasks # << >>
  /\ job' = [job EXCEPT ![w] = NewJob(Head(tasks).goal, "async", Head(tasks).run)]
  /\ tasks' = Tail(tasks)
  /\ Jump(w, "check")
  /\ UNCHANGED <<store, used_mode, calls, keys, list, cur, held>>

\* What a goal loop does with the result of try_goal: async stops unless told to
\* retry; sync stops when a rule fired, else looks for a token, and without a
\* retry blocks until there is one.
Return(t, fired, retry) ==
  LET p == IF fired THEN "ready"
           ELSE IF job[t].op = "async" THEN (IF retry THEN "check" ELSE "ready")
           ELSE (IF retry THEN "poll" ELSE "wait")
  IN  /\ Jump(t, p)
      /\ job' = [job EXCEPT ![t] = IF p = "ready" THEN NoJob ELSE [@ EXCEPT !.saw = FALSE]]
      /\ list' = [list EXCEPT ![t] = NoList]
      /\ cur' = [cur EXCEPT ![t] = Rewound]

\* The condition of the loop in async: pendings_and_claims() > 0.
CheckLive(t) ==
  /\ pc[t] = "check"
  /\ IF pending[Goal(t)] + claimed[Goal(t)] > 0
     THEN Jump(t, "try") /\ UNCHANGED <<job, list, cur>>
     ELSE Return(t, TRUE, FALSE)
  /\ UNCHANGED <<store, tasks, used_mode, calls, keys, held>>

\* The switch over the mode has no case for NONE.
NoMode(t) ==
  /\ pc[t] = "try" /\ ~job[t].run
  /\ Return(t, FALSE, FALSE)
  /\ UNCHANGED <<store, tasks, used_mode, calls, keys, held>>

\* A variant that takes a token without waiting for one.
PopNoToken(t) ==
  /\ pc[t] \in {"poll", "wait"}
  /\ tokens' = [tokens EXCEPT ![Goal(t)] = @ - 1]
  /\ Return(t, TRUE, FALSE)
  /\ UNCHANGED <<con, mod, pending, claimed, bucket, tasks, used_mode, calls, keys, held>>

PopToken(t) ==
  /\ pc[t] \in {"poll", "wait"} /\ tokens[Goal(t)] > 0
  /\ tokens' = [tokens EXCEPT ![Goal(t)] = @ - 1]
  /\ Return(t, TRUE, FALSE)
  /\ UNCHANGED <<con, mod, pending, claimed, bucket, tasks, used_mode, calls, keys, held>>

NoToken(t) ==
  /\ pc[t] = "poll" /\ tokens[Goal(t)] = 0
  /\ Jump(t, "try")
  /\ UNCHANGED <<store, tasks, used_mode, calls, job, keys, list, cur, held>>

\* A variant that claims without taking from what is pending.
TakeCopy(s) ==
  /\ pending' = pending
  /\ claimed' = [claimed EXCEPT ![s] = @ + 1]

\* The transitions of a status word: try_claim() when it succeeds, rollback().
Take(s) ==
  /\ pending' = [pending EXCEPT ![s] = @ - 1]
  /\ claimed' = [claimed EXCEPT ![s] = @ + 1]

\* A variant that gives the copy back but keeps it claimed.
ReleaseCopy(s) ==
  /\ pending' = [pending EXCEPT ![s] = IF claimed[s] > 0 THEN @ + 1 ELSE @]
  /\ claimed' = claimed

Release(s) ==
  /\ pending' = [pending EXCEPT ![s] = IF claimed[s] > 0 THEN @ + 1 ELSE @]
  /\ claimed' = [claimed EXCEPT ![s] = IF @ > 0 THEN @ - 1 ELSE @]

(***************************************************************************)
(* Searching: rules_ in order, and in a bucket the entries that are not    *)
(* the filter and are convenient.                                          *)
(***************************************************************************)
Move(t, p, l, c) ==
  /\ Jump(t, p)
  /\ list' = [list EXCEPT ![t] = l]
  /\ cur' = [cur EXCEPT ![t] = c]

Search(t, p, l, c) == Move(t, p, l, c) /\ UNCHANGED job

\* The next rule with a head for the goal, where a match of the goal alone is
\* full; after the last rule the goal has failed.
RulesAfter(t) == {r \in RuleId : r > list[t].rule /\ Accepts(r, Goal(t))}

NextRule(t, full, retry) ==
  IF RulesAfter(t) = {} THEN Return(t, FALSE, retry)
  ELSE \E r \in {Least(RulesAfter(t))} : \E l \in {Add(NewChecklist(r), Goal(t))} :
         Search(t, IF Complete(r, l.m) THEN full ELSE "open", l, Rewound)

\* A variant that resumes one entry too late.
LateCandidates(t, c) ==
  {i \in (c.at + 1)..c.stop : LET s == Bucket(c.bkt)[i]
                              IN  s # c.filter /\ Convenient(list[t].rule, list[t].m, s)}

Candidates(t, c) ==
  {i \in c.at..c.stop : LET s == Bucket(c.bkt)[i]
                        IN  s # c.filter /\ Convenient(list[t].rule, list[t].m, s)}

\* The accessor of a bucket, empty if there is none; a search that went back stops
\* where the bucket ended before.
Opened(t, k) ==
  [cur[t] EXCEPT !.bkt = IF k \in Buckets THEN k ELSE NoKey,
                 !.stop = IF @ < Len(Bucket(k)) THEN @ ELSE Len(Bucket(k))]

Here(t) == Bucket(cur[t].bkt)[cur[t].at]

Found(t) ==
  [Rewound EXCEPT !.stack =
     Append(cur[t].stack, [i |-> cur[t].at, n |-> Len(Bucket(cur[t].bkt)), s |-> Here(t)])]

Top(c) == c.stack[Len(c.stack)]

GoBack(c) ==
  [stack |-> SubSeq(c.stack, 1, Len(c.stack) - 1), bkt |-> NoKey,
   at |-> Top(c).i, stop |-> Top(c).n, filter |-> Top(c).s]

(***************************************************************************)
(* After a match: the used stati are consumed in order, each leaves a      *)
(* token for a thread that may be blocked in sync, except the goal's first *)
(* use; then the body runs and kept constraints are added again, both by   *)
(* the thread itself, before it goes on.                                   *)
(***************************************************************************)
\* A variant without jumped_myself: the goal's own use leaves a token too.
NoOwnUse(t, i) == FALSE

OwnUse(t, i) == list[t].used[i] = Goal(t) /\ \A j \in 1..(i - 1) : list[t].used[j] # Goal(t)
AfterUse(t) ==
  IF cur[t].at = Len(list[t].used) THEN Search(t, "body", list[t], Rewound)
  ELSE Search(t, "consume", list[t], [cur[t] EXCEPT !.at = @ + 1])

ConsumeUse(t, silent) ==
  LET s == list[t].used[cur[t].at]
  IN  /\ pc[t] = "consume"
      /\ claimed' = [claimed EXCEPT ![s] = IF @ > 0 THEN @ - 1 ELSE @]
      /\ held' = [held EXCEPT ![t] = @ \ {cur[t].at}]
      /\ IF silent THEN AfterUse(t) ELSE Search(t, "token", list[t], cur[t])
      /\ UNCHANGED <<con, mod, pending, tokens, bucket, tasks, used_mode, calls, keys>>

Consume(t) == ConsumeUse(t, OwnUse(t, cur[t].at))

PushToken(t) ==
  /\ pc[t] = "token"
  /\ tokens' = [tokens EXCEPT ![list[t].used[cur[t].at]] = @ + 1]
  /\ AfterUse(t)
  /\ UNCHANGED <<con, mod, pending, claimed, bucket, tasks, used_mode, calls, keys, held>>

\* A variant for which a simpagation rule consumes all of its heads.
KeptNothing(l) == << >>

\* With use_mpi_ they get goal loops of their own, without it they go to the store.
Kept(l) ==
  LET op(s) == IF l.rule \in NoMpi THEN "add" ELSE IF mod[s] = "SYNC" THEN "sync" ELSE "async"
  IN  [i \in DOMAIN l.keep |-> [op |-> op(l.keep[i]), con |-> con[l.keep[i]], keep |-> TRUE]]

Epilogue(l) == Body(l.rule, RuleOrdered(l)) \o Kept(l)

RunBody(t) ==
  /\ pc[t] = "body"
  /\ calls' = [calls EXCEPT ![t] = Epilogue(list[t]) \o @]
  /\ Return(t, TRUE, FALSE)
  /\ UNCHANGED <<store, tasks, used_mode, keys, held>>

Common(t) ==
  \/ MakeCall(t) \/ Allocate(t) \/ Index(t) \/ Enqueue(t)
  \/ TakeTask(t) \/ CheckLive(t) \/ NoMode(t) \/ PopToken(t) \/ NoToken(t)
  \/ PushToken(t) \/ RunBody(t)

(***************************************************************************)
(* Invariant: the claimed half of a status word is exactly the number of   *)
(* uses that searching threads have claimed and neither consumed nor       *)
(* rolled back, so that no claim leaks and none is given back twice, and   *)
(* consume() and rollback() never find a word without a claim.             *)
(***************************************************************************)
Position == UNION {held[t] : t \in Thread}
Owners(s) == {o \in Thread \X Position : o[2] \in held[o[1]] /\ list[o[1]].used[o[2]] = s}
ClaimsOwned == \A s \in Status : claimed[s] = Cardinality(Owners(s))

Finished == /\ tasks = << >>
            /\ \A t \in Thread : pc[t] = "ready" /\ calls[t] = << >>
Terminated == Finished /\ UNCHANGED vars
==============================================================================
