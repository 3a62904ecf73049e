-------------------------------- MODULE Batch --------------------------------
(***************************************************************************)
(* run_parallel2: a client that has added its constraints takes goals from *)
(* stati_queue_, which add_constraint fills, tries a batch of them with    *)
(* the try_goal of its mode, each in a thread of its own, waits for all,   *)
(* and goes on until the queue is empty.  The threads of a batch are slots *)
(* of Worker that take no task of the pool.                                *)
(*                                                                         *)
(* The future of a slot is read off its step: a goal to be retried stays   *)
(* at "check", any other leaves the slot ready without a call to make.     *)
(***************************************************************************)
EXTENDS Engine

CONSTANTS
  Slots,            \* the threads of a batch, <<first, ..., limit-th>>
  Driver,           \* the client that may call run_parallel2 after its other calls
  Setups            \* the programs: [script, mode, runs], a script of Scripts, and
                    \* runs whether the driver calls run_parallel2

Limit == Len(Slots)
Slot == {Slots[i] : i \in DOMAIN Slots}
Modes == {"PESSIMISTIC", "OPTIMISTIC", "PARTIAL"}

ASSUME BatchAssumption ==
  /\ Slots \in Seq(Worker) /\ Slots # << >> /\ \A i, j \in DOMAIN Slots : Slots[i] = Slots[j] => i = j
  /\ Driver \in Client
  /\ Setups \subseteq [script : Scripts, mode : Modes, runs : BOOLEAN]

VARIABLES
  left,             \* of Partial: per thread, the rounds that remain
  mode,             \* the mode all calls of the program use
  queue,            \* stati_queue_
  pushed,           \* the threads that have pushed what they add
  drive             \* of run_parallel2: where it is, the goal it has taken, i of
                    \* the inner loop, and handles

batchVars == <<vars, left, mode, queue, pushed, drive>>

O == INSTANCE Optimistic
P == INSTANCE Pessimistic
R == INSTANCE Partial

Try(t) ==
  \/ mode = "OPTIMISTIC" /\ O!Try(t) /\ UNCHANGED left
  \/ mode = "PESSIMISTIC" /\ P!Try(t) /\ UNCHANGED left
  \/ mode = "PARTIAL" /\ R!Try(t)

Step(t) == (Common(t) /\ UNCHANGED left) \/ Try(t)

\* "due" before the call and "end" after it, or when there is none.
DriveTypeOK ==
  /\ left \in [Thread -> 0..R!Attempts] /\ mode \in Modes
  /\ queue \in Seq(Known) /\ pushed \in SUBSET Thread
  /\ drive \in [at : {"due", "fill", "peek", "peekclaims", "requeue", "collect", "retry", "end"},
                goal : Maybe, taken : 0..Limit, handles : Seq(Slot)]

BatchInit ==
  /\ R!InitPartial
  /\ queue = << >> /\ pushed = {}
  /\ \E x \in Setups :
       /\ mode = x.mode /\ \A t \in Client : calls[t] = x.script[t]
       /\ drive = [at |-> IF x.runs THEN "due" ELSE "end",
                   goal |-> None, taken |-> 0, handles |-> << >>]

(***************************************************************************)
(* The threads.  add_constraint pushes the status when it is inserted.  (A *)
(* push after which no run_parallel2 reads the queue is left out.)         *)
(***************************************************************************)
Inserted(t) == pc[t] = "enqueue" \/ (pc[t] = "try" /\ job[t].op = "sync")
ToPush(t) == Inserted(t) /\ t \notin pushed /\ drive.at # "end"

Push(t) ==
  /\ ToPush(t)
  /\ queue' = Append(queue, Goal(t))
  /\ pushed' = pushed \cup {t}
  /\ UNCHANGED <<vars, left, mode, drive>>

\* A slot begins with what the driver gives it, and ends when its calls are made.
Idle(s) == s \in Slot /\ (pc[s] = "check" \/ (pc[s] = "ready" /\ calls[s] = << >>))

Run(t) ==
  /\ ~ToPush(t) /\ ~Idle(t)
  /\ Step(t)
  /\ pushed' = IF Goal(t) = job'[t].goal THEN pushed ELSE pushed \ {t}
  /\ UNCHANGED <<mode, queue, drive>>

(***************************************************************************)
(* The driver.                                                             *)
(***************************************************************************)
Quiet == UNCHANGED <<store, tasks, used_mode, calls, keys, list, cur, held, left, mode, pushed>>
At(p) == drive' = [drive EXCEPT !.at = p, !.goal = None]

RunParallel2 ==
  /\ drive.at = "due" /\ pc[Driver] = "ready" /\ calls[Driver] = << >>
  /\ At("collect")
  /\ Quiet /\ UNCHANGED <<queue, pc, job>>

FillUpTo(n) ==
  /\ drive.at = "fill"
  /\ IF queue # << >> /\ drive.taken < n
     THEN /\ queue' = Tail(queue)
          /\ drive' = [drive EXCEPT !.at = "peek", !.goal = Head(queue), !.taken = @ + 1]
     ELSE At("collect") /\ UNCHANGED queue
  /\ Quiet /\ UNCHANGED <<pc, job>>

\* A variant with i <= limit.
FillOneMore == FillUpTo(Limit + 1)
Fill == FillUpTo(Limit)

\* num_pendings() > 0, else num_claims() > 0: two loads.  A status with neither
\* is dropped.
Peek ==
  LET s == Slots[drive.taken]
  IN  /\ drive.at = "peek"
      /\ IF pending[drive.goal] > 0
         THEN /\ drive' = [drive EXCEPT !.at = "fill", !.goal = None, !.handles = Append(@, s)]
              /\ Jump(s, "try")
              /\ job' = [job EXCEPT ![s] = NewJob(drive.goal, "async", TRUE)]
         ELSE /\ drive' = [drive EXCEPT !.at = "peekclaims"]
              /\ UNCHANGED <<pc, job>>
      /\ Quiet /\ UNCHANGED queue

PeekClaims ==
  /\ drive.at = "peekclaims"
  /\ IF claimed[drive.goal] > 0 THEN drive' = [drive EXCEPT !.at = "requeue"] ELSE At("fill")
  /\ Quiet /\ UNCHANGED <<queue, pc, job>>

\* The results in the order of the handles; then the next batch, unless the
\* queue is empty.
Collect(again(_)) ==
  /\ drive.at = "collect"
  /\ IF drive.handles = << >>
     THEN /\ drive' = [drive EXCEPT !.at = IF queue = << >> THEN "end" ELSE "fill", !.taken = 0]
          /\ UNCHANGED <<pc, job>>
     ELSE LET s == Head(drive.handles) IN
          /\ Idle(s)
          /\ drive' = [drive EXCEPT !.at = IF again(s) THEN "retry" ELSE "collect",
                                    !.goal = IF again(s) THEN Goal(s) ELSE None, !.handles = Tail(@)]
          /\ Jump(s, "ready")
          /\ job' = [job EXCEPT ![s] = NoJob]
  /\ Quiet /\ UNCHANGED queue

\* A variant that retries no goal.
TakeFirst == Collect(LAMBDA s : FALSE)
TakeResult == Collect(LAMBDA s : pc[s] = "check")

Requeue ==
  /\ drive.at \in {"requeue", "retry"}
  /\ queue' = Append(queue, drive.goal)
  /\ At(IF drive.at = "retry" THEN "collect" ELSE "fill")
  /\ Quiet /\ UNCHANGED <<pc, job>>

Drive == RunParallel2 \/ Fill \/ Peek \/ PeekClaims \/ TakeResult \/ Requeue

ThreadStep(t) == Push(t) \/ Run(t)
BatchNext == Drive \/ \E t \in DOMAIN pc : ThreadStep(t)
BatchSpec == BatchInit /\ [][BatchNext]_batchVars
FairBatchSpec ==
  BatchSpec /\ WF_batchVars(Drive) /\ \A t \in Thread : WF_batchVars(ThreadStep(t))
==============================================================================
