------------------------------ MODULE StatusWord -----------------------------
(***************************************************************************)
(* The status word of Store.h: one 64-bit atomic whose low half counts the *)
(* pending copies of a constraint and whose high half the claimed ones.    *)
(* Every operation is a loop of a load and a compare-and-swap.  Halves are *)
(* counted modulo Width, which is 2^32 in the code.                        *)
(***************************************************************************)
EXTENDS Integers, FiniteSets

CONSTANTS
  Thread,
  Width,     \* the number of values of a half
  Bound      \* the copies added after the first: a bound of the model

ASSUME WordAssumption ==
  IsFiniteSet(Thread) /\ Width \in Nat /\ Width > 1 /\ Bound \in Nat

VARIABLES
  stat,      \* the word, as its halves [claimed, pending]
  num,       \* per thread: the word it loaded last
  pc,        \* per thread: the operation, before its load or before its swap
  owns,      \* per thread: whether it has claimed a copy
  added      \* add_pending operations begun so far

vars == <<stat, num, pc, owns, added>>

Op == {"add_pending", "try_claim", "consume", "rollback"}

\* The word (claimed << 32) | pending for counters that may just have left their
\* half: a full pending count sets the lowest bit of the claims.
Word(c, p) ==
  LET spilt == IF p < Width \/ c % 2 = 1 THEN c ELSE c + 1
  IN  [claimed |-> IF spilt < Width THEN spilt ELSE spilt - Width,
       pending |-> IF p < Width THEN p ELSE 0]

Half == 0..(Width - 1)
WordType == [claimed : Half, pending : Half]

TypeOK ==
  /\ stat \in WordType /\ num \in [Thread -> WordType]
  /\ pc \in [Thread -> [op : Op \cup {"none"}, at : {"load", "swap"}]]
  /\ owns \in [Thread -> BOOLEAN] /\ added \in 0..Bound

Idle == [op |-> "none", at |-> "load"]

Init ==
  /\ stat = Word(0, 1) /\ num = [t \in Thread |-> Word(0, 0)]
  /\ pc = [t \in Thread |-> Idle] /\ owns = [t \in Thread |-> FALSE] /\ added = 0

\* A thread consumes or rolls back only what it has claimed.
Begin(t, op) ==
  /\ pc[t] = Idle
  /\ owns[t] <=> op \in {"consume", "rollback"}
  /\ op = "add_pending" => added < Bound
  /\ added' = IF op = "add_pending" THEN added + 1 ELSE added
  /\ pc' = [pc EXCEPT ![t].op = op]
  /\ UNCHANGED <<stat, num, owns>>

\* A variant whose loops go on to the swap whatever they loaded.
LoadOnly(t) ==
  /\ pc[t] # Idle /\ pc[t].at = "load"
  /\ num' = [num EXCEPT ![t] = stat]
  /\ pc' = [pc EXCEPT ![t].at = "swap"]
  /\ UNCHANGED <<stat, owns, added>>

\* The load; without a copy to take, try_claim and rollback end here.
Load(t) ==
  /\ pc[t] # Idle /\ pc[t].at = "load"
  /\ num' = [num EXCEPT ![t] = stat]
  /\ LET gone == \/ pc[t].op = "try_claim" /\ stat.pending = 0
                 \/ pc[t].op = "rollback" /\ stat.claimed = 0
     IN  /\ pc' = [pc EXCEPT ![t] = IF gone THEN Idle ELSE [@ EXCEPT !.at = "swap"]]
         /\ owns' = [owns EXCEPT ![t] = @ /\ ~gone]
  /\ UNCHANGED <<stat, added>>

\* The new word that the operation computes from the one it loaded.
Changed(op, w) ==
  CASE op = "add_pending" -> Word(w.claimed, w.pending + 1)
    [] op = "try_claim" -> Word(w.claimed + 1, w.pending - 1)
    [] op = "consume" -> Word(IF w.claimed > 0 THEN w.claimed - 1 ELSE 0, w.pending)
    [] op = "rollback" -> Word(w.claimed - 1, w.pending + 1)

\* A variant that stores without comparing.
Store(t) ==
  /\ pc[t].at = "swap"
  /\ stat' = Changed(pc[t].op, num[t])
  /\ owns' = [owns EXCEPT ![t] = pc[t].op = "try_claim"]
  /\ pc' = [pc EXCEPT ![t] = Idle]
  /\ UNCHANGED <<num, added>>

Swap(t) ==
  /\ pc[t].at = "swap" /\ stat = num[t]
  /\ stat' = Changed(pc[t].op, num[t])
  /\ owns' = [owns EXCEPT ![t] = pc[t].op = "try_claim"]
  /\ pc' = [pc EXCEPT ![t] = Idle]
  /\ UNCHANGED <<num, added>>

SwapFails(t) ==
  /\ pc[t].at = "swap" /\ stat # num[t]
  /\ pc' = [pc EXCEPT ![t].at = "load"]
  /\ UNCHANGED <<stat, num, owns, added>>

Next == \E t \in Thread : (\E op \in Op : Begin(t, op)) \/ Load(t) \/ Swap(t) \/ SwapFails(t)

Spec == Init /\ [][Next]_vars

(***************************************************************************)
(* Properties.                                                             *)
(***************************************************************************)
\* The halves are wide enough for all the copies.
Fits == Bound + 1 < Width

\* Under any interleaving of the loops the halves count copies: each copy that is
\* claimed has exactly one thread that owns it, so none is lost or taken twice.
OwnersCounted == stat.claimed = Cardinality({t \in Thread : owns[t]})

\* The loops implement the two counters: no carry runs from one half into the
\* other, and no update overwrites another.
Counter == INSTANCE StatusCounter WITH pending <- stat.pending, claimed <- stat.claimed
ImplementsCounter == Counter!Spec
==============================================================================
