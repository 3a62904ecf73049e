--------------------------- MODULE StatusWordProofs --------------------------
(***************************************************************************)
(* Proofs about StatusWord, for any threads and any width of the halves:   *)
(* as long as the copies fit in a half, the compare-and-swap loops         *)
(* implement the two counters and count the owners.                        *)
(***************************************************************************)
EXTENDS StatusWord, FiniteSetTheorems, TLAPS

Owning == {t \in Thread : owns[t]}
Adding == {t \in Thread : pc[t].op = "add_pending"}

\* What a thread may be doing, given whether it owns a copy, and what it has seen
\* before its swap.
ThreadInv(t) ==
  /\ IF owns[t] THEN pc[t].op \in {"none", "consume", "rollback"}
                ELSE pc[t].op \in {"none", "add_pending", "try_claim"}
  /\ pc[t].at = "swap" => /\ pc[t].op # "none"
                          /\ pc[t].op = "try_claim" => num[t].pending > 0
                          /\ pc[t].op = "rollback" => num[t].claimed > 0

\* Together with the threads that are adding, the copies are at most those added.
IInv ==
  /\ TypeOK
  /\ \A t \in Thread : ThreadInv(t)
  /\ OwnersCounted
  /\ stat.pending + stat.claimed + Cardinality(Adding) <= 1 + added

\* Counters below Width do not spill: the word has them as its halves.
LEMMA WordHalves ==
  ASSUME NEW c \in Half, NEW p \in Half
  PROVE  Word(c, p) = [claimed |-> c, pending |-> p]
BY WordAssumption DEF Word, Half

\* The sets that are counted are finite.
LEMMA Finite ==
  /\ IsFiniteSet(Owning) /\ Cardinality(Owning) \in Nat
  /\ IsFiniteSet(Adding) /\ Cardinality(Adding) \in Nat
<1>1. Owning \in SUBSET Thread /\ Adding \in SUBSET Thread  BY DEF Owning, Adding
<1> QED  BY <1>1, FS_Subset, FS_CardinalityType, WordAssumption

\* A thread that owns a copy makes the count of claims positive.
LEMMA OwnerSeen ==
  ASSUME IInv, NEW t \in Thread, owns[t]
  PROVE  stat.claimed > 0
<1>1. Cardinality(Owning) # 0  BY Finite, FS_EmptySet DEF Owning
<1> QED  BY <1>1, Finite DEF IInv, OwnersCounted, Owning

LEMMA InitInv == ASSUME Fits, Init PROVE IInv
<1>1. stat = [claimed |-> 0, pending |-> 1]  BY WordHalves, WordAssumption DEF Init, Half
<1>2. Word(0, 0) = [claimed |-> 0, pending |-> 0]  BY WordHalves, WordAssumption DEF Half
<1>3. TypeOK  BY <1>1, <1>2, WordAssumption DEF Init, TypeOK, WordType, Half, Idle, Op
<1>4. \A t \in Thread : ThreadInv(t)  BY DEF Init, ThreadInv, Idle
<1>5. Owning = {} /\ Adding = {}  BY DEF Init, Owning, Adding, Idle
<1>6. Cardinality(Owning) = 0 /\ Cardinality(Adding) = 0  BY <1>5, FS_EmptySet
<1> QED  BY <1>1, <1>3, <1>4, <1>6 DEF IInv, OwnersCounted, Owning, Init

\* Each step of a thread keeps the invariant.
LEMMA BeginInv ==
  ASSUME IInv, NEW t \in Thread, NEW op \in Op, Begin(t, op)
  PROVE  IInv'
<1>1. TypeOK'  BY WordAssumption DEF IInv, TypeOK, Begin, Op
<1>2. \A u \in Thread : ThreadInv(u)'  BY DEF IInv, TypeOK, ThreadInv, Begin, Idle, Op
<1>3. Owning' = Owning /\ OwnersCounted'  BY DEF IInv, OwnersCounted, Owning, Begin
<1>4. Adding' = IF op = "add_pending" THEN Adding \cup {t} ELSE Adding
  BY DEF IInv, TypeOK, Adding, Begin, Idle
<1>5. t \notin Adding  BY DEF Adding, Begin, Idle
<1>6. Cardinality(Adding') = IF op = "add_pending" THEN Cardinality(Adding) + 1 ELSE Cardinality(Adding)
  BY <1>4, <1>5, Finite, FS_AddElement
<1>7. (stat.pending + stat.claimed + Cardinality(Adding) <= 1 + added)'
  BY <1>6, Finite DEF IInv, TypeOK, WordType, Half, Begin
<1> QED  BY <1>1, <1>2, <1>3, <1>7 DEF IInv

LEMMA LoadInv ==
  ASSUME IInv, NEW t \in Thread, Load(t)
  PROVE  IInv'
<1>1. TypeOK'  BY DEF IInv, TypeOK, Load, Idle, Op
<1>2. pc[t].op = "rollback" => stat.claimed # 0  BY OwnerSeen DEF IInv, ThreadInv
<1>3. owns' = owns /\ Owning' = Owning
  BY <1>2 DEF IInv, TypeOK, ThreadInv, Owning, Load
<1>4. \A u \in Thread : ThreadInv(u)'
  BY <1>2, <1>3 DEF IInv, TypeOK, WordType, Half, ThreadInv, Load, Idle, Op
<1>5. Adding' = Adding
  BY DEF IInv, TypeOK, Adding, Load, Idle
<1> QED  BY <1>1, <1>3, <1>4, <1>5 DEF IInv, OwnersCounted, Owning, Load

LEMMA SwapFailsInv ==
  ASSUME IInv, NEW t \in Thread, SwapFails(t)
  PROVE  IInv'
<1>1. TypeOK'  BY DEF IInv, TypeOK, SwapFails, Op
<1>2. \A u \in Thread : ThreadInv(u)'  BY DEF IInv, TypeOK, ThreadInv, SwapFails, Op
<1>3. Adding' = Adding  BY DEF IInv, TypeOK, Adding, SwapFails
<1> QED  BY <1>1, <1>2, <1>3 DEF IInv, OwnersCounted, SwapFails

\* A swap that succeeds changes the two counters as its operation says.
LEMMA SwapEffect ==
  ASSUME IInv, Fits, NEW t \in Thread, Swap(t)
  PROVE  LET c == stat.claimed
             p == stat.pending
         IN  /\ c \in Nat /\ p \in Nat
             /\ \/ /\ pc[t].op = "add_pending"
                   /\ stat' = [claimed |-> c, pending |-> p + 1]
                \/ /\ pc[t].op = "try_claim" /\ p > 0
                   /\ stat' = [claimed |-> c + 1, pending |-> p - 1]
                \/ /\ pc[t].op = "consume" /\ c > 0
                   /\ stat' = [claimed |-> c - 1, pending |-> p]
                \/ /\ pc[t].op = "rollback" /\ c > 0
                   /\ stat' = [claimed |-> c - 1, pending |-> p + 1]
<1> DEFINE c == stat.claimed  p == stat.pending  w == num[t]
<1>1. /\ w = stat /\ c \in Nat /\ p \in Nat /\ c < Width /\ p < Width
      /\ pc[t].op \in Op /\ stat' = Changed(pc[t].op, w)
  BY WordAssumption DEF Swap, IInv, ThreadInv, TypeOK, WordType, Half, Op
<1>2. p + c + Cardinality(Adding) <= 1 + Bound
  <2>1. p + c + Cardinality(Adding) <= 1 + added  BY DEF IInv
  <2>2. added \in Nat /\ added <= Bound  BY WordAssumption DEF IInv, TypeOK
  <2> QED  BY <1>1, <2>1, <2>2, Finite, WordAssumption
<1>3. CASE pc[t].op = "add_pending"
  <2>1. t \in Adding  BY <1>3 DEF Adding
  <2>2. Cardinality(Adding) # 0  BY <2>1, Finite, FS_EmptySet
  <2>3. p + c + 1 <= 1 + Bound
    BY <1>1, <1>2, <2>2, Finite, WordAssumption
  <2>4. c \in Half /\ p + 1 \in Half
    BY <1>1, <2>3, WordAssumption DEF Fits, Half
  <2>5. stat' = Word(c, p + 1)  BY <1>1, <1>3 DEF Changed
  <2> QED  BY <1>1, <1>3, <2>4, <2>5, WordHalves
<1>4. CASE pc[t].op = "try_claim"
  <2>1. p > 0  BY <1>1, <1>4 DEF IInv, ThreadInv, Swap
  <2>2. c + 1 \in Half /\ p - 1 \in Half
    BY <1>1, <1>2, <2>1, Finite, WordAssumption DEF Fits, Half
  <2>3. stat' = Word(c + 1, p - 1)  BY <1>1, <1>4 DEF Changed
  <2> QED  BY <1>1, <1>4, <2>1, <2>2, <2>3, WordHalves
<1>5. CASE pc[t].op = "consume"
  <2>1. owns[t]  BY <1>5 DEF IInv, ThreadInv
  <2>2. c > 0  BY <2>1, OwnerSeen
  <2>3. c - 1 \in Half /\ p \in Half
    BY <1>1, <2>2, WordAssumption DEF Half
  <2>4. stat' = Word(c - 1, p)  BY <1>1, <1>5, <2>2 DEF Changed
  <2> QED  BY <1>1, <1>5, <2>2, <2>3, <2>4, WordHalves
<1>6. CASE pc[t].op = "rollback"
  <2>1. c > 0  BY <1>1, <1>6 DEF IInv, ThreadInv, Swap
  <2>2. c - 1 \in Half /\ p + 1 \in Half
    BY <1>1, <1>2, <2>1, Finite, WordAssumption DEF Fits, Half
  <2>3. stat' = Word(c - 1, p + 1)  BY <1>1, <1>6 DEF Changed
  <2> QED  BY <1>1, <1>6, <2>1, <2>2, <2>3, WordHalves
<1> QED  BY <1>1, <1>3, <1>4, <1>5, <1>6 DEF Op

LEMMA SwapInv ==
  ASSUME IInv, Fits, NEW t \in Thread, Swap(t)
  PROVE  IInv'
<1>1. t \in Adding <=> pc[t].op = "add_pending"  BY DEF Adding
<1>2. Adding' = Adding \ {t}  BY DEF IInv, TypeOK, Adding, Swap, Idle
<1>3. Cardinality(Adding') = IF pc[t].op = "add_pending" THEN Cardinality(Adding) - 1 ELSE Cardinality(Adding)
  BY <1>1, <1>2, Finite, FS_RemoveElement
<1>4. Cardinality(Adding') \in Nat
  BY <1>2, Finite, FS_RemoveElement, FS_CardinalityType
<1>5. /\ stat'.pending + stat'.claimed + Cardinality(Adding') <= 1 + added'
      /\ stat'.pending \in Nat /\ stat'.claimed \in Nat
      /\ stat' = [claimed |-> stat'.claimed, pending |-> stat'.pending]
  <2>1. /\ stat.pending + stat.claimed + Cardinality(Adding) <= 1 + added
        /\ added \in Nat /\ added' = added
    BY WordAssumption DEF IInv, TypeOK, Swap
  <2> QED  BY <2>1, <1>3, <1>4, SwapEffect, Finite
<1>6. added' \in Nat /\ added' <= Bound
  BY WordAssumption DEF IInv, TypeOK, Swap
<1>7. stat' \in WordType
  <2>1. stat'.pending < Width /\ stat'.claimed < Width
    BY <1>4, <1>5, <1>6, WordAssumption DEF Fits
  <2> QED  BY <1>5, <2>1, WordAssumption DEF WordType, Half
<1>8. TypeOK'  BY <1>7 DEF IInv, TypeOK, Swap, Idle, Op
<1>9. \A u \in Thread : ThreadInv(u)'
  BY DEF IInv, TypeOK, ThreadInv, Swap, Idle, Op
<1>10. Cardinality(Owning') = stat'.claimed
  <2>1. CASE pc[t].op = "add_pending"
    <3>1. Owning' = Owning  BY <2>1 DEF IInv, ThreadInv, TypeOK, Owning, Swap
    <3> QED  BY <2>1, <3>1, SwapEffect DEF IInv, OwnersCounted, Owning
  <2>2. CASE pc[t].op = "try_claim"
    <3>1. Owning' = Owning \cup {t} /\ t \notin Owning
      BY <2>2 DEF IInv, ThreadInv, TypeOK, Owning, Swap
    <3>2. Cardinality(Owning') = Cardinality(Owning) + 1  BY <3>1, Finite, FS_AddElement
    <3> QED  BY <2>2, <3>2, SwapEffect DEF IInv, OwnersCounted, Owning
  <2>3. CASE pc[t].op \in {"consume", "rollback"}
    <3>1. Owning' = Owning \ {t} /\ t \in Owning
      BY <2>3 DEF IInv, ThreadInv, TypeOK, Owning, Swap
    <3>2. Cardinality(Owning') = Cardinality(Owning) - 1  BY <3>1, Finite, FS_RemoveElement
    <3> QED  BY <2>3, <3>2, SwapEffect DEF IInv, OwnersCounted, Owning
  <2> QED  BY <2>1, <2>2, <2>3, SwapEffect
<1> QED  BY <1>5, <1>8, <1>9, <1>10 DEF IInv, OwnersCounted, Owning

LEMMA NextInv == ASSUME Fits, IInv, [Next]_vars PROVE IInv'
<1>1. CASE UNCHANGED vars
  BY <1>1 DEF vars, IInv, TypeOK, ThreadInv, OwnersCounted, Adding
<1>2. ASSUME NEW t \in Thread, NEW op \in Op, Begin(t, op) PROVE IInv'  BY <1>2, BeginInv
<1>3. ASSUME NEW t \in Thread, Load(t) PROVE IInv'  BY <1>3, LoadInv
<1>4. ASSUME NEW t \in Thread, Swap(t) PROVE IInv'  BY <1>4, SwapInv
<1>5. ASSUME NEW t \in Thread, SwapFails(t) PROVE IInv'  BY <1>5, SwapFailsInv
<1> QED  BY <1>1, <1>2, <1>3, <1>4, <1>5 DEF Next

THEOREM Invariance == Fits /\ Spec => []IInv
<1> SUFFICES ASSUME Fits PROVE Spec => []IInv  OBVIOUS
<1>1. Init => IInv  BY InitInv
<1>2. IInv /\ [Next]_vars => IInv'  BY NextInv
<1> QED  BY <1>1, <1>2, PTL DEF Spec

\* The halves of a word and of every word a thread has loaded stay within their
\* width: no operation of Store.h:40-149 carries a bit from one half to the other.
THEOREM TypeCorrect == Fits /\ Spec => []TypeOK
<1> SUFFICES ASSUME Fits PROVE Spec => []TypeOK  OBVIOUS
<1>1. IInv => TypeOK  BY DEF IInv
<1>2. Spec => []IInv  BY Invariance
<1> QED  BY <1>1, <1>2, PTL

\* The claims of a status word are the copies that threads own (Store.h:40-131).
THEOREM OwnersAreCounted == Fits /\ Spec => []OwnersCounted
<1> SUFFICES ASSUME Fits PROVE Spec => []OwnersCounted  OBVIOUS
<1>1. IInv => OwnersCounted  BY DEF IInv
<1>2. Spec => []IInv  BY Invariance
<1> QED  BY <1>1, <1>2, PTL

\* The loops of Store.h:40-149 are single steps on two counters.
THEOREM WordIsCounter == Fits /\ Spec => ImplementsCounter
<1> SUFFICES ASSUME Fits PROVE Spec => ImplementsCounter  OBVIOUS
<1>1. Init => Counter!Init
  BY WordHalves, WordAssumption DEF Init, Counter!Init, Half, Fits
<1>2. IInv /\ [Next]_vars => [Counter!Next]_<<stat.pending, stat.claimed>>
  <2> SUFFICES ASSUME IInv, [Next]_vars
               PROVE  Counter!Next \/ UNCHANGED <<stat.pending, stat.claimed>>
    OBVIOUS
  <2>1. CASE UNCHANGED vars  BY <2>1 DEF vars
  <2>2. ASSUME NEW t \in Thread, Swap(t) PROVE Counter!Next
    BY <2>2, SwapEffect DEF Counter!Next, Counter!AddPending, Counter!TryClaim, Counter!Consume, Counter!Rollback
  <2>3. ASSUME NEW t \in Thread, (\E op \in Op : Begin(t, op)) \/ Load(t) \/ SwapFails(t)
        PROVE  UNCHANGED stat
    BY <2>3 DEF Begin, Load, SwapFails
  <2> QED  BY <2>1, <2>2, <2>3 DEF Next
<1>3. Spec => []IInv  BY Invariance
<1> QED  BY <1>1, <1>2, <1>3, PTL DEF Spec, ImplementsCounter, Counter!Spec
==============================================================================
