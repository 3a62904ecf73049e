--------------------------- MODULE UncountedProofs ---------------------------
(***************************************************************************)
(* Proofs about the uncounted engine, for any rules, programs and threads, *)
(* and for its three strategies at once: its types, with what every step   *)
(* of a thread relies on; that a claimed constraint has one claimer; and   *)
(* that all its steps together are those of CHR.                           *)
(***************************************************************************)
EXTENDS UncountedProperties, ChecklistProofs

(***************************************************************************)
(* The uncounted checklist.                                                *)
(***************************************************************************)
UseList == [rule : Nat, m : Seq(Maybe), used : Seq(Known), eat : Seq(Known), spare : SUBSET Nat]

\* A checklist in use: it has used what its match has, and consumes nothing else.
Sound(l) ==
  /\ l \in UseList /\ l.rule \in RuleId
  /\ l.m \in Match(l.rule, Known) /\ Named(l.rule, l.m)
  /\ In(l.used) = {l.m[h] : h \in Matched(l.rule, l.m)}
  /\ In(l.eat) \subseteq In(l.used)

Injective(q, I) == \A i, j \in I : q[i] = q[j] => i = j

LEMMA InConcat ==
  ASSUME NEW S, NEW a \in Seq(S), NEW b \in Seq(S)
  PROVE  In(a \o b) = In(a) \cup In(b)
<1>1. /\ DOMAIN a = 1..Len(a) /\ Len(a) \in Nat /\ DOMAIN b = 1..Len(b) /\ Len(b) \in Nat
      /\ DOMAIN (a \o b) = 1..(Len(a) + Len(b))
  BY LenProperties, ConcatProperties
<1>2. \A i \in 1..(Len(a) + Len(b)) : (a \o b)[i] = IF i <= Len(a) THEN a[i] ELSE b[i - Len(a)]
  BY ConcatProperties
<1>3. ASSUME NEW x \in In(a \o b) PROVE x \in In(a) \cup In(b)
  <2>1. PICK i \in 1..(Len(a) + Len(b)) : (a \o b)[i] = x  BY <1>1 DEF In
  <2>2. CASE i <= Len(a)  BY <1>1, <1>2, <2>1, <2>2 DEF In
  <2>3. CASE ~(i <= Len(a))
    <3>1. i - Len(a) \in 1..Len(b)  BY <1>1, <2>3
    <3> QED  BY <1>1, <1>2, <2>1, <2>3, <3>1 DEF In
  <2> QED  BY <2>2, <2>3
<1>4. ASSUME NEW x \in In(a) PROVE x \in In(a \o b)
  <2>1. PICK i \in 1..Len(a) : a[i] = x  BY <1>1 DEF In
  <2>2. i \in 1..(Len(a) + Len(b)) /\ i <= Len(a)  BY <1>1
  <2> QED  BY <1>1, <1>2, <2>1, <2>2 DEF In
<1>5. ASSUME NEW x \in In(b) PROVE x \in In(a \o b)
  <2>1. PICK i \in 1..Len(b) : b[i] = x  BY <1>1 DEF In
  <2>2. Len(a) + i \in 1..(Len(a) + Len(b)) /\ ~(Len(a) + i <= Len(a)) /\ (Len(a) + i) - Len(a) = i
    BY <1>1
  <2> QED  BY <1>1, <1>2, <2>1, <2>2 DEF In
<1> QED  BY <1>3, <1>4, <1>5

LEMMA InOne == ASSUME NEW s PROVE In(<<s>>) = {s} /\ In(<< >>) = {}
BY DEF In

\* The place of a constraint in the order of the ids.
LEMMA InsertPlace ==
  ASSUME NEW S \in SUBSET Nat, NEW q \in Seq(S), NEW s
  PROVE  Cardinality({i \in DOMAIN q : q[i] <= s}) \in 0..Len(q)
<1> DEFINE D == {i \in DOMAIN q : q[i] <= s}
<1>1. DOMAIN q = 1..Len(q) /\ Len(q) \in Nat  BY LenProperties
<1>2. IsFiniteSet(1..Len(q)) /\ Cardinality(1..Len(q)) = Len(q)
  <2>1. 1 \in Int /\ Len(q) \in Int  BY <1>1
  <2>2. IsFiniteSet(1..Len(q)) /\ Cardinality(1..Len(q)) = IF 1 > Len(q) THEN 0 ELSE Len(q) - 1 + 1
    BY <2>1, FS_Interval
  <2> QED  BY <1>1, <2>2
<1>3. D \in SUBSET (1..Len(q))  BY <1>1
<1> HIDE DEF D
<1>4. IsFiniteSet(D) /\ Cardinality(D) <= Cardinality(1..Len(q))  BY <1>2, <1>3, FS_Subset
<1>5. Cardinality(D) \in Nat  BY <1>4, FS_CardinalityType
<1> QED  BY <1>1, <1>2, <1>4, <1>5 DEF D

\* A constraint is inserted between two parts of the sequence.
LEMMA InsertParts ==
  ASSUME NEW S \in SUBSET Nat, NEW q \in Seq(S), NEW s \in S
  PROVE  \E n \in 0..Len(q) :
           /\ InsertById(q, s) \in Seq(S) /\ Len(InsertById(q, s)) = Len(q) + 1
           /\ \A i \in 1..(Len(q) + 1) :
                InsertById(q, s)[i] = IF i <= n THEN q[i] ELSE IF i = n + 1 THEN s ELSE q[i - 1]
<1> DEFINE c == Cardinality({i \in DOMAIN q : q[i] <= s})
<1>1. DOMAIN q = 1..Len(q) /\ Len(q) \in Nat  BY LenProperties
<1>2. c \in 0..Len(q)  BY InsertPlace
<1>3. PICK n : n = c  OBVIOUS
<1>4. PICK a : a = SubSeq(q, 1, n)  OBVIOUS
<1>5. PICK b : b = SubSeq(q, n + 1, Len(q))  OBVIOUS
<1>6. InsertById(q, s) = (a \o <<s>>) \o b  BY <1>3, <1>4, <1>5 DEF InsertById
<1>7. n \in 0..Len(q)  BY <1>2, <1>3
<1> HIDE DEF c
<1>8. a \in Seq(S) /\ Len(a) = n /\ \A i \in 1..n : a[i] = q[i]
  <2>1. \A i \in 1..n : q[i] \in S  BY <1>1, <1>7, ElementOfSeq
  <2>2. 1 \in Int /\ n \in Int  BY <1>7
  <2>3. /\ a \in Seq(S) /\ Len(a) = IF 1 <= n THEN n - 1 + 1 ELSE 0
        /\ \A i \in 1..(n - 1 + 1) : a[i] = q[1 + i - 1]
    BY <1>4, <2>1, <2>2, SubSeqProperties
  <2> QED  BY <1>7, <2>3
<1>9. b \in Seq(S) /\ Len(b) = Len(q) - n /\ \A i \in 1..(Len(q) - n) : b[i] = q[n + i]
  <2>1. \A i \in (n + 1)..Len(q) : q[i] \in S  BY <1>1, <1>7, ElementOfSeq
  <2>2. n + 1 \in Int /\ Len(q) \in Int  BY <1>1, <1>7
  <2>3. /\ b \in Seq(S) /\ Len(b) = IF n + 1 <= Len(q) THEN Len(q) - (n + 1) + 1 ELSE 0
        /\ \A i \in 1..(Len(q) - (n + 1) + 1) : b[i] = q[(n + 1) + i - 1]
    BY <1>5, <2>1, <2>2, SubSeqProperties
  <2>4. /\ Len(q) - (n + 1) + 1 = Len(q) - n /\ (n + 1 <= Len(q) \/ Len(q) - n = 0)
        /\ \A i \in 1..(Len(q) - n) : (n + 1) + i - 1 = n + i
    <3>1. \A j, k \in Nat : j <= k => /\ k - (j + 1) + 1 = k - j /\ (j + 1 <= k \/ k - j = 0)
                                     /\ \A i \in 1..(k - j) : (j + 1) + i - 1 = j + i
      OBVIOUS
    <3>2. n \in Nat /\ Len(q) \in Nat /\ n <= Len(q)  BY <1>1, <1>7
    <3> QED  BY <3>1, <3>2
  <2>5. Len(b) = Len(q) - n  BY <2>3, <2>4
  <2> QED  BY <2>3, <2>4, <2>5
<1>10. <<s>> \in Seq(S) /\ Len(<<s>>) = 1 /\ <<s>>[1] = s  OBVIOUS
<1>11. PICK x : x = <<s>>  OBVIOUS
<1>12. x \in Seq(S) /\ Len(x) = 1 /\ x[1] = s /\ InsertById(q, s) = (a \o x) \o b
  BY <1>6, <1>10, <1>11
<1>13. /\ a \o x \in Seq(S) /\ Len(a \o x) = n + 1
       /\ \A i \in 1..(n + 1) : (a \o x)[i] = IF i <= n THEN a[i] ELSE x[i - n]
  <2>1. /\ a \o x \in Seq(S) /\ Len(a \o x) = Len(a) + Len(x)
        /\ \A i \in 1..(Len(a) + Len(x)) : (a \o x)[i] = IF i <= Len(a) THEN a[i] ELSE x[i - Len(a)]
    BY <1>8, <1>12, ConcatProperties
  <2> QED  BY <1>8, <1>12, <2>1
<1>14. PICK y : y = a \o x  OBVIOUS
<1>15. PICK z : z = InsertById(q, s)  OBVIOUS
<1>16. /\ z \in Seq(S) /\ Len(z) = Len(q) + 1
       /\ \A i \in 1..(Len(q) + 1) : z[i] = IF i <= n + 1 THEN y[i] ELSE b[i - (n + 1)]
  <2>1. /\ y \o b \in Seq(S) /\ Len(y \o b) = Len(y) + Len(b)
        /\ \A i \in 1..(Len(y) + Len(b)) : (y \o b)[i] = IF i <= Len(y) THEN y[i] ELSE b[i - Len(y)]
    BY <1>9, <1>13, <1>14, ConcatProperties
  <2>2. z = y \o b  BY <1>12, <1>14, <1>15
  <2>3. Len(y) = n + 1  BY <1>13, <1>14
  <2>4. Len(y) + Len(b) = Len(q) + 1
    <3>1. \A i, j, k \in Nat : j <= k /\ i = j + 1 => i + (k - j) = k + 1  OBVIOUS
    <3>2. n \in Nat /\ Len(q) \in Nat /\ Len(y) \in Nat /\ n <= Len(q)  BY <1>1, <1>7, <2>3
    <3> QED  BY <1>9, <2>3, <3>1, <3>2
  <2> QED  BY <2>1, <2>2, <2>3, <2>4
<1>17. ASSUME NEW i \in 1..(Len(q) + 1)
       PROVE  z[i] = IF i <= n THEN q[i] ELSE IF i = n + 1 THEN s ELSE q[i - 1]
  <2>1. CASE i <= n
    <3>1. i \in 1..n /\ i \in 1..(n + 1) /\ i <= n + 1  BY <1>7, <2>1
    <3> QED  BY <1>8, <1>13, <1>14, <1>16, <2>1, <3>1
  <2>2. CASE i = n + 1
    <3>1. i \in 1..(n + 1) /\ i <= n + 1 /\ ~(i <= n) /\ i - n = 1  BY <1>7, <2>2
    <3> QED  BY <1>12, <1>13, <1>14, <1>16, <2>2, <3>1
  <2>3. CASE i > n + 1
    <3>1. /\ ~(i <= n + 1) /\ ~(i <= n) /\ i # n + 1
          /\ i - (n + 1) \in 1..(Len(q) - n) /\ n + (i - (n + 1)) = i - 1
      BY <1>1, <1>7, <2>3
    <3> QED  BY <1>9, <1>16, <3>1
  <2> QED  BY <1>7, <2>1, <2>2, <2>3
<1> QED  BY <1>7, <1>15, <1>16, <1>17

LEMMA InsertInto ==
  ASSUME NEW S \in SUBSET Nat, NEW q \in Seq(S), NEW s \in S
  PROVE  /\ InsertById(q, s) \in Seq(S) /\ In(InsertById(q, s)) = In(q) \cup {s}
         /\ InsertById(q, s) # << >>
         /\ Injective(q, DOMAIN q) /\ s \notin In(q) =>
              Injective(InsertById(q, s), DOMAIN InsertById(q, s))
<1>1. DOMAIN q = 1..Len(q) /\ Len(q) \in Nat  BY LenProperties
<1>2. PICK z : z = InsertById(q, s)  OBVIOUS
<1>3. PICK n \in 0..Len(q) :
        /\ z \in Seq(S) /\ Len(z) = Len(q) + 1
        /\ \A i \in 1..(Len(q) + 1) :
             z[i] = IF i <= n THEN q[i] ELSE IF i = n + 1 THEN s ELSE q[i - 1]
  <2>1. PICK n \in 0..Len(q) :
          /\ InsertById(q, s) \in Seq(S) /\ Len(InsertById(q, s)) = Len(q) + 1
          /\ \A i \in 1..(Len(q) + 1) :
               InsertById(q, s)[i] = IF i <= n THEN q[i] ELSE IF i = n + 1 THEN s ELSE q[i - 1]
    BY InsertParts
  <2> QED  BY <1>2, <2>1, Zenon
<1>4. DOMAIN z = 1..(Len(q) + 1)  BY <1>3, LenProperties
<1>5. ASSUME NEW x \in In(z) PROVE x \in In(q) \cup {s}
  <2>1. PICK i \in 1..(Len(q) + 1) : z[i] = x  BY <1>4 DEF In
  <2>2. i <= n => i \in 1..Len(q)  BY <1>1, <1>3
  <2>3. ~(i <= n) /\ i # n + 1 => i - 1 \in 1..Len(q)  BY <1>1, <1>3
  <2> QED  BY <1>1, <1>3, <2>1, <2>2, <2>3 DEF In
<1>6. ASSUME NEW x \in In(q) PROVE x \in In(z)
  <2>1. PICK i \in 1..Len(q) : q[i] = x  BY <1>1 DEF In
  <2>2. CASE i <= n
    <3>1. i \in 1..(Len(q) + 1)  BY <1>1
    <3> QED  BY <1>3, <1>4, <2>1, <2>2, <3>1 DEF In
  <2>3. CASE ~(i <= n)
    <3>1. i + 1 \in 1..(Len(q) + 1) /\ ~(i + 1 <= n) /\ i + 1 # n + 1 /\ (i + 1) - 1 = i
      BY <1>1, <1>3, <2>3
    <3> QED  BY <1>3, <1>4, <2>1, <3>1 DEF In
  <2> QED  BY <2>2, <2>3
<1>7. s \in In(z)
  <2>1. n + 1 \in 1..(Len(q) + 1) /\ ~(n + 1 <= n)  BY <1>1, <1>3
  <2> QED  BY <1>3, <1>4, <2>1 DEF In
<1>8. z # << >>  BY <1>3, <1>1
<1>9. ASSUME Injective(q, DOMAIN q), s \notin In(q) PROVE Injective(z, DOMAIN z)
  <2> SUFFICES ASSUME NEW i \in 1..(Len(q) + 1), NEW j \in 1..(Len(q) + 1), z[i] = z[j], i # j
               PROVE  FALSE
    BY <1>4 DEF Injective
  <2>1. \A k \in 1..(Len(q) + 1) : k # n + 1 => z[k] \in In(q)
    <3> SUFFICES ASSUME NEW k \in 1..(Len(q) + 1), k # n + 1 PROVE z[k] \in In(q)  OBVIOUS
    <3>1. k <= n => k \in 1..Len(q)  BY <1>1, <1>3
    <3>2. ~(k <= n) => k - 1 \in 1..Len(q)  BY <1>1, <1>3
    <3> QED  BY <1>1, <1>3, <3>1, <3>2 DEF In
  <2>2. z[n + 1] = s
    <3>1. n + 1 \in 1..(Len(q) + 1) /\ ~(n + 1 <= n)  BY <1>1, <1>3
    <3> QED  BY <1>3, <3>1
  <2>3. i # n + 1 /\ j # n + 1  BY <1>9, <2>1, <2>2
  <2> DEFINE f(k) == IF k <= n THEN k ELSE k - 1
  <2>4. f(i) \in 1..Len(q) /\ f(j) \in 1..Len(q) /\ f(i) # f(j)  BY <1>1, <1>3, <2>3
  <2>5. z[i] = q[f(i)] /\ z[j] = q[f(j)]  BY <1>3, <2>3
  <2> QED  BY <1>1, <1>9, <2>4, <2>5 DEF Injective
<1> QED  BY <1>2, <1>3, <1>5, <1>6, <1>7, <1>8, <1>9

\* An empty checklist, whatever is left of spare.
LEMMA EmptyListSound ==
  ASSUME NEW r \in RuleId, NEW p \in SUBSET Nat
  PROVE  /\ EmptyList(r).spare \in SUBSET Nat /\ EmptyList(r) = [EmptyList(r) EXCEPT !.spare = EmptyList(r).spare]
         /\ Sound([EmptyList(r) EXCEPT !.spare = p])
         /\ [EmptyList(r) EXCEPT !.spare = p].rule = r
         /\ [EmptyList(r) EXCEPT !.spare = p].used = << >>
         /\ \A s : Accepts(r, s) => FreeHeads(r, [EmptyList(r) EXCEPT !.spare = p].m, s) # {}
<1> DEFINE none == [h \in Heads(r) |-> None]
<1>1. PICK l : l = [EmptyList(r) EXCEPT !.spare = p]  OBVIOUS
<1>2. /\ EmptyList(r).spare \in SUBSET Nat
      /\ EmptyList(r) = [EmptyList(r) EXCEPT !.spare = EmptyList(r).spare]
  BY HeadNumbers DEF EmptyList
<1>3. l = [rule |-> r, m |-> none, used |-> << >>, eat |-> << >>, spare |-> p]
  BY <1>1 DEF EmptyList
<1>4. none \in Match(r, Known) /\ Named(r, none)  BY DEF Match, Named
<1>5. none \in Seq(Maybe)  BY <1>4, MatchIsSeq
<1>6. Matched(r, none) = {}  BY DEF Matched
<1>7. \A s : Accepts(r, s) => FreeHeads(r, none, s) # {}  BY DEF Accepts, FreeHeads, Matched
<1> HIDE DEF none
<1>8. l \in UseList
  <2>1. r \in Nat  BY HeadNumbers
  <2>2. << >> \in Seq(Known)  BY EmptySeq
  <2> QED  BY <1>3, <1>5, <2>1, <2>2 DEF UseList
<1>9. In(l.used) = {} /\ In(l.eat) = {}  BY <1>3, InOne
<1>10. {l.m[h] : h \in Matched(r, l.m)} = {}  BY <1>3, <1>6
<1>11. Sound(l)  BY <1>3, <1>4, <1>8, <1>9, <1>10 DEF Sound
<1> QED  BY <1>1, <1>2, <1>3, <1>7, <1>11

LEMMA NewListSound ==
  ASSUME NEW r \in RuleId, NEW e, e = EmptyList(r)
  PROVE  /\ Sound(e) /\ e.rule = r /\ e.used = << >>
         /\ \A s : Accepts(r, s) => FreeHeads(r, e.m, s) # {}
<1>1. PICK q : q = EmptyList(r).spare  OBVIOUS
<1>2. q \in SUBSET Nat /\ e = [EmptyList(r) EXCEPT !.spare = q]
  <2>1. {} \in SUBSET Nat  OBVIOUS
  <2> QED  BY <1>1, <2>1, EmptyListSound
<1>3. PICK d : d = [EmptyList(r) EXCEPT !.spare = q]  OBVIOUS
<1>4. Sound(d) /\ d.rule = r /\ d.used = << >>  BY <1>2, <1>3, EmptyListSound
<1>5. d = e  BY <1>2, <1>3
<1>6. e.m = [h \in Heads(r) |-> None]  BY DEF EmptyList
<1>7. Matched(r, e.m) = {}  BY <1>6 DEF Matched
<1> QED  BY <1>4, <1>5, <1>7 DEF Accepts, FreeHeads

\* Using a constraint that has a free head.
LEMMA UseSound ==
  ASSUME NEW l, Sound(l), NEW s \in Known, Known \subseteq Nat \ {None},
         FreeHeads(l.rule, l.m, s) # {}
  PROVE  /\ Sound(Use(l, s)) /\ Use(l, s).rule = l.rule
         /\ Use(l, s).used = InsertById(l.used, s)
<1> DEFINE h == Least(FreeHeads(l.rule, l.m, s))
           a == Use(l, s)
           same == {g \in l.spare : HeadName(l.rule, g) = con[s].name}
<1>1. h \in Heads(l.rule) /\ con[s].name = HeadName(l.rule, h) /\ l.m[h] = None
  <2>1. FreeHeads(l.rule, l.m, s) \in SUBSET Nat  BY HeadNumbers DEF Sound, FreeHeads
  <2>2. h \in FreeHeads(l.rule, l.m, s)  BY <2>1, LeastIn
  <2> QED  BY <2>2 DEF FreeHeads, Matched
<1> HIDE DEF h
<1>2. l \in [rule : Nat, m : Seq(Maybe), used : Seq(Known), eat : Seq(Known), spare : SUBSET Nat]
  BY DEF Sound, UseList
<1>3. Known \in SUBSET Nat  OBVIOUS
<1> DEFINE m == [l.m EXCEPT ![h] = s]
           u == InsertById(l.used, s)
           e == IF same = {} THEN l.eat ELSE Append(l.eat, s)
           p == IF same = {} THEN l.spare ELSE l.spare \ {Least(same)}
<1>4. a = [l EXCEPT !.m = m, !.used = u, !.eat = e, !.spare = p]  BY DEF Use, h
<1>5. m \in Match(l.rule, Known)  BY DEF Sound, Match
<1>6. Named(l.rule, m)  BY <1>1 DEF Sound, Match, Named
<1>7. m \in Seq(Maybe)  BY <1>5, MatchIsSeq DEF Sound
<1>8. u \in Seq(Known) /\ In(u) = In(l.used) \cup {s}  BY <1>2, <1>3, InsertInto
<1>9. e \in Seq(Known) /\ In(e) \subseteq In(l.eat) \cup {s}
  <2>1. CASE same = {}  BY <1>2, <2>1
  <2>2. CASE same # {}
    <3>1. PICK q : q = l.eat  OBVIOUS
    <3>2. q \in Seq(Known) /\ e = Append(q, s)  BY <1>2, <2>2, <3>1
    <3>3. /\ Append(q, s) \in Seq(Known) /\ Len(Append(q, s)) = Len(q) + 1
          /\ \A i \in 1..Len(q) : Append(q, s)[i] = q[i]
          /\ Append(q, s)[Len(q) + 1] = s
      BY <3>2, AppendProperties
    <3>4. DOMAIN Append(q, s) = 1..(Len(q) + 1) /\ DOMAIN q = 1..Len(q) /\ Len(q) \in Nat
      BY <3>2, <3>3, LenProperties
    <3>5. ASSUME NEW i \in 1..(Len(q) + 1) PROVE Append(q, s)[i] \in In(q) \cup {s}
      <4>1. i \in 1..Len(q) \/ i = Len(q) + 1  BY <3>4
      <4> QED  BY <3>3, <3>4, <4>1 DEF In
    <3>6. In(Append(q, s)) \subseteq In(q) \cup {s}  BY <3>4, <3>5 DEF In
    <3> QED  BY <3>1, <3>2, <3>3, <3>6
  <2> QED  BY <2>1, <2>2
<1>10. p \in SUBSET Nat  BY <1>2
<1>11. {m[g] : g \in Matched(l.rule, m)} = {l.m[g] : g \in Matched(l.rule, l.m)} \cup {s}
  <2>1. s # None  OBVIOUS
  <2>2. \A g \in Heads(l.rule) : m[g] = IF g = h THEN s ELSE l.m[g]  BY DEF Sound, Match
  <2> QED  BY <1>1, <2>1, <2>2 DEF Matched
<1> HIDE DEF m, u, e, p, a
<1>12. a.rule = l.rule /\ a.m = m /\ a.used = u /\ a.eat = e /\ a.spare = p  BY <1>2, <1>4
<1>13. a \in UseList  BY <1>2, <1>4, <1>7, <1>8, <1>9, <1>10 DEF UseList
<1>14. In(a.used) = {a.m[g] : g \in Matched(a.rule, a.m)}
  <2>1. In(l.used) = {l.m[g] : g \in Matched(l.rule, l.m)}  BY DEF Sound
  <2>2. In(u) = {m[g] : g \in Matched(l.rule, m)}  BY <1>8, <1>11, <2>1
  <2> QED  BY <1>12, <2>2
<1>15. In(a.eat) \subseteq In(a.used)  BY <1>8, <1>9, <1>12 DEF Sound
<1> QED  BY <1>5, <1>6, <1>12, <1>13, <1>14, <1>15 DEF Sound, a, u

\* A checklist that says the truth: its match is consistent and uses each of used_constraints_
\* once, and of a rule that keeps heads it consumes what matches the other heads.
Exact(l) ==
  /\ Consistent(l.rule, l.m)
  /\ Len(l.used) = Cardinality(Matched(l.rule, l.m))
  /\ Rules[l.rule].simpagation =>
       /\ DistinctNames(l.rule)
       /\ l.spare = {h \in Heads(l.rule) : h > Rules[l.rule].keep /\ l.m[h] = None}
       /\ In(l.eat) = {l.m[h] : h \in {g \in Matched(l.rule, l.m) : g > Rules[l.rule].keep}}

LEMMA EmptyListExact ==
  ASSUME NEW r \in RuleId, NEW p, NEW e, e = [EmptyList(r) EXCEPT !.spare = p],
         Rules[r].simpagation => DistinctNames(r) /\ p = EmptyList(r).spare
  PROVE  Exact(e) /\ \A s : Accepts(r, s) => Convenient(e.rule, e.m, s)
<1> DEFINE none == [h \in Heads(r) |-> None]
<1>1. e = [rule |-> r, m |-> none, used |-> << >>, eat |-> << >>, spare |-> p]
  BY DEF EmptyList
<1>2. \A h \in Heads(r) : none[h] = None  OBVIOUS
<1>3. Matched(r, none) = {}  BY DEF Matched
<1>4. p = EmptyList(r).spare /\ Rules[r].simpagation =>
        p = {h \in Heads(r) : h > Rules[r].keep /\ none[h] = None}
  BY DEF EmptyList
<1> HIDE DEF none
<1>5. Consistent(r, none)  BY <1>3 DEF Consistent
<1>6. Len(<< >>) = Cardinality(Matched(r, none))  BY <1>3, FS_EmptySet, EmptySeq
<1>7. In(<< >>) = {none[h] : h \in {g \in Matched(r, none) : g > Rules[r].keep}}  BY <1>3, InOne
<1>8. Exact(e)  BY <1>1, <1>4, <1>5, <1>6, <1>7 DEF Exact
<1>9. \A v : Bound(r, none, v) = {}  BY <1>3, BoundIs
<1>10. \A s : Accepts(r, s) => FreeHeads(r, none, s) # {}  BY <1>3 DEF Accepts, FreeHeads
<1>11. \A s : Accepts(r, s) => Convenient(r, none, s)  BY <1>9, <1>10 DEF Convenient
<1> QED  BY <1>1, <1>8, <1>11

LEMMA UseExact ==
  ASSUME NEW l, Sound(l), Exact(l), NEW s \in Known, Known \subseteq Nat \ {None},
         Convenient(l.rule, l.m, s)
  PROVE  Exact(Use(l, s))
<1> DEFINE h == Least(FreeHeads(l.rule, l.m, s))
           a == Use(l, s)
           same == {g \in l.spare : HeadName(l.rule, g) = con[s].name}
           m == [l.m EXCEPT ![h] = s]
<1>1. PICK r, q, e, p : r = l.rule /\ q = l.used /\ e = l.eat /\ p = l.spare  OBVIOUS
<1>2. r \in RuleId /\ q \in Seq(Known) /\ e \in Seq(Known) /\ l.m \in Match(r, Known) /\ Known \in SUBSET Nat
  BY <1>1 DEF Sound, UseList
<1>3. h \in Heads(r) /\ con[s].name = HeadName(r, h) /\ l.m[h] = None
  <2>1. FreeHeads(r, l.m, s) \in SUBSET Nat  BY <1>2, HeadNumbers DEF FreeHeads
  <2>2. h \in FreeHeads(r, l.m, s)  BY <1>1, <2>1, LeastIn DEF Convenient
  <2> QED  BY <2>2 DEF FreeHeads, Matched
<1>4. Consistent(r, m)
  <2>1. Consistent(r, l.m) /\ Convenient(r, l.m, s) /\ s # None  BY <1>1 DEF Exact
  <2>2. h = Least(FreeHeads(r, l.m, s))  BY <1>1
  <2> QED  BY <1>2, <2>1, <2>2, ConvenientConsistent
<1> HIDE DEF h
<1>5. \A g \in Heads(r) : m[g] = IF g = h THEN s ELSE l.m[g]  BY <1>2 DEF Match
<1>6. a.rule = r /\ a.m = m /\ a.used = InsertById(q, s)
      /\ a.eat = (IF same = {} THEN e ELSE Append(e, s))
      /\ a.spare = (IF same = {} THEN p ELSE p \ {Least(same)})
  BY <1>1 DEF Use, h, Sound, UseList
<1> HIDE DEF a, m, same
<1>7. Matched(r, m) = Matched(r, l.m) \cup {h} /\ h \notin Matched(r, l.m)
  <2>1. s # None  OBVIOUS
  <2> QED  BY <1>3, <1>5, <2>1 DEF Matched
<1>8. Len(a.used) = Cardinality(Matched(r, m))
  <2>1. Len(InsertById(q, s)) = Len(q) + 1  BY <1>2, InsertParts
  <2>2. IsFiniteSet(Matched(r, l.m))
    <3>1. Matched(r, l.m) \in SUBSET Heads(r)  BY DEF Matched
    <3> QED  BY <1>2, <3>1, HeadNumbers, FS_Subset
  <2>3. Cardinality(Matched(r, l.m) \cup {h}) = Cardinality(Matched(r, l.m)) + 1
    BY <1>7, <2>2, FS_AddElement
  <2> QED  BY <1>1, <1>6, <1>7, <2>1, <2>3 DEF Exact
<1>9. ASSUME Rules[r].simpagation
      PROVE  /\ a.spare = {g \in Heads(r) : g > Rules[r].keep /\ m[g] = None}
             /\ In(a.eat) = {m[g] : g \in {f \in Matched(r, m) : f > Rules[r].keep}}
  <2>1. /\ DistinctNames(r) /\ p = {g \in Heads(r) : g > Rules[r].keep /\ l.m[g] = None}
        /\ In(e) = {l.m[g] : g \in {f \in Matched(r, l.m) : f > Rules[r].keep}}
    BY <1>1, <1>9 DEF Exact
  <2>2. \A g \in Heads(r) : HeadName(r, g) = con[s].name <=> g = h  BY <1>3, <2>1 DEF DistinctNames
  <2>3. same = IF h > Rules[r].keep THEN {h} ELSE {}  BY <1>1, <1>3, <2>1, <2>2 DEF same
  <2>4. s # None /\ \A g \in Matched(r, l.m) : m[g] = l.m[g]  BY <1>5, <1>7 DEF Matched
  <2>5. CASE h > Rules[r].keep
    <3>1. same = {h} /\ Least(same) = h
      <4>1. same = {h}  BY <2>3, <2>5
      <4>2. same \in SUBSET Nat /\ same # {}  BY <1>2, <1>3, <4>1, HeadNumbers
      <4> QED  BY <4>1, <4>2, LeastIn
    <3>2. a.spare = p \ {h} /\ a.eat = Append(e, s)  BY <1>6, <3>1
    <3>3. a.spare = {g \in Heads(r) : g > Rules[r].keep /\ m[g] = None}
      BY <1>5, <2>1, <2>4, <3>2
    <3>4. In(Append(e, s)) = In(e) \cup {s}
      <4>1. /\ Append(e, s) \in Seq(Known) /\ Len(Append(e, s)) = Len(e) + 1
            /\ \A i \in 1..Len(e) : Append(e, s)[i] = e[i]
            /\ Append(e, s)[Len(e) + 1] = s
        BY <1>2, AppendProperties
      <4>2. /\ DOMAIN Append(e, s) = 1..(Len(e) + 1) /\ DOMAIN e = 1..Len(e) /\ Len(e) \in Nat
        BY <1>2, <4>1, LenProperties
      <4>3. 1..(Len(e) + 1) = (1..Len(e)) \cup {Len(e) + 1}  BY <4>2
      <4> QED  BY <4>1, <4>2, <4>3 DEF In
    <3>5. {f \in Matched(r, m) : f > Rules[r].keep} = {f \in Matched(r, l.m) : f > Rules[r].keep} \cup {h}
      BY <1>7, <2>5
    <3>6. m[h] = s  BY <1>3, <1>5
    <3> QED  BY <2>1, <2>4, <3>2, <3>3, <3>4, <3>5, <3>6
  <2>6. CASE ~(h > Rules[r].keep)
    <3>1. a.spare = p /\ a.eat = e  BY <1>6, <2>3, <2>6
    <3>2. p = {g \in Heads(r) : g > Rules[r].keep /\ m[g] = None}  BY <1>5, <2>1, <2>6
    <3>3. {f \in Matched(r, m) : f > Rules[r].keep} = {f \in Matched(r, l.m) : f > Rules[r].keep}
      BY <1>7, <2>6
    <3> QED  BY <2>1, <2>4, <3>1, <3>2, <3>3
  <2> QED  BY <2>5, <2>6
<1>10. Rules[r].simpagation => DistinctNames(r)  BY <1>1 DEF Exact
<1> QED  BY <1>4, <1>6, <1>8, <1>9, <1>10 DEF Exact, a

\* A complete match has used something.
LEMMA WholeUsed ==
  ASSUME NEW l, Sound(l), Complete(l.rule, l.m)
  PROVE  1 \in DOMAIN l.used /\ l.used # << >>
<1>1. 1 \in Heads(l.rule)
  <2>1. /\ Heads(l.rule) = 1..Len(Rules[l.rule].heads) /\ Len(Rules[l.rule].heads) \in Nat
    BY HeadNumbers DEF Sound
  <2>2. Rules[l.rule].keep < Len(Rules[l.rule].heads) /\ Rules[l.rule].keep \in Nat
    BY RulesAssumption, KeptHeadNumbers DEF Sound
  <2> QED  BY <2>1, <2>2
<1>2. l.m[1] \in In(l.used)  BY <1>1 DEF Sound, Complete
<1>3. PICK q : q = l.used  OBVIOUS
<1>4. q \in Seq(Known) /\ \E i \in DOMAIN q : TRUE  BY <1>2, <1>3 DEF Sound, UseList, In
<1>5. DOMAIN q = 1..Len(q) /\ Len(q) \in Nat  BY <1>4, LenProperties
<1>6. 1 \in DOMAIN q  BY <1>4, <1>5
<1>7. q # << >>  BY <1>6
<1> QED  BY <1>3, <1>6, <1>7

(***************************************************************************)
(* remove_constraint: the replay gives a checklist, of the same rule.      *)
(***************************************************************************)
Replays(l, s, f, n) ==
  f = [k \in 0..n |-> IF k = 0 THEN [EmptyList(l.rule) EXCEPT !.spare = l.spare]
                      ELSE Rematch(l, s, f[k - 1], k)]

LEMMA ReplayExists ==
  ASSUME NEW l, NEW s, NEW n \in Nat
  PROVE  \E f : Replays(l, s, f, n)
<1> DEFINE e0 == [EmptyList(l.rule) EXCEPT !.spare = l.spare]
           bad == {k \in 0..n : ~ \E f : Replays(l, s, f, k)}
<1>1. bad = {}
  <2> SUFFICES ASSUME bad # {} PROVE FALSE  OBVIOUS
  <2>1. PICK k : k = Least(bad)  OBVIOUS
  <2>2. k \in bad /\ \A j \in bad : k <= j
    <3>1. bad \in SUBSET Nat  OBVIOUS
    <3> HIDE DEF bad
    <3> QED  BY <2>1, <3>1, LeastIn
  <2>3. k # 0
    <3>1. Replays(l, s, [j \in 0..0 |-> e0], 0)  BY DEF Replays
    <3> QED  BY <2>2, <3>1
  <2>4. k \in Nat /\ k - 1 \in 0..n /\ ~(k <= k - 1)  BY <2>2, <2>3
  <2>5. PICK f : Replays(l, s, f, k - 1)  BY <2>2, <2>4
  <2> DEFINE g == [j \in 0..k |-> IF j = 0 THEN e0 ELSE Rematch(l, s, f[j - 1], j)]
  <2>6. \A j \in 0..(k - 1) : f[j] = IF j = 0 THEN e0 ELSE Rematch(l, s, f[j - 1], j)
    BY <2>5 DEF Replays
  <2> HIDE DEF e0
  <2>7. \A j \in 0..(k - 1) : g[j] = f[j]
    <3>1. \A j \in 0..(k - 1) : j \in 0..k  BY <2>4
    <3> QED  BY <2>6, <3>1
  <2>8. ASSUME NEW j \in 0..k
        PROVE  g[j] = IF j = 0 THEN e0 ELSE Rematch(l, s, g[j - 1], j)
    <3>1. j # 0 => j - 1 \in 0..(k - 1)  BY <2>4
    <3> QED  BY <2>7, <3>1
  <2>9. g = [j \in 0..k |-> IF j = 0 THEN e0 ELSE Rematch(l, s, g[j - 1], j)]
    <3>1. PICK G : G = g  OBVIOUS
    <3>2. G = [j \in 0..k |-> G[j]]  BY <3>1
    <3>3. \A j \in 0..k : G[j] = IF j = 0 THEN e0 ELSE Rematch(l, s, G[j - 1], j)  BY <2>8, <3>1
    <3> QED  BY <3>1, <3>2, <3>3
  <2>10. Replays(l, s, g, k)  BY <2>9 DEF Replays, e0
  <2> QED  BY <2>2, <2>10
<1> QED  BY <1>1

LEMMA RematchSound ==
  ASSUME NEW l, Sound(l), NEW s, NEW d, Sound(d), d.rule = l.rule, NEW k \in DOMAIN l.used,
         Known \subseteq Nat \ {None}
  PROVE  /\ Sound(Rematch(l, s, d, k)) /\ Rematch(l, s, d, k).rule = l.rule
         /\ In(d.used) \subseteq In(l.used) => In(Rematch(l, s, d, k).used) \subseteq In(l.used)
         /\ Exact(d) => Exact(Rematch(l, s, d, k))
<1>1. PICK e, q, a : e = l.used[k] /\ q = d.used /\ a = Use(d, e)  OBVIOUS
<1>2. e \in Known /\ e \in In(l.used)
  <2>1. l.used \in Seq(Known)  BY DEF Sound, UseList
  <2> QED  BY <1>1, <2>1, LenProperties, ElementOfSeq DEF In
<1>3. ASSUME Convenient(l.rule, d.m, e)
      PROVE  /\ Sound(a) /\ a.rule = l.rule /\ In(a.used) = In(q) \cup {e}
             /\ Exact(d) => Exact(a)
  <2>1. FreeHeads(d.rule, d.m, e) # {} /\ Convenient(d.rule, d.m, e)  BY <1>3 DEF Convenient
  <2>2. Sound(a) /\ a.rule = d.rule /\ a.used = InsertById(q, e)  BY <1>1, <1>2, <2>1, UseSound
  <2>3. q \in Seq(Known) /\ Known \in SUBSET Nat  BY <1>1 DEF Sound, UseList
  <2>4. In(InsertById(q, e)) = In(q) \cup {e}  BY <1>2, <2>3, InsertInto
  <2>5. Exact(d) => Exact(a)  BY <1>1, <1>2, <2>1, UseExact
  <2> QED  BY <2>2, <2>4, <2>5
<1>4. CASE /\ l.used[k] # s
           /\ Len(d.used) = Cardinality({j \in 1..(k - 1) : l.used[j] # s})
           /\ Convenient(l.rule, d.m, l.used[k])
  <2>1. Rematch(l, s, d, k) = a  BY <1>1, <1>4 DEF Rematch
  <2>2. Convenient(l.rule, d.m, e)  BY <1>1, <1>4
  <2> QED  BY <1>1, <1>2, <1>3, <2>1, <2>2
<1>5. CASE ~(/\ l.used[k] # s
             /\ Len(d.used) = Cardinality({j \in 1..(k - 1) : l.used[j] # s})
             /\ Convenient(l.rule, d.m, l.used[k]))
  <2>1. Rematch(l, s, d, k) = d  BY <1>5 DEF Rematch
  <2> QED  BY <2>1
<1> QED  BY <1>4, <1>5

\* Where no heads are kept the replay is exact; no constraint comes to it.
LEMMA TakeOutSound ==
  ASSUME NEW l, Sound(l), NEW s, Known \subseteq Nat \ {None}
  PROVE  /\ Sound(TakeOut(l, s)) /\ TakeOut(l, s).rule = l.rule
         /\ In(TakeOut(l, s).used) \subseteq In(l.used)
         /\ ~Rules[l.rule].simpagation => Exact(TakeOut(l, s))
<1> DEFINE n == Len(l.used)
<1>1. n \in Nat /\ DOMAIN l.used = 1..n  BY LenProperties DEF Sound, UseList
<1>2. PICK f : f = CHOOSE g : Replays(l, s, g, n)  OBVIOUS
<1>3. TakeOut(l, s) = f[n]  BY <1>2 DEF TakeOut, Replays
<1> HIDE DEF n
<1>4. Replays(l, s, f, n)  BY <1>1, <1>2, ReplayExists
<1> DEFINE Fine(d) == /\ Sound(d) /\ d.rule = l.rule /\ In(d.used) \subseteq In(l.used)
                      /\ ~Rules[l.rule].simpagation => Exact(d)
           bad == {k \in 0..n : ~Fine(f[k])}
<1>5. bad = {}
  <2> SUFFICES ASSUME bad # {} PROVE FALSE  OBVIOUS
  <2>1. PICK k : k = Least(bad)  OBVIOUS
  <2>2. k \in bad /\ \A j \in bad : k <= j
    <3>1. bad \in SUBSET Nat  OBVIOUS
    <3> HIDE DEF bad
    <3> QED  BY <2>1, <3>1, LeastIn
  <2>3. f[k] = IF k = 0 THEN [EmptyList(l.rule) EXCEPT !.spare = l.spare] ELSE Rematch(l, s, f[k - 1], k)
    BY <1>4, <2>2 DEF Replays
  <2>4. Fine([EmptyList(l.rule) EXCEPT !.spare = l.spare])
    <3>1. PICK e : e = [EmptyList(l.rule) EXCEPT !.spare = l.spare]  OBVIOUS
    <3>2. l.rule \in RuleId /\ l.spare \in SUBSET Nat  BY DEF Sound, UseList
    <3>3. Sound(e) /\ e.rule = l.rule /\ e.used = << >>  BY <3>1, <3>2, EmptyListSound
    <3>4. ~Rules[l.rule].simpagation => Exact(e)  BY <3>1, <3>2, EmptyListExact
    <3>5. In(e.used) = {}  BY <3>3, InOne
    <3> QED  BY <3>1, <3>3, <3>4, <3>5
  <2>5. CASE k = 0  BY <2>2, <2>3, <2>4, <2>5
  <2>6. CASE k # 0
    <3>1. k - 1 \in 0..n /\ ~(k <= k - 1) /\ k \in 1..n  BY <1>1, <2>2, <2>6
    <3>2. Fine(f[k - 1])  BY <2>2, <3>1
    <3>3. PICK d : d = f[k - 1] /\ Fine(d) /\ Sound(d) /\ d.rule = l.rule  BY <3>2
    <3>4. /\ Sound(Rematch(l, s, d, k)) /\ Rematch(l, s, d, k).rule = l.rule
          /\ In(d.used) \subseteq In(l.used) => In(Rematch(l, s, d, k).used) \subseteq In(l.used)
          /\ Exact(d) => Exact(Rematch(l, s, d, k))
      <4>1. k \in DOMAIN l.used  BY <1>1, <3>1
      <4>2. Sound(d) /\ d.rule = l.rule  BY <3>3
      <4> HIDE DEF Fine, bad
      <4> QED  BY <4>1, <4>2, RematchSound
    <3>5. Fine(Rematch(l, s, f[k - 1], k))  BY <3>3, <3>4
    <3> QED  BY <2>2, <2>3, <2>6, <3>5
  <2> QED  BY <2>5, <2>6
<1>6. Fine(f[n])
  <2>1. n \in 0..n  BY <1>1
  <2> QED  BY <1>5, <2>1
<1> QED  BY <1>3, <1>6

\* What the body of a rule is called with.
LEMMA OrderedNames ==
  ASSUME NEW l, Sound(l), Complete(l.rule, l.m), con \in Seq(Con)
  PROVE  /\ Ordered(l) \in [Heads(l.rule) -> Con]
         /\ \A h \in Heads(l.rule) : Ordered(l)[h].name = HeadName(l.rule, h)
         /\ \A h \in Heads(l.rule) : \E s \in Known : Ordered(l)[h] = con[s]
<1> DEFINE p == ById(l.rule, l.m)
<1>1. Known \in SUBSET Nat  BY LenProperties DEF Known
<1>2. p \in Match(l.rule, Known) /\ Named(l.rule, p) /\ Complete(l.rule, p)
  BY <1>1, ByIdMatch DEF Sound
<1> HIDE DEF p
<1>3. ASSUME NEW h \in Heads(l.rule)
      PROVE  p[h] \in Known /\ con[p[h]] \in Con /\ con[p[h]].name = HeadName(l.rule, h)
  <2>1. p[h] # None /\ p[h] \in Known  BY <1>2 DEF Complete, Matched, Match
  <2>2. con[p[h]] \in Con  BY <2>1, LenProperties, ElementOfSeq DEF Known
  <2> QED  BY <1>2, <2>1, <2>2 DEF Named
<1>4. Ordered(l) = [h \in Heads(l.rule) |-> con[p[h]]]  BY DEF Ordered, p
<1> QED  BY <1>3, <1>4

(***************************************************************************)
(* The inductive invariant of the types: what a thread relies on at each   *)
(* of its steps, and what the driver of a batch relies on.                 *)
(***************************************************************************)
Listed == {"open", "look", "claim", "saw", "again", "giveback", "commit", "rollback", "consume", "body"}
Steering == {"fill", "peek", "peekclaimed", "requeue", "collect", "triggered", "retry"}
Tasked == Listed \cup {"check", "try", "stolen", "stolenpending", "addback", "passiveclaimed",
                       "peek", "peekclaimed", "requeue", "triggered", "retry"}
Entering == {"insert", "index", "push", "enqueue"}

\* The entry of the bucket that is looked at exists and is convenient.
Facing(t) ==
  /\ cur[t].at \in DOMAIN Bucket(cur[t].bkt)
  /\ Convenient(list[t].rule, list[t].m, Here(t))

Faithful(l) == FaithfulRule(mode, l.rule) => Exact(l)

PlaceInv(t) ==
  /\ pc[t] \in Tasked => Goal(t) # None
  /\ pc[t] \in Entering => new[t].goal # None
  /\ pc[t] = "insert" => calls[t] # << >>
  /\ pc[t] \in Listed => Sound(list[t]) /\ Faithful(list[t])
  /\ pc[t] \in {"commit", "consume", "body"} => Complete(list[t].rule, list[t].m)
  /\ pc[t] \in {"look", "claim", "saw"} => Facing(t)
  /\ pc[t] \in {"commit", "rollback", "giveback"} => cur[t].at \in DOMAIN list[t].used
  /\ pc[t] = "consume" => cur[t].at \in DOMAIN Settled(list[t])
  /\ pc[t] \in {"claim", "saw", "giveback"} => mode = "PESSIMISTIC"
  /\ pc[t] \in {"again", "commit", "rollback"} => mode # "PESSIMISTIC"
  /\ pc[t] \in Listed /\ mode = "PESSIMISTIC" =>
       list[t].used # << >> /\ Accepts(list[t].rule, Goal(t))

\* Only the driver is in run_parallel; a thread that is no handle has nothing to do;
\* the goal taken last has no thread yet.
Resting(s) == pc[s] = "ready" /\ calls[s] = << >> /\ Goal(s) = None
BatchInv ==
  /\ \A t \in Thread : pc[t] \in Steering => t = Driver
  /\ \A s \in Slot : s \notin In(batch.handles) => Resting(s)
  /\ pc[Driver] = "peek" => batch.taken # 0
  /\ pc[Driver] \in {"fill", "peek", "peekclaimed", "requeue"} =>
       \A s \in In(batch.handles) : \E i \in DOMAIN Slots :
         s = Slots[i] /\ i <= batch.taken /\ (pc[Driver] = "peek" => i # batch.taken)

IInv == TypeOK /\ BatchInv /\ \A t \in Thread : PlaceInv(t)

(***************************************************************************)
(* The frame of a step.                                                    *)
(***************************************************************************)
Stays(u) ==
  /\ pc'[u] = pc[u] /\ calls'[u] = calls[u] /\ job'[u] = job[u] /\ new'[u] = new[u]
  /\ list'[u] = list[u] /\ cur'[u] = cur[u] /\ held'[u] = held[u]
Frame(t) == \A u \in Thread \ {t} : Stays(u)
Longer == \A k \in Entries : /\ DOMAIN bucket[k] \subseteq DOMAIN bucket'[k]
                             /\ \A i \in DOMAIN bucket[k] : bucket'[k][i] = bucket[k][i]

LEMMA Stati ==
  ASSUME TypeOK
  PROVE  /\ Known = 1..Len(con) /\ Len(con) \in Nat /\ Known \subseteq Status
         /\ Known \subseteq Nat \ {None} /\ None \notin Known
<1>1. Known = 1..Len(con) /\ Len(con) \in Nat  BY LenProperties DEF TypeOK, Known
<1>2. Len(con) <= MaxStatus /\ MaxStatus \in Nat  BY RulesAssumption DEF TypeOK
<1> QED  BY <1>1, <1>2 DEF Status, None

LEMMA SameTypes ==
  ASSUME con' = con
  PROVE  Known' = Known /\ Maybe' = Maybe /\ UseList' = UseList /\ Grown
BY DEF Known, Maybe, UseList, Grown

LEMMA SoundStable ==
  ASSUME NEW l, Sound(l), Grown
  PROVE  Sound(l)' /\ (Complete(l.rule, l.m) => Complete(l.rule, l.m)')
<1>1. Known \subseteq Known' /\ Maybe \subseteq Maybe'  BY DEF Grown, Maybe
<1>2. l \in [rule : Nat, m : Seq(Maybe), used : Seq(Known), eat : Seq(Known), spare : SUBSET Nat]
  BY DEF Sound, UseList
<1>3. l.m \in Seq(Maybe') /\ l.used \in Seq(Known') /\ l.eat \in Seq(Known')
  BY <1>1, <1>2, SeqMonotonic
<1>4. l \in UseList'  BY <1>2, <1>3 DEF UseList
<1>5. l.m \in Match(l.rule, Known')  BY <1>1 DEF Sound, Match
<1>6. Named(l.rule, l.m)'  BY DEF Sound, Named, Grown, Match
<1> QED  BY <1>4, <1>5, <1>6 DEF Sound, Complete, Matched

LEMMA ExactStable ==
  ASSUME NEW l, Sound(l), Faithful(l), Grown, mode' = mode
  PROVE  Faithful(l)'
<1>1. l.rule \in RuleId /\ l.m \in Match(l.rule, Known)  BY DEF Sound
<1>2. Consistent(l.rule, l.m)' <=> Consistent(l.rule, l.m)
  <2>1. PICK r, m : r = l.rule /\ m = l.m  OBVIOUS
  <2> QED  BY <1>1, <2>1, BoundStable
<1>3. Exact(l)' <=> Exact(l)  BY <1>2 DEF Exact, Matched, DistinctNames, HeadName, In
<1>4. FaithfulRule(mode, l.rule)' <=> FaithfulRule(mode, l.rule)
  BY DEF FaithfulRule, DistinctNames, Separate, HeadName, HeadVars
<1> QED  BY <1>3, <1>4 DEF Faithful

LEMMA HereKnown ==
  ASSUME TypeOK, NEW t \in Thread, Facing(t)
  PROVE  Here(t) \in Known /\ cur[t].bkt \in Entries /\ Here(t) = bucket[cur[t].bkt][cur[t].at]
<1>1. cur[t].bkt \in Entries
  <2>1. cur[t].bkt \notin Entries => Bucket(cur[t].bkt) = << >>  BY DEF Bucket
  <2> QED  BY <2>1 DEF Facing
<1>2. bucket[cur[t].bkt] \in Seq(Known)  BY <1>1 DEF TypeOK
<1> QED  BY <1>1, <1>2, LenProperties, ElementOfSeq DEF Facing, Bucket, Here

LEMMA FacingStable ==
  ASSUME TypeOK, NEW u \in Thread, Sound(list[u]), Facing(u), cur'[u] = cur[u], list'[u] = list[u],
         Grown, Longer
  PROVE  Facing(u)' /\ Here(u)' = Here(u)
<1>1. /\ Here(u) \in Known /\ cur[u].bkt \in Entries
      /\ Here(u) = bucket[cur[u].bkt][cur[u].at]
  BY HereKnown
<1>2. Here(u)' = Here(u) /\ cur'[u].at \in DOMAIN Bucket(cur[u].bkt)'
  BY <1>1 DEF Facing, Bucket, Here, Longer
<1>3. PICK r, m, s : r = list[u].rule /\ m = list[u].m /\ s = Here(u)  OBVIOUS
<1>4. r \in RuleId /\ m \in Match(r, Known) /\ s \in Known /\ Convenient(r, m, s)
  BY <1>1, <1>3 DEF Sound, Facing
<1>5. Convenient(r, m, s)'  BY <1>4, ConvenientStable
<1>6. list'[u].rule = r /\ list'[u].m = m /\ Here(u)' = s  BY <1>2, <1>3
<1>7. Convenient(list[u].rule, list[u].m, Here(u))'  BY <1>5, <1>6
<1> QED  BY <1>2, <1>7 DEF Facing

LEMMA OthersStay ==
  ASSUME TypeOK, NEW u \in Thread, PlaceInv(u), Stays(u), Grown, Longer, mode' = mode
  PROVE  PlaceInv(u)'
<1>1. PICK l : l = list[u]  OBVIOUS
<1>2. list'[u] = l  BY <1>1 DEF Stays
<1>3. Sound(l) => Sound(l)' /\ (Complete(l.rule, l.m) => Complete(l.rule, l.m)')  BY SoundStable
<1>4. /\ Sound(list[u]) => Sound(list[u])'
      /\ Sound(list[u]) /\ Complete(list[u].rule, list[u].m) => Complete(list[u].rule, list[u].m)'
      /\ Sound(list[u]) /\ Faithful(list[u]) => Faithful(list[u])'
  <2>1. Sound(l) /\ Faithful(l) => Faithful(l)'  BY ExactStable
  <2> QED  BY <1>1, <1>2, <1>3, <2>1
<1>5. Sound(list[u]) /\ Facing(u) => Facing(u)'  BY FacingStable DEF Stays
<1>6. Settled(list[u])' = Settled(list[u])  BY <1>1, <1>2 DEF Settled
<1>7. Goal(u)' = Goal(u)  BY DEF Goal, Stays
<1>8. Goal(u) # None /\ Accepts(list[u].rule, Goal(u)) => Accepts(list[u].rule, Goal(u))'
  <2>1. Goal(u) \in Maybe  BY DEF TypeOK, Goal
  <2> QED  BY <1>1, <1>2, <1>7, <2>1 DEF Accepts, Grown, Maybe
<1>9. /\ pc[u] \in Listed => pc[u] \in Tasked
      /\ pc[u] \in {"look", "claim", "saw"} => pc[u] \in Listed
  BY DEF Tasked, Listed
<1> QED  BY <1>1, <1>2, <1>4, <1>5, <1>6, <1>7, <1>8, <1>9 DEF PlaceInv, Stays

\* A step of one thread that is not the driver's keeps the invariant if it keeps the
\* types and what is said of its own thread.
LEMMA OwnStep ==
  ASSUME IInv, TypeOK', NEW t \in Thread, Frame(t), Grown, Longer, mode' = mode, batch' = batch,
         PlaceInv(t)', pc[t] \notin Steering, pc'[t] \notin Steering, t \in Slot => ~Resting(t)
  PROVE  IInv'
<1>1. \A u \in Thread : PlaceInv(u)'  BY OthersStay DEF IInv, Frame
<1>2. BatchInv'
  <2>1. \A u \in Thread : u # t => pc'[u] = pc[u] /\ (Resting(u) => Resting(u)')
    BY DEF Frame, Stays, Resting, Goal
  <2>2. Slot \subseteq Thread /\ Driver \in Thread  BY UncountedAssumption DEF Thread
  <2>3. \A u \in Thread : pc'[u] \in Steering => u = Driver  BY <2>1 DEF IInv, BatchInv
  <2>4. \A s \in Slot : s \notin In(batch.handles) => Resting(s)'  BY <2>1, <2>2 DEF IInv, BatchInv
  <2>5. pc'[Driver] \in Steering => pc'[Driver] = pc[Driver]  BY <2>1, <2>2
  <2>6. {"fill", "peek", "peekclaimed", "requeue"} \subseteq Steering  BY DEF Steering
  <2> QED  BY <2>3, <2>4, <2>5, <2>6 DEF IInv, BatchInv
<1> QED  BY <1>1, <1>2 DEF IInv

(***************************************************************************)
(* Adding a constraint.                                                    *)
(***************************************************************************)
LEMMA TypesGrow ==
  ASSUME TypeOK, Grown
  PROVE  /\ bucket \in [Entries -> Seq(Known')] /\ queue \in Seq(Known') /\ tasks \in Seq(Known')
         /\ job \in [Thread -> [goal : Maybe', op : {"batch", "async", "sync"}, saw : BOOLEAN,
                                left : 0..3, fired : BOOLEAN, retry : BOOLEAN]]
         /\ new \in [Thread -> [goal : Maybe', op : {"add", "async", "sync"}]]
         /\ list \in [Thread -> UseList'] /\ held \in [Thread -> SUBSET Known']
<1>1. Known \subseteq Known' /\ Maybe \subseteq Maybe'  BY DEF Grown, Maybe
<1>2. Seq(Known) \subseteq Seq(Known') /\ Seq(Maybe) \subseteq Seq(Maybe')  BY <1>1, SeqMonotonic
<1>3. UseList \subseteq UseList'  BY <1>2 DEF UseList
<1>4. list \in [Thread -> UseList]  BY DEF TypeOK, UseList
<1>5. list \in [Thread -> UseList']  BY <1>3, <1>4
<1> QED  BY <1>1, <1>2, <1>5 DEF TypeOK

LEMMA CreateKeeps ==
  ASSUME IInv, NEW t \in Thread, Create(t)
  PROVE  IInv' /\ Frame(t) /\ Grown
<1> DEFINE c == Head(calls[t]).con
           o == Head(calls[t]).op
<1>1. /\ pc[t] = "ready" /\ calls[t] # << >> /\ Len(con) < MaxStatus /\ con' = Append(con, c)
      /\ new' = [new EXCEPT ![t] = [goal |-> Len(con) + 1, op |-> o]] /\ Jump(t, "insert")
      /\ UNCHANGED <<state, bucket, queue, tasks, mode, batch, calls, job, keys, list, cur, held>>
  BY DEF Create, search
<1>2. TypeOK  BY DEF IInv
<1>3. c \in Con /\ o \in {"add", "async", "sync"}
  <2>1. calls[t] \in Seq(Call)  BY <1>2 DEF TypeOK
  <2>2. Head(calls[t]) \in Call  BY <1>1, <2>1, HeadTailProperties
  <2> QED  BY <2>2 DEF Call
<1> HIDE DEF c, o
<1>4. /\ con' \in Seq(Con) /\ Len(con') = Len(con) + 1 /\ Known' = 1..(Len(con) + 1) /\ Grown
      /\ Len(con) \in Nat
  <2>1. con \in Seq(Con)  BY <1>2 DEF TypeOK
  <2>2. /\ con' \in Seq(Con) /\ Len(con') = Len(con) + 1
        /\ \A i \in 1..Len(con) : con'[i] = con[i]
    BY <1>1, <1>3, <2>1, AppendProperties
  <2>3. Known = 1..Len(con) /\ Len(con) \in Nat  BY <1>2, Stati
  <2>4. Known' = 1..(Len(con) + 1)  BY <2>2, LenProperties DEF Known
  <2> QED  BY <2>2, <2>3, <2>4 DEF Grown
<1>5. Len(con') <= MaxStatus  BY <1>1, <1>4, RulesAssumption
<1>6. Len(con) + 1 \in Known' /\ Len(con) + 1 # None /\ Len(con) + 1 \in Maybe'
  BY <1>4 DEF None, Maybe
<1>7. pc' \in [Thread -> PC] /\ pc'[t] = "insert"  BY <1>1, <1>2 DEF Jump, TypeOK, PC
<1>8. /\ new' \in [Thread -> [goal : Maybe', op : {"add", "async", "sync"}]]
      /\ new'[t].goal # None
  BY <1>1, <1>2, <1>3, <1>4, <1>6, TypesGrow
<1>9. TypeOK'
  <2>1. list' \in [Thread -> UseList']  BY <1>1, <1>2, <1>4, TypesGrow
  <2> QED  BY <1>1, <1>2, <1>4, <1>5, <1>7, <1>8, <2>1, TypesGrow DEF TypeOK, UseList
<1>10. Frame(t)  BY <1>1, <1>2 DEF Frame, Stays, Jump, TypeOK
<1>11. Longer  BY <1>1 DEF Longer
<1>12. PlaceInv(t)'  BY <1>1, <1>7, <1>8 DEF PlaceInv, Listed, Tasked, Entering
<1>13. pc[t] \notin Steering /\ pc'[t] \notin Steering  BY <1>1, <1>7 DEF Steering
<1> QED  BY <1>1, <1>4, <1>9, <1>10, <1>11, <1>12, <1>13, OwnStep DEF Resting

LEMMA BucketAppend ==
  ASSUME TypeOK, con' = con, NEW s \in Known, NEW k, bucket' = [bucket EXCEPT ![k] = Append(@, s)]
  PROVE  bucket' \in [Entries -> Seq(Known')] /\ Longer
<1>1. \A e \in Entries : bucket[e] \in Seq(Known)  BY DEF TypeOK
<1>2. ASSUME NEW e \in Entries
      PROVE  /\ bucket'[e] \in Seq(Known) /\ DOMAIN bucket[e] \subseteq DOMAIN bucket'[e]
             /\ \A i \in DOMAIN bucket[e] : bucket'[e][i] = bucket[e][i]
  <2>1. PICK q : q = bucket[e]  OBVIOUS
  <2>2. /\ Append(q, s) \in Seq(Known) /\ Len(Append(q, s)) = Len(q) + 1
        /\ \A i \in 1..Len(q) : Append(q, s)[i] = q[i]
    BY <1>1, <2>1, AppendProperties
  <2>3. /\ DOMAIN q = 1..Len(q) /\ Len(q) \in Nat /\ DOMAIN Append(q, s) = 1..(Len(q) + 1)
    BY <1>1, <2>1, <2>2, LenProperties
  <2>4. bucket'[e] = q \/ bucket'[e] = Append(q, s)  BY <2>1 DEF TypeOK
  <2> QED  BY <1>1, <2>1, <2>2, <2>3, <2>4
<1>3. bucket' = [e \in Entries |-> bucket'[e]]  BY DEF TypeOK
<1>4. bucket' \in [Entries -> Seq(Known)]  BY <1>2, <1>3
<1> QED  BY <1>2, <1>4, SameTypes DEF Longer

LEMMA InsertKeeps ==
  ASSUME IInv, NEW t \in Thread, Insert(t)
  PROVE  IInv' /\ Frame(t) /\ Grown
<1> DEFINE c == con[new[t].goal]
<1>1. /\ pc[t] = "insert" /\ keys' = [keys EXCEPT ![t] = ArgSets(c)]
      /\ calls' = [calls EXCEPT ![t] = Tail(@)] /\ Jump(t, "index")
      /\ UNCHANGED <<con, state, queue, tasks, mode, batch, job, new, list, cur, held>>
  BY DEF Insert, search
<1>2. TypeOK /\ PlaceInv(t)  BY DEF IInv
<1>3. new[t].goal \in Known /\ new[t].goal # None /\ calls[t] # << >>
  BY <1>1, <1>2 DEF PlaceInv, Entering, TypeOK, Maybe
<1>4. PICK k : bucket' = [bucket EXCEPT ![k] = Append(@, new[t].goal)]  BY DEF Insert
<1>5. bucket' \in [Entries -> Seq(Known')] /\ Longer  BY <1>1, <1>2, <1>3, <1>4, BucketAppend
<1>6. Grown /\ Known' = Known /\ Maybe' = Maybe /\ UseList' = UseList  BY <1>1, SameTypes
<1>7. ArgSets(c) \in SUBSET SUBSET (1..4)
  <2>1. con[new[t].goal] \in Con
    <3>1. con \in Seq(Con)  BY <1>2 DEF TypeOK
    <3> QED  BY <1>3, <3>1, LenProperties, ElementOfSeq DEF Known
  <2>2. c.args \in Seq(Nat) /\ Len(c.args) \in 1..4  BY <2>1, RulesAssumption
  <2>3. DOMAIN c.args \subseteq 1..4  BY <2>2, LenProperties
  <2> QED  BY <2>3 DEF ArgSets
<1> HIDE DEF c
<1>8. calls' \in [Thread -> Seq(Call)]
  <2>1. calls[t] \in Seq(Call)  BY <1>2 DEF TypeOK
  <2>2. Tail(calls[t]) \in Seq(Call)  BY <1>3, <2>1, HeadTailProperties
  <2> QED  BY <1>1, <1>2, <2>2 DEF TypeOK
<1>9. pc' \in [Thread -> PC] /\ pc'[t] = "index"  BY <1>1, <1>2 DEF Jump, TypeOK, PC
<1>10. keys' \in [Thread -> SUBSET SUBSET (1..4)]  BY <1>1, <1>2, <1>7 DEF TypeOK
<1>11. TypeOK'  BY <1>1, <1>2, <1>5, <1>6, <1>8, <1>9, <1>10 DEF TypeOK
<1>12. Frame(t)  BY <1>1, <1>2 DEF Frame, Stays, Jump, TypeOK
<1>13. PlaceInv(t)'  BY <1>1, <1>3, <1>9 DEF PlaceInv, Listed, Tasked, Entering
<1>14. pc[t] \notin Steering /\ pc'[t] \notin Steering  BY <1>1, <1>9 DEF Steering
<1> QED  BY <1>1, <1>5, <1>6, <1>11, <1>12, <1>13, <1>14, OwnStep DEF Resting

LEMMA IndexKeeps ==
  ASSUME IInv, NEW t \in Thread, Index(t)
  PROVE  IInv' /\ Frame(t) /\ Grown
<1>1. /\ pc[t] = "index"
      /\ UNCHANGED <<con, state, queue, tasks, mode, batch, calls, job, new, list, cur, held>>
  BY DEF Index, search
<1>2. TypeOK /\ PlaceInv(t)  BY DEF IInv
<1>3. new[t].goal \in Known /\ new[t].goal # None  BY <1>1, <1>2 DEF PlaceInv, Entering, TypeOK, Maybe
<1>4. PICK S, k : /\ bucket' = [bucket EXCEPT ![k] = Append(@, new[t].goal)]
                  /\ keys' = [keys EXCEPT ![t] = @ \ {S}]
                  /\ Jump(t, IF keys[t] = {S} THEN "push" ELSE "index")
  BY DEF Index
<1>5. bucket' \in [Entries -> Seq(Known')] /\ Longer  BY <1>1, <1>2, <1>3, <1>4, BucketAppend
<1>6. Grown /\ Known' = Known /\ Maybe' = Maybe /\ UseList' = UseList  BY <1>1, SameTypes
<1>7. pc' \in [Thread -> PC] /\ pc'[t] \in {"push", "index"}  BY <1>2, <1>4 DEF Jump, TypeOK, PC
<1>8. keys' \in [Thread -> SUBSET SUBSET (1..4)]  BY <1>2, <1>4 DEF TypeOK
<1>9. TypeOK'  BY <1>1, <1>2, <1>5, <1>6, <1>7, <1>8 DEF TypeOK
<1>10. Frame(t)  BY <1>1, <1>2, <1>4 DEF Frame, Stays, Jump, TypeOK
<1>11. PlaceInv(t)'  BY <1>1, <1>3, <1>7 DEF PlaceInv, Listed, Tasked, Entering
<1>12. pc[t] \notin Steering /\ pc'[t] \notin Steering  BY <1>1, <1>7 DEF Steering
<1> QED  BY <1>1, <1>5, <1>6, <1>9, <1>10, <1>11, <1>12, OwnStep DEF Resting

\* What a thread knows of a goal is typed.
Job == [goal : Maybe, op : {"batch", "async", "sync"}, saw : BOOLEAN, left : 0..3,
        fired : BOOLEAN, retry : BOOLEAN]

LEMMA JobTyped ==
  ASSUME NEW s \in Maybe, NEW o \in {"batch", "async", "sync"}
  PROVE  /\ NewJob(s, o) \in Job /\ NewJob(s, o).goal = s
         /\ NoJob \in Job /\ NoJob.goal = None
BY DEF NewJob, NoJob, Job, Maybe

LEMMA SameStore ==
  ASSUME UNCHANGED <<con, bucket>>
  PROVE  Grown /\ Longer /\ Known' = Known /\ Maybe' = Maybe /\ UseList' = UseList /\ Job' = Job
BY SameTypes DEF Longer, Job

LEMMA PushKeeps ==
  ASSUME IInv, NEW t \in Thread, Push(t)
  PROVE  IInv' /\ Frame(t)
<1>1. /\ pc[t] = "push" /\ queue' = Append(queue, new[t].goal)
      /\ Jump(t, CASE new[t].op = "add" -> "ready" [] new[t].op = "async" -> "enqueue" [] OTHER -> "check")
      /\ job' = IF new[t].op = "sync" THEN [job EXCEPT ![t] = NewJob(new[t].goal, "sync")] ELSE job
      /\ new' = IF new[t].op = "async" THEN new ELSE [new EXCEPT ![t] = NoNew]
      /\ UNCHANGED <<con, state, bucket, tasks, mode, batch, calls, keys, list, cur, held>>
  BY DEF Push, search, store
<1>2. TypeOK /\ PlaceInv(t)  BY DEF IInv
<1>3. new[t].goal \in Known /\ new[t].goal # None /\ new[t].op \in {"add", "async", "sync"}
  BY <1>1, <1>2 DEF PlaceInv, Entering, TypeOK, Maybe
<1>4. Grown /\ Longer /\ Known' = Known /\ Maybe' = Maybe /\ UseList' = UseList /\ Job' = Job
  BY <1>1, SameStore
<1>5. queue' \in Seq(Known)  BY <1>1, <1>2, <1>3, AppendProperties DEF TypeOK
<1>6. NewJob(new[t].goal, "sync") \in Job /\ NewJob(new[t].goal, "sync").goal = new[t].goal
  BY <1>3, JobTyped DEF Maybe
<1>7. job' \in [Thread -> Job] /\ (new[t].op = "sync" => job'[t].goal = new[t].goal)
  BY <1>1, <1>2, <1>6 DEF TypeOK, Job
<1>8. new' \in [Thread -> [goal : Maybe, op : {"add", "async", "sync"}]]
      /\ (new[t].op = "async" => new'[t].goal = new[t].goal)
  BY <1>1, <1>2 DEF TypeOK, NoNew, Maybe
<1>9. /\ pc' \in [Thread -> PC] /\ pc'[t] \in {"ready", "enqueue", "check"}
      /\ (pc'[t] = "check" => new[t].op = "sync") /\ (pc'[t] = "enqueue" => new[t].op = "async")
  BY <1>1, <1>2, <1>3 DEF Jump, TypeOK, PC
<1>10. TypeOK'  BY <1>1, <1>2, <1>4, <1>5, <1>7, <1>8, <1>9 DEF TypeOK, Job
<1>11. Frame(t)  BY <1>1, <1>2 DEF Frame, Stays, Jump, TypeOK
<1>12. PlaceInv(t)'  BY <1>1, <1>3, <1>7, <1>8, <1>9 DEF PlaceInv, Listed, Tasked, Entering, Goal
<1>13. pc[t] \notin Steering /\ pc'[t] \notin Steering  BY <1>1, <1>9 DEF Steering
<1> QED  BY <1>1, <1>4, <1>10, <1>11, <1>12, <1>13, OwnStep DEF Resting

LEMMA EnqueueKeeps ==
  ASSUME IInv, NEW t \in Thread, Enqueue(t)
  PROVE  IInv' /\ Frame(t)
<1>1. /\ pc[t] = "enqueue" /\ tasks' = Append(tasks, new[t].goal)
      /\ new' = [new EXCEPT ![t] = NoNew] /\ Jump(t, "ready")
      /\ UNCHANGED <<con, state, bucket, queue, mode, batch, calls, job, keys, list, cur, held>>
  BY DEF Enqueue, search, store
<1>2. TypeOK /\ PlaceInv(t)  BY DEF IInv
<1>3. new[t].goal \in Known  BY <1>1, <1>2 DEF PlaceInv, Entering, TypeOK, Maybe
<1>4. Grown /\ Longer /\ Known' = Known /\ Maybe' = Maybe /\ UseList' = UseList /\ Job' = Job
  BY <1>1, SameStore
<1>5. tasks' \in Seq(Known)  BY <1>1, <1>2, <1>3, AppendProperties DEF TypeOK
<1>6. new' \in [Thread -> [goal : Maybe, op : {"add", "async", "sync"}]]
  BY <1>1, <1>2 DEF TypeOK, NoNew, Maybe
<1>7. pc' \in [Thread -> PC] /\ pc'[t] = "ready"  BY <1>1, <1>2 DEF Jump, TypeOK, PC
<1>8. TypeOK'  BY <1>1, <1>2, <1>4, <1>5, <1>6, <1>7 DEF TypeOK, UseList
<1>9. Frame(t)  BY <1>1, <1>2 DEF Frame, Stays, Jump, TypeOK
<1>10. PlaceInv(t)'  BY <1>7 DEF PlaceInv, Listed, Tasked, Entering
<1>11. pc[t] \notin Steering /\ pc'[t] \notin Steering  BY <1>1, <1>7 DEF Steering
<1> QED  BY <1>1, <1>4, <1>8, <1>9, <1>10, <1>11, OwnStep DEF Resting

(***************************************************************************)
(* The goal loops.                                                         *)
(***************************************************************************)
LEMMA WorkerRests ==
  ASSUME NEW w \in Worker
  PROVE  w \in Thread /\ w \notin Slot
BY UncountedAssumption DEF Thread

LEMMA TakeTaskKeeps ==
  ASSUME IInv, NEW t \in Thread, TakeTask(t)
  PROVE  IInv' /\ Frame(t)
<1>1. /\ t \in Worker /\ pc[t] = "ready" /\ tasks # << >>
      /\ job' = [job EXCEPT ![t] = NewJob(Head(tasks), "async")]
      /\ tasks' = Tail(tasks) /\ Jump(t, "check")
      /\ UNCHANGED <<con, state, bucket, queue, mode, batch, calls, new, keys, list, cur, held>>
  BY DEF TakeTask, search, store
<1>2. TypeOK  BY DEF IInv
<1>3. Head(tasks) \in Known /\ Tail(tasks) \in Seq(Known) /\ None \notin Known
  BY <1>1, <1>2, HeadTailProperties, Stati DEF TypeOK
<1>4. Grown /\ Longer /\ Known' = Known /\ Maybe' = Maybe /\ UseList' = UseList /\ Job' = Job
  BY <1>1, SameStore
<1>5. NewJob(Head(tasks), "async") \in Job /\ NewJob(Head(tasks), "async").goal = Head(tasks)
  BY <1>3, JobTyped DEF Maybe
<1>6. job' \in [Thread -> Job] /\ job'[t].goal # None
  BY <1>1, <1>2, <1>3, <1>5 DEF TypeOK, Job
<1>7. pc' \in [Thread -> PC] /\ pc'[t] = "check"  BY <1>1, <1>2 DEF Jump, TypeOK, PC
<1>8. TypeOK'  BY <1>1, <1>2, <1>3, <1>4, <1>6, <1>7 DEF TypeOK, Job
<1>9. Frame(t)  BY <1>1, <1>2 DEF Frame, Stays, Jump, TypeOK
<1>10. PlaceInv(t)'  BY <1>6, <1>7 DEF PlaceInv, Listed, Tasked, Entering, Goal
<1>11. pc[t] \notin Steering /\ pc'[t] \notin Steering  BY <1>1, <1>7 DEF Steering
<1> QED  BY <1>1, <1>4, <1>8, <1>9, <1>10, <1>11, OwnStep, WorkerRests

LEMMA CheckKeeps ==
  ASSUME IInv, NEW t \in Thread, Check(t)
  PROVE  IInv' /\ Frame(t)
<1>1. /\ pc[t] = "check" /\ (Jump(t, "ready") \/ Jump(t, "try"))
      /\ (job' = job \/ (job' = [job EXCEPT ![t] = NoJob] /\ Jump(t, "ready")))
      /\ UNCHANGED <<con, state, bucket, queue, tasks, mode, batch, calls, new, keys, list, cur, held>>
  BY DEF Check, search, store
<1>2. TypeOK /\ PlaceInv(t)  BY DEF IInv
<1>3. Goal(t) # None  BY <1>1, <1>2 DEF PlaceInv, Tasked
<1>4. Grown /\ Longer /\ Known' = Known /\ Maybe' = Maybe /\ UseList' = UseList /\ Job' = Job
  BY <1>1, SameStore
<1>5. NoJob \in Job  BY JobTyped DEF Maybe
<1>6. job' \in [Thread -> Job]  BY <1>1, <1>2, <1>5 DEF TypeOK, Job
<1>7. /\ pc' \in [Thread -> PC] /\ pc'[t] \in {"ready", "try"} /\ pc[t] = "check"
      /\ (pc'[t] = "try" => job' = job)
  BY <1>1, <1>2 DEF Jump, TypeOK, PC
<1>8. TypeOK'  BY <1>1, <1>2, <1>4, <1>6, <1>7 DEF TypeOK, Job
<1>9. Frame(t)  BY <1>1, <1>2 DEF Frame, Stays, Jump, TypeOK
<1>10. PlaceInv(t)'  BY <1>3, <1>7 DEF PlaceInv, Listed, Tasked, Entering, Goal
<1>11. pc[t] \notin Steering /\ pc'[t] \notin Steering  BY <1>7 DEF Steering
<1> QED  BY <1>1, <1>4, <1>7, <1>8, <1>9, <1>10, <1>11, OwnStep DEF Resting

LEMMA PassiveKeeps ==
  ASSUME IInv, NEW t \in Thread, Passive(t)
  PROVE  IInv' /\ Frame(t)
<1>1. /\ t \in Worker /\ (Over(t) \/ pc[t] = "passiveclaimed")
      /\ UNCHANGED <<con, state, bucket, queue, tasks, mode, batch, calls, new, keys, list, cur, held>>
  BY DEF Passive, search, store
<1>2. /\ (Jump(t, "addback") \/ Jump(t, "passiveclaimed") \/ Jump(t, "ready"))
      /\ (job' = job \/ (job' = [job EXCEPT ![t] = NoJob] /\ Jump(t, "ready")))
  BY DEF Passive
<1>3. TypeOK /\ PlaceInv(t)  BY DEF IInv
<1>4. Goal(t) # None /\ pc[t] \in {"ready", "passiveclaimed"} /\ t \in Worker
  BY <1>1, <1>3 DEF PlaceInv, Tasked, Over
<1>5. Grown /\ Longer /\ Known' = Known /\ Maybe' = Maybe /\ UseList' = UseList /\ Job' = Job
  BY <1>1, SameStore
<1>6. NoJob \in Job  BY JobTyped DEF Maybe
<1>7. job' \in [Thread -> Job]  BY <1>2, <1>3, <1>6 DEF TypeOK, Job
<1>8. /\ pc' \in [Thread -> PC] /\ pc'[t] \in {"addback", "passiveclaimed", "ready"}
      /\ (pc'[t] # "ready" => job' = job)
  BY <1>2, <1>3 DEF Jump, TypeOK, PC
<1>9. TypeOK'  BY <1>1, <1>3, <1>5, <1>7, <1>8 DEF TypeOK, Job
<1>10. Frame(t)  BY <1>1, <1>2, <1>3 DEF Frame, Stays, Jump, TypeOK
<1>11. PlaceInv(t)'  BY <1>4, <1>8 DEF PlaceInv, Listed, Tasked, Entering, Goal
<1>12. pc[t] \notin Steering /\ pc'[t] \notin Steering  BY <1>4, <1>8 DEF Steering
<1> QED  BY <1>1, <1>4, <1>5, <1>9, <1>10, <1>11, <1>12, OwnStep, WorkerRests

LEMMA AddBackKeeps ==
  ASSUME IInv, NEW t \in Thread, AddBack(t)
  PROVE  IInv' /\ Frame(t)
<1>1. /\ pc[t] = "addback" /\ queue' = Append(queue, Goal(t))
      /\ job' = [job EXCEPT ![t] = NoJob] /\ Jump(t, "ready")
      /\ UNCHANGED <<con, state, bucket, tasks, mode, batch, calls, new, keys, list, cur, held>>
  BY DEF AddBack, search, store
<1>2. TypeOK /\ PlaceInv(t)  BY DEF IInv
<1>3. Goal(t) \in Known  BY <1>1, <1>2 DEF PlaceInv, Tasked, TypeOK, Goal, Maybe
<1>4. Grown /\ Longer /\ Known' = Known /\ Maybe' = Maybe /\ UseList' = UseList /\ Job' = Job
  BY <1>1, SameStore
<1>5. queue' \in Seq(Known)  BY <1>1, <1>2, <1>3, AppendProperties DEF TypeOK
<1>6. NoJob \in Job  BY JobTyped DEF Maybe
<1>7. job' \in [Thread -> Job]  BY <1>1, <1>2, <1>6 DEF TypeOK, Job
<1>8. pc' \in [Thread -> PC] /\ pc'[t] = "ready"  BY <1>1, <1>2 DEF Jump, TypeOK, PC
<1>9. TypeOK'  BY <1>1, <1>2, <1>4, <1>5, <1>7, <1>8 DEF TypeOK, Job
<1>10. Frame(t)  BY <1>1, <1>2 DEF Frame, Stays, Jump, TypeOK
<1>11. PlaceInv(t)'  BY <1>8 DEF PlaceInv, Listed, Tasked, Entering
<1>12. pc[t] \notin Steering /\ pc'[t] \notin Steering  BY <1>1, <1>8 DEF Steering
<1> QED  BY <1>1, <1>4, <1>9, <1>10, <1>11, <1>12, OwnStep DEF Resting

(***************************************************************************)
(* The driver of a batch, with the thread s whose goal or result it hands  *)
(* over.                                                                   *)
(***************************************************************************)
Taking == {"fill", "peek", "peekclaimed", "requeue"}
\* What the driver knows of the handles while it takes goals.
Handing ==
  /\ pc[Driver] = "peek" => batch.taken # 0
  /\ pc[Driver] \in Taking =>
       \A s \in In(batch.handles) : \E i \in DOMAIN Slots :
         s = Slots[i] /\ i <= batch.taken /\ (pc[Driver] = "peek" => i # batch.taken)

LEMMA DriverRests ==
  /\ Driver \in Thread /\ Driver \notin Slot /\ Slot \subseteq Thread
  /\ Limit \in Nat /\ DOMAIN Slots = 1..Limit /\ \A i \in 1..Limit : Slots[i] \in Slot
BY UncountedAssumption, LenProperties DEF Thread, Limit, Slot

LEMMA DriverStep ==
  ASSUME IInv, TypeOK', UNCHANGED <<con, bucket, mode>>, NEW s \in Slot \cup {Driver},
         \A u \in Thread \ {Driver, s} : Stays(u), PlaceInv(Driver)', PlaceInv(s)',
         s # Driver => pc'[s] \notin Steering,
         \A u \in Slot : u \notin In(batch'.handles) =>
           (u = s /\ Resting(s)') \/ (u # s /\ u \notin In(batch.handles)),
         Handing'
  PROVE  IInv'
<1>1. Driver \in Thread /\ Driver \notin Slot /\ Slot \subseteq Thread  BY DriverRests
<1>2. Grown /\ Longer  BY SameStore
<1>3. \A u \in Thread : PlaceInv(u)'
  <2> SUFFICES ASSUME NEW u \in Thread, u \notin {Driver, s} PROVE PlaceInv(u)'  OBVIOUS
  <2> QED  BY <1>2, OthersStay DEF IInv
<1>4. \A u \in Thread : pc'[u] \in Steering => u = Driver  BY DEF IInv, BatchInv, Stays
<1>5. ASSUME NEW u \in Slot, u \notin In(batch'.handles) PROVE Resting(u)'
  <2>1. CASE u = s /\ Resting(s)'  BY <2>1
  <2>2. CASE u # s /\ u \notin In(batch.handles)
    <3>1. Resting(u) /\ Stays(u)  BY <1>1, <2>2 DEF IInv, BatchInv
    <3> QED  BY <3>1 DEF Resting, Stays, Goal
  <2> QED  BY <1>5, <2>1, <2>2
<1>6. BatchInv'  BY <1>4, <1>5 DEF BatchInv, Handing, Taking
<1> QED  BY <1>3, <1>6 DEF IInv

\* A step of the driver alone that leaves the handles.
LEMMA DriverAlone ==
  ASSUME IInv, TypeOK', UNCHANGED <<con, bucket, mode>>, Frame(Driver), PlaceInv(Driver)',
         batch'.handles = batch.handles, Handing'
  PROVE  IInv'
<1>1. Driver \notin Slot  BY DriverRests
<1> QED  BY <1>1, DriverStep DEF Frame

LEMMA Steered ==
  ASSUME IInv, NEW t \in Thread, pc[t] \in Steering
  PROVE  t = Driver /\ Handing
BY DEF IInv, BatchInv, Handing, Taking

LEMMA RunParallelKeeps ==
  ASSUME IInv, NEW t \in Thread, RunParallel(t)
  PROVE  IInv'
<1>1. /\ t = Driver /\ Jump(t, "collect") /\ batch' = [batch EXCEPT !.due = FALSE]
      /\ UNCHANGED <<con, state, bucket, queue, tasks, mode, calls, job, new, keys, list, cur, held>>
  BY DEF RunParallel, search, store
<1>2. TypeOK  BY DEF IInv
<1>3. Known' = Known /\ Maybe' = Maybe /\ UseList' = UseList  BY <1>1, SameStore
<1>4. /\ batch' \in [due : BOOLEAN, taken : 0..Limit, handles : Seq(Slot)]
      /\ batch'.handles = batch.handles
  BY <1>1, <1>2 DEF TypeOK
<1>5. pc' \in [Thread -> PC] /\ pc'[t] = "collect"  BY <1>1, <1>2 DEF Jump, TypeOK, PC
<1>6. TypeOK'  BY <1>1, <1>2, <1>3, <1>4, <1>5 DEF TypeOK
<1>7. Frame(t)  BY <1>1, <1>2 DEF Frame, Stays, Jump, TypeOK
<1>8. PlaceInv(t)'  BY <1>5 DEF PlaceInv, Listed, Tasked, Entering
<1>9. Handing'  BY <1>1, <1>5 DEF Handing, Taking
<1> QED  BY <1>1, <1>4, <1>6, <1>7, <1>8, <1>9, DriverAlone

LEMMA FillKeeps ==
  ASSUME IInv, NEW t \in Thread, Fill(t)
  PROVE  IInv'
<1>1. /\ pc[t] = "fill"
      /\ UNCHANGED <<con, state, bucket, tasks, mode, calls, new, keys, list, cur, held>>
  BY DEF Fill, FillUpTo, search, store
<1>2. TypeOK  BY DEF IInv
<1>3. t = Driver /\ Handing  BY <1>1, Steered DEF Steering
<1>4. Known' = Known /\ Maybe' = Maybe /\ UseList' = UseList /\ Job' = Job  BY <1>1, SameStore
<1>5. batch \in [due : BOOLEAN, taken : 0..Limit, handles : Seq(Slot)] /\ Limit \in Nat
  BY <1>2, DriverRests DEF TypeOK
<1>6. CASE queue # << >> /\ batch.taken < Limit
  <2>1. /\ queue' = Tail(queue) /\ job' = [job EXCEPT ![t] = NewJob(Head(queue), "batch")]
        /\ batch' = [batch EXCEPT !.taken = @ + 1] /\ Jump(t, "peek")
    BY <1>6 DEF Fill, FillUpTo
  <2>2. Head(queue) \in Known /\ Tail(queue) \in Seq(Known) /\ None \notin Known
    BY <1>2, <1>6, HeadTailProperties, Stati DEF TypeOK
  <2>3. NewJob(Head(queue), "batch") \in Job /\ NewJob(Head(queue), "batch").goal = Head(queue)
    BY <2>2, JobTyped DEF Maybe
  <2>4. job' \in [Thread -> Job] /\ job'[t].goal # None  BY <1>2, <2>1, <2>2, <2>3 DEF TypeOK, Job
  <2>5. /\ batch' \in [due : BOOLEAN, taken : 0..Limit, handles : Seq(Slot)]
        /\ batch'.handles = batch.handles /\ batch'.taken = batch.taken + 1
    BY <1>5, <1>6, <2>1
  <2>6. pc' \in [Thread -> PC] /\ pc'[t] = "peek"  BY <1>2, <2>1 DEF Jump, TypeOK, PC
  <2>7. TypeOK'  BY <1>1, <1>2, <1>4, <2>1, <2>2, <2>4, <2>5, <2>6 DEF TypeOK, Job
  <2>8. Frame(t)  BY <1>1, <1>2, <2>1 DEF Frame, Stays, Jump, TypeOK
  <2>9. PlaceInv(t)'  BY <2>4, <2>6 DEF PlaceInv, Listed, Tasked, Entering, Goal
  <2>10. Handing'
    <3>1. batch.taken \in Nat  BY <1>5
    <3>2. \A s \in In(batch.handles) : \E i \in DOMAIN Slots : s = Slots[i] /\ i <= batch.taken
      BY <1>1, <1>3 DEF Handing, Taking
    <3>3. \A i \in DOMAIN Slots : i <= batch.taken => i <= batch.taken + 1 /\ i # batch.taken + 1
      BY <3>1, DriverRests
    <3> QED  BY <2>5, <3>1, <3>2, <3>3 DEF Handing
  <2> QED  BY <1>1, <1>3, <2>5, <2>7, <2>8, <2>9, <2>10, DriverAlone
<1>7. CASE ~(queue # << >> /\ batch.taken < Limit)
  <2>1. Jump(t, "collect") /\ UNCHANGED <<queue, job, batch>>  BY <1>7 DEF Fill, FillUpTo
  <2>2. pc' \in [Thread -> PC] /\ pc'[t] = "collect"  BY <1>2, <2>1 DEF Jump, TypeOK, PC
  <2>3. TypeOK'  BY <1>1, <1>2, <1>4, <2>1, <2>2 DEF TypeOK
  <2>4. Frame(t)  BY <1>1, <1>2, <2>1 DEF Frame, Stays, Jump, TypeOK
  <2>5. PlaceInv(t)'  BY <2>2 DEF PlaceInv, Listed, Tasked, Entering
  <2>6. Handing'  BY <1>3, <2>2 DEF Handing, Taking
  <2> QED  BY <1>1, <1>3, <2>1, <2>3, <2>4, <2>5, <2>6, DriverAlone
<1> QED  BY <1>6, <1>7

\* The thread of the goal taken last has nothing to do.
LEMMA PeekKeeps ==
  ASSUME IInv, NEW t \in Thread, Peek(t)
  PROVE  IInv'
<1>0. PICK s : s = Slots[batch.taken]  OBVIOUS
<1>1. /\ pc[t] = "peek"
      /\ UNCHANGED <<con, state, bucket, queue, tasks, mode, calls, new, keys, list, cur, held>>
  BY DEF Peek, search, store
<1>2. TypeOK /\ PlaceInv(t)  BY DEF IInv
<1>3. t = Driver /\ Handing  BY <1>1, Steered DEF Steering
<1>4. Known' = Known /\ Maybe' = Maybe /\ UseList' = UseList /\ Job' = Job  BY <1>1, SameStore
<1>5. batch \in [due : BOOLEAN, taken : 0..Limit, handles : Seq(Slot)] /\ Limit \in Nat
  BY <1>2, DriverRests DEF TypeOK
<1>6. Goal(t) # None  BY <1>1, <1>2 DEF PlaceInv, Tasked
<1>7. CASE state[Goal(t)] = "PENDING"
  <2>1. /\ pc' = [pc EXCEPT ![t] = "fill", ![s] = "try"]
        /\ job' = [job EXCEPT ![s] = job[t], ![t] = NoJob]
        /\ batch' = [batch EXCEPT !.handles = Append(@, s)]
    BY <1>0, <1>7 DEF Peek
  <2>2. batch.taken \in 1..Limit /\ s \in Slot /\ s \in Thread /\ s # t
    BY <1>0, <1>1, <1>3, <1>5, DriverRests DEF Handing
  <2>3. s \notin In(batch.handles)
    <3>1. \A i \in DOMAIN Slots : s = Slots[i] => i = batch.taken
      BY <1>0, <2>2, DriverRests, UncountedAssumption
    <3> QED  BY <1>1, <1>3, <3>1 DEF Handing, Taking
  <2>4. NoJob \in Job  BY JobTyped DEF Maybe
  <2>5. job' \in [Thread -> Job] /\ job'[s] = job[t]
    BY <1>2, <2>1, <2>2, <2>4 DEF TypeOK, Job
  <2>6. /\ Append(batch.handles, s) \in Seq(Slot)
        /\ \A u : u \in In(Append(batch.handles, s)) <=> u \in In(batch.handles) \/ u = s
    <3>1. PICK q : q = batch.handles  OBVIOUS
    <3>2. q \in Seq(Slot)  BY <1>5, <3>1
    <3>3. /\ Append(q, s) \in Seq(Slot) /\ Len(Append(q, s)) = Len(q) + 1
          /\ \A i \in 1..Len(q) : Append(q, s)[i] = q[i]
          /\ Append(q, s)[Len(q) + 1] = s
      BY <2>2, <3>2, AppendProperties
    <3>4. DOMAIN Append(q, s) = 1..(Len(q) + 1) /\ DOMAIN q = 1..Len(q) /\ Len(q) \in Nat
      BY <3>2, <3>3, LenProperties
    <3>5. \A i \in 1..(Len(q) + 1) : i \in 1..Len(q) \/ i = Len(q) + 1  BY <3>4
    <3>6. \A i \in 1..Len(q) : i \in 1..(Len(q) + 1)  BY <3>4
    <3>7. Len(q) + 1 \in 1..(Len(q) + 1)  BY <3>4
    <3>8. \A u : u \in In(Append(q, s)) <=> u \in In(q) \/ u = s
      BY <3>3, <3>4, <3>5, <3>6, <3>7 DEF In
    <3> QED  BY <3>1, <3>3, <3>8
  <2>7. /\ batch' \in [due : BOOLEAN, taken : 0..Limit, handles : Seq(Slot)]
        /\ batch'.taken = batch.taken /\ batch'.handles = Append(batch.handles, s)
    BY <1>5, <2>1, <2>6
  <2>8. pc' \in [Thread -> PC] /\ pc'[t] = "fill" /\ pc'[s] = "try"
    BY <1>2, <2>1, <2>2 DEF TypeOK, PC
  <2>9. TypeOK'  BY <1>1, <1>2, <1>4, <2>5, <2>7, <2>8 DEF TypeOK, Job
  <2>10. \A u \in Thread \ {t, s} : Stays(u)  BY <1>1, <1>2, <2>1 DEF Stays, TypeOK
  <2>11. PlaceInv(t)' /\ PlaceInv(s)'
    <3>1. PlaceInv(t)'  BY <2>8 DEF PlaceInv, Listed, Tasked, Entering
    <3>2. Goal(s)' # None  BY <1>6, <2>5 DEF Goal
    <3>3. PlaceInv(s)'  BY <2>8, <3>2 DEF PlaceInv, Listed, Tasked, Entering
    <3> QED  BY <3>1, <3>3
  <2>12. Handing'
    <3>1. \A u \in In(batch.handles) : \E i \in DOMAIN Slots : u = Slots[i] /\ i <= batch.taken
      BY <1>1, <1>3 DEF Handing, Taking
    <3>2. batch.taken \in DOMAIN Slots /\ batch.taken <= batch.taken  BY <2>2, DriverRests
    <3>3. \A u \in In(batch'.handles) : \E i \in DOMAIN Slots : u = Slots[i] /\ i <= batch'.taken
      BY <1>0, <2>6, <2>7, <3>1, <3>2
    <3> QED  BY <1>3, <2>8, <3>3 DEF Handing
  <2>13. \A u \in Slot : u \notin In(batch'.handles) => u # s /\ u \notin In(batch.handles)
    BY <2>6, <2>7
  <2>14. pc'[s] \notin Steering  BY <2>8 DEF Steering
  <2>15. /\ UNCHANGED <<con, bucket, mode>> /\ s \in Slot \cup {Driver}
         /\ \A u \in Thread \ {Driver, s} : Stays(u)
         /\ PlaceInv(Driver)'
    BY <1>1, <1>3, <2>2, <2>10, <2>11
  <2> QED  BY <2>9, <2>11, <2>12, <2>13, <2>14, <2>15, DriverStep
<1>8. CASE state[Goal(t)] # "PENDING"
  <2>1. Jump(t, "peekclaimed") /\ UNCHANGED <<job, batch>>  BY <1>8 DEF Peek
  <2>2. pc' \in [Thread -> PC] /\ pc'[t] = "peekclaimed"  BY <1>2, <2>1 DEF Jump, TypeOK, PC
  <2>3. TypeOK'  BY <1>1, <1>2, <1>4, <2>1, <2>2 DEF TypeOK
  <2>4. Frame(t)  BY <1>1, <1>2, <2>1 DEF Frame, Stays, Jump, TypeOK
  <2>5. PlaceInv(t)'  BY <1>6, <2>1, <2>2 DEF PlaceInv, Listed, Tasked, Entering, Goal
  <2>6. Handing'  BY <1>1, <1>3, <2>1, <2>2 DEF Handing, Taking
  <2> QED  BY <1>1, <1>3, <2>1, <2>3, <2>4, <2>5, <2>6, DriverAlone
<1> QED  BY <1>7, <1>8

LEMMA PeekClaimedKeeps ==
  ASSUME IInv, NEW t \in Thread, PeekClaimed(t)
  PROVE  IInv'
<1>1. /\ pc[t] = "peekclaimed"
      /\ \/ Jump(t, "requeue") /\ job' = job
         \/ Jump(t, "fill") /\ job' = [job EXCEPT ![t] = NoJob]
      /\ UNCHANGED <<con, state, bucket, queue, tasks, mode, batch, calls, new, keys, list, cur, held>>
  BY DEF PeekClaimed, search, store
<1>2. TypeOK /\ PlaceInv(t)  BY DEF IInv
<1>3. t = Driver /\ Handing  BY <1>1, Steered DEF Steering
<1>4. Known' = Known /\ Maybe' = Maybe /\ UseList' = UseList /\ Job' = Job  BY <1>1, SameStore
<1>5. Goal(t) # None  BY <1>1, <1>2 DEF PlaceInv, Tasked
<1>6. NoJob \in Job  BY JobTyped DEF Maybe
<1>7. job' \in [Thread -> Job]  BY <1>1, <1>2, <1>6 DEF TypeOK, Job
<1>8. /\ pc' \in [Thread -> PC] /\ pc'[t] \in {"requeue", "fill"}
      /\ (pc'[t] = "requeue" => job' = job)
  BY <1>1, <1>2 DEF Jump, TypeOK, PC
<1>9. TypeOK'  BY <1>1, <1>2, <1>4, <1>7, <1>8 DEF TypeOK, Job
<1>10. Frame(t)  BY <1>1, <1>2 DEF Frame, Stays, Jump, TypeOK
<1>11. PlaceInv(t)'  BY <1>5, <1>8 DEF PlaceInv, Listed, Tasked, Entering, Goal
<1>12. Handing'  BY <1>1, <1>3, <1>8 DEF Handing, Taking
<1> QED  BY <1>1, <1>3, <1>9, <1>10, <1>11, <1>12, DriverAlone

\* Taking the result of the first handle leaves its thread with nothing to do.
LEMMA CollectKeeps ==
  ASSUME IInv, NEW t \in Thread, Collect(t)
  PROVE  IInv'
<1>1. /\ pc[t] = "collect"
      /\ UNCHANGED <<con, state, bucket, queue, tasks, mode, calls, new, keys, list, cur, held>>
  BY DEF Collect, CollectWith, search, store
<1>2. TypeOK  BY DEF IInv
<1>3. t = Driver /\ Handing  BY <1>1, Steered DEF Steering
<1>4. Known' = Known /\ Maybe' = Maybe /\ UseList' = UseList /\ Job' = Job  BY <1>1, SameStore
<1>5. batch \in [due : BOOLEAN, taken : 0..Limit, handles : Seq(Slot)] /\ Limit \in Nat
  BY <1>2, DriverRests DEF TypeOK
<1>6. CASE batch.handles = << >>
  <2>1. /\ Jump(t, IF queue = << >> THEN "ready" ELSE "fill")
        /\ batch' = [batch EXCEPT !.taken = 0] /\ job' = job
    BY <1>6 DEF Collect, CollectWith
  <2>2. pc' \in [Thread -> PC] /\ pc'[t] \in {"ready", "fill"}
    BY <1>2, <2>1 DEF Jump, TypeOK, PC
  <2>3. /\ batch' \in [due : BOOLEAN, taken : 0..Limit, handles : Seq(Slot)]
        /\ batch'.handles = batch.handles
    BY <1>5, <2>1
  <2>4. TypeOK'  BY <1>1, <1>2, <1>4, <2>1, <2>2, <2>3 DEF TypeOK
  <2>5. Frame(t)  BY <1>1, <1>2, <2>1 DEF Frame, Stays, Jump, TypeOK
  <2>6. PlaceInv(t)'  BY <2>2 DEF PlaceInv, Listed, Tasked, Entering
  <2>7. Handing'
    <3>1. In(batch'.handles) = {}  BY <1>6, <2>3, InOne
    <3> QED  BY <1>3, <2>2, <3>1 DEF Handing
  <2> QED  BY <1>1, <1>3, <2>3, <2>4, <2>5, <2>6, <2>7, DriverAlone
<1>7. CASE batch.handles # << >>
  <2>1. PICK s : s = Head(batch.handles)  OBVIOUS
  <2>2. /\ Over(s) /\ batch' = [batch EXCEPT !.handles = Tail(@)]
        /\ job' = [job EXCEPT ![t] = IF job[s].fired \/ job[s].retry THEN job[s] ELSE NoJob,
                              ![s] = NoJob]
        /\ Jump(t, CASE job[s].fired -> "triggered" [] job[s].retry -> "retry" [] OTHER -> "collect")
    BY <1>7, <2>1 DEF Collect, CollectWith
  <2>3. PICK q : q = batch.handles  OBVIOUS
  <2>4. q \in Seq(Slot) /\ q # << >>  BY <1>5, <1>7, <2>3
  <2>5. /\ s \in Slot /\ Tail(q) \in Seq(Slot) /\ \A u \in In(q) : u = s \/ u \in In(Tail(q))
    <3>1. /\ s \in Slot /\ Tail(q) \in Seq(Slot) /\ Len(Tail(q)) = Len(q) - 1
          /\ \A i \in 1..Len(Tail(q)) : Tail(q)[i] = q[i + 1]
          /\ s = q[1]
      BY <2>1, <2>3, <2>4, HeadTailProperties
    <3>2. DOMAIN q = 1..Len(q) /\ Len(q) \in Nat /\ DOMAIN Tail(q) = 1..Len(Tail(q))
      BY <2>4, <3>1, LenProperties
    <3>3. ASSUME NEW i \in 1..Len(q), i # 1 PROVE q[i] \in In(Tail(q))
      <4>1. i - 1 \in 1..Len(Tail(q)) /\ (i - 1) + 1 = i  BY <3>1, <3>2, <3>3
      <4> QED  BY <3>1, <3>2, <4>1 DEF In
    <3> QED  BY <3>1, <3>2, <3>3 DEF In
  <2>6. s \in Thread /\ s # t  BY <1>3, <2>5, DriverRests
  <2>7. NoJob \in Job /\ NoJob.goal = None  BY JobTyped DEF Maybe
  <2>8. /\ job' \in [Thread -> Job] /\ job'[s] = NoJob
        /\ (job[s].fired \/ job[s].retry => job'[t] = job[s])
    <3>1. job \in [Thread -> Job]  BY <1>2 DEF TypeOK, Job
    <3>2. PICK v : v = IF job[s].fired \/ job[s].retry THEN job[s] ELSE NoJob  OBVIOUS
    <3>3. v \in Job /\ (job[s].fired \/ job[s].retry => v = job[s])  BY <2>6, <2>7, <3>1, <3>2
    <3>4. job' = [job EXCEPT ![t] = v, ![s] = NoJob]  BY <2>2, <3>2
    <3> QED  BY <2>6, <2>7, <3>1, <3>3, <3>4
  <2>9. /\ batch' \in [due : BOOLEAN, taken : 0..Limit, handles : Seq(Slot)]
        /\ batch'.handles = Tail(q)
    BY <1>5, <2>2, <2>3, <2>5
  <2>10. job[s].fired \in BOOLEAN /\ job[s].retry \in BOOLEAN  BY <1>2, <2>6 DEF TypeOK
  <2>11. /\ pc' \in [Thread -> PC] /\ pc'[t] \in {"triggered", "retry", "collect"}
         /\ (pc'[t] \in {"triggered", "retry"} => job[s].fired \/ job[s].retry)
    BY <1>2, <2>2, <2>10 DEF Jump, TypeOK, PC
  <2>12. TypeOK'  BY <1>1, <1>2, <1>4, <2>8, <2>9, <2>11 DEF TypeOK, Job
  <2>13. \A u \in Thread \ {t, s} : Stays(u)  BY <1>1, <1>2, <2>2 DEF Stays, TypeOK, Jump
  <2>14. PlaceInv(t)'
    <3>1. pc'[t] \in {"triggered", "retry"} => Goal(t)' # None
      BY <2>2, <2>8, <2>11 DEF Goal, Over
    <3> QED  BY <2>11, <3>1 DEF PlaceInv, Listed, Tasked, Entering
  <2>15. Resting(s)' /\ pc'[s] = "ready"
    BY <1>1, <1>2, <2>2, <2>6, <2>7, <2>8 DEF Resting, Over, Goal, Jump, TypeOK
  <2>16. PlaceInv(s)' /\ pc'[s] \notin Steering
    BY <2>15 DEF PlaceInv, Listed, Tasked, Entering, Steering
  <2>17. Handing'  BY <1>3, <2>11 DEF Handing, Taking
  <2>18. \A u \in Slot : u \notin In(batch'.handles) =>
           (u = s /\ Resting(s)') \/ (u # s /\ u \notin In(batch.handles))
    BY <2>3, <2>5, <2>9, <2>15
  <2>19. /\ UNCHANGED <<con, bucket, mode>> /\ s \in Slot \cup {Driver}
         /\ \A u \in Thread \ {Driver, s} : Stays(u)
         /\ PlaceInv(Driver)'
    BY <1>1, <1>3, <2>5, <2>13, <2>14
  <2> QED  BY <2>12, <2>16, <2>17, <2>18, <2>19, DriverStep
<1> QED  BY <1>6, <1>7

LEMMA TriggeredKeeps ==
  ASSUME IInv, NEW t \in Thread, Triggered(t)
  PROVE  IInv'
<1>1. /\ pc[t] = "triggered"
      /\ \/ Jump(t, "retry") /\ job' = job
         \/ Jump(t, "collect") /\ job' = [job EXCEPT ![t] = NoJob]
      /\ UNCHANGED <<con, state, bucket, queue, tasks, mode, batch, calls, new, keys, list, cur, held>>
  BY DEF Triggered, search, store
<1>2. TypeOK /\ PlaceInv(t)  BY DEF IInv
<1>3. t = Driver /\ Handing  BY <1>1, Steered DEF Steering
<1>4. Known' = Known /\ Maybe' = Maybe /\ UseList' = UseList /\ Job' = Job  BY <1>1, SameStore
<1>5. Goal(t) # None  BY <1>1, <1>2 DEF PlaceInv, Tasked
<1>6. NoJob \in Job  BY JobTyped DEF Maybe
<1>7. job' \in [Thread -> Job]  BY <1>1, <1>2, <1>6 DEF TypeOK, Job
<1>8. /\ pc' \in [Thread -> PC] /\ pc'[t] \in {"retry", "collect"}
      /\ (pc'[t] = "retry" => job' = job)
  BY <1>1, <1>2 DEF Jump, TypeOK, PC
<1>9. TypeOK'  BY <1>1, <1>2, <1>4, <1>7, <1>8 DEF TypeOK, Job
<1>10. Frame(t)  BY <1>1, <1>2 DEF Frame, Stays, Jump, TypeOK
<1>11. PlaceInv(t)'  BY <1>5, <1>8 DEF PlaceInv, Listed, Tasked, Entering, Goal
<1>12. Handing'  BY <1>1, <1>3, <1>8 DEF Handing, Taking
<1> QED  BY <1>1, <1>3, <1>9, <1>10, <1>11, <1>12, DriverAlone

LEMMA RequeueKeeps ==
  ASSUME IInv, NEW t \in Thread, Requeue(t)
  PROVE  IInv'
<1>1. /\ pc[t] \in {"requeue", "retry"} /\ queue' = Append(queue, Goal(t))
      /\ job' = [job EXCEPT ![t] = NoJob]
      /\ Jump(t, IF pc[t] = "retry" THEN "collect" ELSE "fill")
      /\ UNCHANGED <<con, state, bucket, tasks, mode, batch, calls, new, keys, list, cur, held>>
  BY DEF Requeue, search, store
<1>2. TypeOK /\ PlaceInv(t)  BY DEF IInv
<1>3. t = Driver /\ Handing  BY <1>1, Steered DEF Steering
<1>4. Known' = Known /\ Maybe' = Maybe /\ UseList' = UseList /\ Job' = Job  BY <1>1, SameStore
<1>5. Goal(t) \in Known  BY <1>1, <1>2 DEF PlaceInv, Tasked, TypeOK, Goal, Maybe
<1>6. queue' \in Seq(Known)  BY <1>1, <1>2, <1>5, AppendProperties DEF TypeOK
<1>7. NoJob \in Job  BY JobTyped DEF Maybe
<1>8. job' \in [Thread -> Job]  BY <1>1, <1>2, <1>7 DEF TypeOK, Job
<1>9. /\ pc' \in [Thread -> PC] /\ pc'[t] \in {"collect", "fill"}
      /\ (pc'[t] = "fill" => pc[t] = "requeue")
  BY <1>1, <1>2 DEF Jump, TypeOK, PC
<1>10. TypeOK'  BY <1>1, <1>2, <1>4, <1>6, <1>8, <1>9 DEF TypeOK, Job
<1>11. Frame(t)  BY <1>1, <1>2 DEF Frame, Stays, Jump, TypeOK
<1>12. PlaceInv(t)'  BY <1>9 DEF PlaceInv, Listed, Tasked, Entering
<1>13. Handing'  BY <1>1, <1>3, <1>9 DEF Handing, Taking
<1> QED  BY <1>1, <1>3, <1>10, <1>11, <1>12, <1>13, DriverAlone

(***************************************************************************)
(* How a step of a search leaves its thread, whatever it does to a state.  *)
(***************************************************************************)
Scan == [bkt : Entries \cup {NoKey}, off : Nat \ {0}, at : Nat \ {0}]

\* It keeps its goal or ends, it has found what it uses in the store, and it begins to
\* settle a match with the first constraint.
Near(t, l) == In(l.used) \subseteq In(list[t].used) \cup {Goal(t)} \cup In(Bucket(cur[t].bkt))
Nearby(t) ==
  /\ job'[t].goal \in {job[t].goal, None} /\ Near(t, list'[t])
  /\ pc'[t] \notin Entering /\ (pc'[t] = "body" => pc[t] = "consume")
  /\ pc'[t] = "consume" => pc[t] = "consume" \/ cur'[t].at = 1

Outcome(t) ==
  /\ Nearby(t)
  /\ pc' \in [Thread -> PC] /\ job' \in [Thread -> Job]
  /\ list' \in [Thread -> UseList] /\ cur' \in [Thread -> Scan]
  /\ \A u \in Thread \ {t} : pc'[u] = pc[u] /\ job'[u] = job[u] /\ list'[u] = list[u] /\ cur'[u] = cur[u]
  /\ pc'[t] \notin Steering /\ PlaceInv(t)'

\* What a thread must bring to step p of its search.
Landing(t, p, l, c) ==
  /\ p \in Listed /\ Sound(l) /\ Faithful(l) /\ Near(t, l) /\ c \in Scan
  /\ p \in {"commit", "consume", "body"} => Complete(l.rule, l.m)
  /\ p \in {"look", "claim", "saw"} =>
       c.at \in DOMAIN Bucket(c.bkt) /\ Convenient(l.rule, l.m, Bucket(c.bkt)[c.at])
  /\ p \in {"commit", "rollback", "giveback"} => c.at \in DOMAIN l.used
  /\ p = "consume" => c.at \in DOMAIN Settled(l) /\ (pc[t] = "consume" \/ c.at = 1)
  /\ p = "body" => pc[t] = "consume"
  /\ p \in {"claim", "saw", "giveback"} => mode = "PESSIMISTIC"
  /\ p \in {"again", "commit", "rollback"} => mode # "PESSIMISTIC"
  /\ mode = "PESSIMISTIC" => l.used # << >> /\ Accepts(l.rule, Goal(t))

LEMMA TryStep ==
  ASSUME IInv, NEW t \in Thread, pc[t] \notin Steering, pc[t] # "ready", Outcome(t), Quiet,
         UNCHANGED <<con, bucket>>,
         state' \in [Status -> {"PENDING", "CLAIMED", "CONSUMED"}],
         calls' \in [Thread -> Seq(Call)], \A u \in Thread \ {t} : calls'[u] = calls[u],
         held' \in [Thread -> SUBSET Known], \A u \in Thread \ {t} : held'[u] = held[u]
  PROVE  IInv' /\ Frame(t) /\ Nearby(t)
<1>1. TypeOK  BY DEF IInv
<1>2. Grown /\ Longer /\ Known' = Known /\ Maybe' = Maybe /\ UseList' = UseList /\ Job' = Job
  BY SameStore
<1>3. UNCHANGED <<queue, tasks, mode, batch, new, keys>>  BY DEF Quiet
<1>4. TypeOK'
  BY <1>1, <1>2, <1>3 DEF TypeOK, Outcome, Job, UseList, Scan
<1>5. Frame(t)  BY <1>3 DEF Frame, Stays, Outcome
<1>6. IInv'  BY <1>2, <1>3, <1>4, <1>5, OwnStep DEF Outcome, Resting
<1> QED  BY <1>5, <1>6 DEF Outcome

LEMMA ReturnOutcome ==
  ASSUME TypeOK, NEW t \in Thread, Goal(t) # None, NEW fired \in BOOLEAN, NEW retry \in BOOLEAN,
         Return(t, fired, retry)
  PROVE  Outcome(t)
<1>1. job \in [Thread -> Job]  BY DEF TypeOK, Job
<1>2. PICK v : v = [NewJob(job[t].goal, job[t].op) EXCEPT !.fired = fired, !.retry = retry]
  OBVIOUS
<1>3. v \in Job /\ v.goal = Goal(t)
  <2>1. job[t].goal \in Maybe /\ job[t].op \in {"batch", "async", "sync"}  BY <1>1 DEF Job
  <2>2. v = [goal |-> job[t].goal, op |-> job[t].op, saw |-> FALSE, left |-> 0,
             fired |-> fired, retry |-> retry]
    BY <1>2 DEF NewJob
  <2> QED  BY <2>1, <2>2 DEF Job, Goal
<1>4. NoJob \in Job  BY JobTyped DEF Maybe
<1>5. /\ job' = [job EXCEPT ![t] = IF fired /\ job[t].op = "sync" THEN NoJob ELSE v]
      /\ Jump(t, IF ~fired /\ (job[t].op = "sync" \/ (job[t].op = "async" /\ retry))
                 THEN "check" ELSE "ready")
      /\ list' = [list EXCEPT ![t] = NoList] /\ cur' = [cur EXCEPT ![t] = NoScan]
  BY <1>2 DEF Return
<1>6. job' \in [Thread -> Job] /\ (~fired => job'[t].goal = Goal(t))  BY <1>1, <1>3, <1>4, <1>5
<1>7. NoList \in UseList
  <2>1. << >> \in Seq(Maybe) /\ << >> \in Seq(Known)  BY EmptySeq
  <2> QED  BY <2>1 DEF NoList, UseList
<1>8. list' \in [Thread -> UseList] /\ \A u \in Thread \ {t} : list'[u] = list[u]
  <2>1. list \in [Thread -> UseList]  BY DEF TypeOK, UseList
  <2> QED  BY <1>5, <1>7, <2>1
<1>9. cur' \in [Thread -> Scan] /\ \A u \in Thread \ {t} : cur'[u] = cur[u]
  <2>1. cur \in [Thread -> Scan]  BY DEF TypeOK, Scan
  <2>2. NoScan \in Scan  BY DEF NoScan, Scan
  <2> QED  BY <1>5, <2>1, <2>2
<1>10. /\ pc' \in [Thread -> PC] /\ pc'[t] \in {"check", "ready"} /\ (pc'[t] = "check" => ~fired)
       /\ \A u \in Thread \ {t} : pc'[u] = pc[u]
  BY <1>5 DEF Jump, TypeOK, PC
<1>11. PlaceInv(t)'  BY <1>6, <1>10 DEF PlaceInv, Listed, Tasked, Entering, Goal
<1>12. \A u \in Thread \ {t} : job'[u] = job[u]  BY <1>1, <1>5
<1>13. Nearby(t)
  <2>1. job'[t].goal \in {job[t].goal, None}  BY <1>1, <1>3, <1>5 DEF NoJob, NewJob, Goal
  <2>2. list'[t].used = << >>  BY <1>5 DEF TypeOK, NoList
  <2>3. Near(t, list'[t])  BY <2>2, InOne DEF Near
  <2> QED  BY <1>10, <2>1, <2>3 DEF Nearby, Entering
<1> QED  BY <1>6, <1>8, <1>9, <1>10, <1>11, <1>12, <1>13 DEF Outcome, Steering

LEMMA MoveOutcome ==
  ASSUME TypeOK, NEW t \in Thread, Goal(t) # None, UNCHANGED <<con, bucket, mode>>,
         NEW p, NEW l, NEW c, Landing(t, p, l, c), Move(t, p, l, c),
         job' \in [Thread -> Job], job'[t].goal = job[t].goal, \A u \in Thread \ {t} : job'[u] = job[u]
  PROVE  Outcome(t)
<1>1. /\ Jump(t, p) /\ list' = [list EXCEPT ![t] = l] /\ cur' = [cur EXCEPT ![t] = c]
  BY DEF Move
<1>2. p \in Listed /\ p \in PC /\ p \notin Steering /\ p \notin Entering
  BY DEF Landing, Listed, PC, Steering, Entering
<1>3. pc' \in [Thread -> PC] /\ pc'[t] = p /\ \A u \in Thread \ {t} : pc'[u] = pc[u]
  BY <1>1, <1>2 DEF Jump, TypeOK
<1>4. list' \in [Thread -> UseList] /\ list'[t] = l /\ \A u \in Thread \ {t} : list'[u] = list[u]
  <2>1. list \in [Thread -> UseList]  BY DEF TypeOK, UseList
  <2> QED  BY <1>1, <2>1 DEF Landing, Sound
<1>5. cur' \in [Thread -> Scan] /\ cur'[t] = c /\ \A u \in Thread \ {t} : cur'[u] = cur[u]
  <2>1. cur \in [Thread -> Scan]  BY DEF TypeOK, Scan
  <2> QED  BY <1>1, <2>1 DEF Landing
<1>6. Grown  BY SameStore
<1>7. /\ Sound(l) /\ Sound(l)' /\ Faithful(l)'
      /\ Complete(l.rule, l.m) => Complete(l.rule, l.m)'
  BY <1>6, SoundStable, ExactStable DEF Landing
<1>8. Sound(list[t])' /\ Faithful(list[t])' /\ (Complete(l.rule, l.m) => Complete(list[t].rule, list[t].m)')
  BY <1>4, <1>7 DEF Complete, Matched
<1>9. ASSUME p \in {"look", "claim", "saw"} PROVE Facing(t)'
  <2>1. PICK s : s = Bucket(c.bkt)[c.at]  OBVIOUS
  <2>2. c.bkt \in Entries /\ s \in Known /\ Convenient(l.rule, l.m, s)
    <3>1. c.at \in DOMAIN Bucket(c.bkt) /\ Convenient(l.rule, l.m, s)  BY <1>9, <2>1 DEF Landing
    <3>2. c.bkt \notin Entries => Bucket(c.bkt) = << >>  BY DEF Bucket
    <3>3. c.bkt \in Entries  BY <3>1, <3>2
    <3>4. Bucket(c.bkt) \in Seq(Known)  BY <3>3 DEF Bucket, TypeOK
    <3> QED  BY <2>1, <3>1, <3>3, <3>4, ElementOfSeq, LenProperties
  <2>3. l.rule \in RuleId /\ l.m \in Match(l.rule, Known)  BY DEF Landing, Sound
  <2>4. PICK r, m : r = l.rule /\ m = l.m  OBVIOUS
  <2>5. Convenient(r, m, s)'  BY <1>6, <2>2, <2>3, <2>4, ConvenientStable
  <2>6. Here(t)' = s /\ cur'[t].at \in DOMAIN Bucket(cur[t].bkt)'
    BY <1>5, <1>9, <2>1 DEF Here, Bucket, Landing
  <2>7. Convenient(list[t].rule, list[t].m, Here(t))'
    <3>1. list'[t].rule = r /\ list'[t].m = m  BY <1>4, <2>4
    <3> QED  BY <2>5, <2>6, <3>1
  <2> QED  BY <2>6, <2>7 DEF Facing
<1>10. Settled(list[t])' = Settled(l)  BY <1>4 DEF Settled
<1>11. Goal(t)' = Goal(t)  BY DEF Goal
<1>12. Accepts(l.rule, Goal(t)) => Accepts(list[t].rule, Goal(t))'
  BY <1>4, <1>11 DEF Accepts
<1>13. p # "insert"  BY <1>2 DEF Entering
<1>14. PlaceInv(t)'
  BY <1>2, <1>3, <1>4, <1>5, <1>8, <1>9, <1>10, <1>11, <1>12, <1>13 DEF PlaceInv, Landing
<1>15. Nearby(t)  BY <1>2, <1>3, <1>4, <1>5 DEF Nearby, Landing
<1> QED  BY <1>2, <1>3, <1>4, <1>5, <1>14, <1>15 DEF Outcome

\* A search that goes on with the same goal.
LEMMA SearchOutcome ==
  ASSUME TypeOK, NEW t \in Thread, Goal(t) # None, UNCHANGED <<con, bucket, mode>>,
         NEW p, NEW l, NEW c, Landing(t, p, l, c), Search(t, p, l, c)
  PROVE  Outcome(t)
<1>1. job \in [Thread -> Job]  BY DEF TypeOK, Job
<1> QED  BY <1>1, MoveOutcome DEF Search

\* The first of the constraints that a match used, and of those it settles.
LEMMA Firsts ==
  ASSUME NEW l, Sound(l)
  PROVE  /\ l.used # << >> => 1 \in DOMAIN l.used /\ 1 \in DOMAIN Settled(l)
         /\ Complete(l.rule, l.m) => l.used # << >>
         /\ Settled(l) \in Seq(Known) /\ In(Settled(l)) = In(l.used)
<1>1. PICK e, u : e = l.eat /\ u = l.used  OBVIOUS
<1>2. e \in Seq(Known) /\ u \in Seq(Known)  BY <1>1 DEF Sound, UseList
<1>3. /\ DOMAIN e = 1..Len(e) /\ Len(e) \in Nat /\ DOMAIN u = 1..Len(u) /\ Len(u) \in Nat
      /\ (u # << >> => Len(u) # 0)
  BY <1>2, LenProperties, EmptySeq
<1>4. /\ e \o u \in Seq(Known) /\ Len(e \o u) = Len(e) + Len(u) /\ DOMAIN (e \o u) = 1..(Len(e) + Len(u))
      /\ In(e \o u) = In(e) \cup In(u)
  BY <1>2, ConcatProperties, LenProperties, InConcat
<1>5. Settled(l) = e \o u \/ Settled(l) = u  BY <1>1 DEF Settled
<1>6. u # << >> => 1 \in DOMAIN u /\ 1 \in DOMAIN (e \o u)  BY <1>3, <1>4
<1>7. Complete(l.rule, l.m) => u # << >>
  <2> SUFFICES ASSUME Complete(l.rule, l.m) PROVE u # << >>  OBVIOUS
  <2>1. 1 \in Heads(l.rule)
    <3>1. l.rule \in RuleId  BY DEF Sound
    <3>2. Rules[l.rule].keep \in Nat /\ Rules[l.rule].keep < Len(Rules[l.rule].heads)
      BY <3>1, KeptHeadNumbers, RulesAssumption
    <3> QED  BY <3>1, <3>2, HeadNumbers
  <2>2. l.m[1] \in In(u)  BY <1>1, <2>1 DEF Sound, Complete
  <2> QED  BY <2>2, InOne
<1> QED  BY <1>1, <1>2, <1>4, <1>5, <1>6, <1>7 DEF Sound

\* What a thread has at a step of its search.
LEMMA Place ==
  ASSUME IInv, NEW t \in Thread, pc[t] \in Listed \cup {"try", "stolen", "stolenpending"}
  PROVE  /\ TypeOK /\ PlaceInv(t) /\ pc[t] \notin Steering /\ pc[t] # "ready"
         /\ Goal(t) # None /\ Goal(t) \in Known
         /\ list \in [Thread -> UseList] /\ cur \in [Thread -> Scan] /\ job \in [Thread -> Job]
         /\ Known \subseteq Nat \ {None}
<1>1. TypeOK /\ PlaceInv(t)  BY DEF IInv
<1>2. Goal(t) # None /\ Goal(t) \in Known
  BY <1>1 DEF PlaceInv, Tasked, TypeOK, Goal, Maybe
<1>3. list \in [Thread -> UseList] /\ cur \in [Thread -> Scan] /\ job \in [Thread -> Job]
  BY <1>1 DEF TypeOK, UseList, Scan, Job
<1>4. pc[t] \notin Steering /\ pc[t] # "ready"  BY DEF Steering, Listed
<1>5. Known \subseteq Nat \ {None}  BY <1>1, Stati
<1> QED  BY <1>1, <1>2, <1>3, <1>4, <1>5

LEMMA MatchingOutcome ==
  ASSUME TypeOK, NEW t \in Thread, Goal(t) # None, UNCHANGED <<con, bucket, mode>>,
         NEW l, Sound(l), Faithful(l), Near(t, l), l.used # << >>, mode = "PESSIMISTIC" => Accepts(l.rule, Goal(t)),
         Matching(t, l)
  PROVE  Outcome(t)
<1>1. PICK p : p = IF ~Complete(l.rule, l.m) THEN "open"
                   ELSE IF mode = "PESSIMISTIC" THEN "consume" ELSE "commit"
  OBVIOUS
<1>2. Search(t, p, l, NoScan)  BY <1>1 DEF Matching
<1>3. NoScan \in Scan /\ NoScan.at = 1  BY DEF NoScan, Scan
<1>4. 1 \in DOMAIN l.used /\ 1 \in DOMAIN Settled(l)  BY Firsts
<1>5. Landing(t, p, l, NoScan)  BY <1>1, <1>3, <1>4 DEF Landing, Listed
<1> QED  BY <1>2, <1>5, SearchOutcome

\* The match of a rule with the goal alone.
LEMMA FirstUse ==
  ASSUME TypeOK, NEW t \in Thread, Goal(t) # None, NEW r \in RuleId, Accepts(r, Goal(t)),
         NEW l, l = Use(EmptyList(r), Goal(t))
  PROVE  /\ Sound(l) /\ Faithful(l) /\ Near(t, l) /\ l.rule = r
         /\ l.used # << >> /\ In(l.used) = {Goal(t)}
<1>1. Goal(t) \in Known /\ Known \subseteq Nat \ {None}  BY Stati DEF TypeOK, Goal, Maybe
<1>2. PICK e, s : e = EmptyList(r) /\ s = Goal(t)  OBVIOUS
<1>3. Sound(e) /\ e.rule = r /\ e.used = << >> /\ FreeHeads(e.rule, e.m, s) # {}
  BY <1>2, NewListSound
<1>4. Sound(l) /\ l.rule = r /\ l.used = InsertById(e.used, s)
  BY <1>1, <1>2, <1>3, UseSound
<1>5. l.used # << >> /\ In(l.used) = {s}
  <2>1. << >> \in Seq(Known) /\ Known \in SUBSET Nat  BY <1>1, EmptySeq
  <2>2. In(<< >>) = {}  BY InOne
  <2>3. l.used = InsertById(<< >>, s) /\ s \in Known  BY <1>1, <1>2, <1>3, <1>4
  <2>4. l.used # << >> /\ In(l.used) = In(<< >>) \cup {s}  BY <2>1, <2>3, InsertInto
  <2> QED  BY <2>2, <2>4
<1>6. FaithfulRule(mode, r) => Exact(l)
  <2>1. FaithfulRule(mode, r) /\ Rules[r].simpagation => DistinctNames(r)  BY DEF FaithfulRule
  <2>2. PICK p : p = EmptyList(r).spare  OBVIOUS
  <2>3. e = [EmptyList(r) EXCEPT !.spare = p]  BY <1>2, <2>2 DEF EmptyList
  <2>4. FaithfulRule(mode, r) => Exact(e) /\ Convenient(e.rule, e.m, s)
    BY <1>2, <2>1, <2>2, <2>3, EmptyListExact
  <2> QED  BY <1>1, <1>2, <1>3, <2>4, UseExact
<1> QED  BY <1>2, <1>4, <1>5, <1>6 DEF Faithful, Near

LEMMA NextRuleOutcome ==
  ASSUME TypeOK, NEW t \in Thread, Goal(t) # None, UNCHANGED <<con, bucket, mode>>, NextRule(t)
  PROVE  Outcome(t)
<1>1. CASE RulesAfter(t) = {}
  <2>1. PICK v : v = (mode = "PESSIMISTIC" /\ job[t].saw)  OBVIOUS
  <2>2. Return(t, FALSE, v)  BY <1>1, <2>1 DEF NextRule
  <2>3. v \in BOOLEAN  BY <2>1
  <2> QED  BY <2>2, <2>3, ReturnOutcome
<1>2. CASE RulesAfter(t) # {}
  <2>1. PICK r : r = Least(RulesAfter(t))  OBVIOUS
  <2>2. r \in RuleId /\ Accepts(r, Goal(t))
    <3>1. RulesAfter(t) \in SUBSET Nat  BY HeadNumbers DEF RulesAfter
    <3>2. r \in RulesAfter(t)  BY <1>2, <2>1, <3>1, LeastIn
    <3> QED  BY <3>2 DEF RulesAfter
  <2>3. PICK l : l = Use(EmptyList(r), Goal(t))  OBVIOUS
  <2>4. Sound(l) /\ Faithful(l) /\ Near(t, l) /\ l.rule = r /\ l.used # << >>
    BY <2>2, <2>3, FirstUse
  <2>5. Matching(t, l)  BY <1>2, <2>1, <2>3 DEF NextRule
  <2> QED  BY <2>2, <2>4, <2>5, MatchingOutcome
<1> QED  BY <1>1, <1>2

\* There is nothing more to find for a match.
LEMMA NotFoundOutcome ==
  ASSUME IInv, NEW t \in Thread, pc[t] \in Listed, UNCHANGED <<con, bucket, mode>>,
         NEW c \in Scan, NotFound(t, c)
  PROVE  Outcome(t)
<1>1. /\ TypeOK /\ PlaceInv(t) /\ Goal(t) # None  BY Place
<1>2. mode \in Modes  BY <1>1 DEF TypeOK
<1>3. CASE mode = "PESSIMISTIC"
  <2>1. PICK l, d : l = list[t] /\ d = [c EXCEPT !.at = 1]  OBVIOUS
  <2>2. Search(t, "giveback", l, d)  BY <1>3, <2>1 DEF NotFound
  <2>3. /\ Sound(l) /\ Faithful(l) /\ Near(t, l)
        /\ l.used # << >> /\ Accepts(l.rule, Goal(t))
    BY <1>1, <1>3, <2>1 DEF PlaceInv, Near
  <2>4. d \in Scan /\ d.at = 1  BY <2>1 DEF Scan
  <2>5. Landing(t, "giveback", l, d)  BY <1>3, <2>3, <2>4, Firsts DEF Landing, Listed
  <2> QED  BY <1>1, <2>2, <2>5, SearchOutcome
<1>4. CASE mode = "OPTIMISTIC"  BY <1>1, <1>4, NextRuleOutcome DEF NotFound
<1>5. CASE mode = "PARTIAL"
  <2>1. Return(t, FALSE, FALSE)  BY <1>5 DEF NotFound
  <2> QED  BY <1>1, <2>1, ReturnOutcome
<1> QED  BY <1>2, <1>3, <1>4, <1>5 DEF Modes

\* The next entry of the bucket.
LEMMA OnwardFaces ==
  ASSUME IInv, NEW t \in Thread, pc[t] \in Listed, Later(t) # {}
  PROVE  /\ Onward(t) \in Scan /\ Onward(t).bkt = cur[t].bkt
         /\ Onward(t).at \in DOMAIN Bucket(cur[t].bkt)
         /\ Convenient(list[t].rule, list[t].m, Bucket(cur[t].bkt)[Onward(t).at])
<1> DEFINE b == Bucket(cur[t].bkt)
           turn(i) == Turn(cur[t], i, Len(b))
<1>1. TypeOK /\ cur[t] \in Scan  BY Place
<1>2. Later(t) \subseteq Fitting(t, b) /\ Fitting(t, b) \subseteq DOMAIN b
  BY DEF Later, Fitting
<1>3. cur[t].bkt \in Entries
  <2>1. cur[t].bkt \notin Entries => b = << >>  BY DEF Bucket
  <2> QED  BY <1>2, <2>1
<1>4. b \in Seq(Known)  BY <1>1, <1>3 DEF Bucket, TypeOK
<1> HIDE DEF b
<1>5. DOMAIN b = 1..Len(b) /\ Len(b) \in Nat  BY <1>4, LenProperties
<1>6. \A i \in DOMAIN b : turn(i) \in Nat
  <2>1. \A n \in Nat \ {0} : \A x \in Int : x % n \in Nat  OBVIOUS
  <2>2. cur[t].off \in Nat  BY <1>1 DEF Scan
  <2> SUFFICES ASSUME NEW i \in DOMAIN b PROVE turn(i) \in Nat  OBVIOUS
  <2>3. i - cur[t].off + Len(b) \in Int /\ Len(b) \in Nat \ {0}  BY <1>5, <2>2
  <2> QED  BY <2>1, <2>3 DEF Turn
<1>7. PICK j \in Later(t) : \A k \in Later(t) : turn(j) <= turn(k)
  <2> DEFINE S == {turn(i) : i \in Later(t)}
  <2>1. S \in SUBSET Nat /\ S # {}  BY <1>2, <1>6
  <2> HIDE DEF S
  <2>2. Least(S) \in S /\ \A k \in S : Least(S) <= k  BY <2>1, LeastIn
  <2> QED  BY <2>2 DEF S
<1>8. PICK i : i = CHOOSE x \in Later(t) : \A k \in Later(t) : turn(x) <= turn(k)  OBVIOUS
<1>9. i \in Later(t)  BY <1>7, <1>8
<1>10. Onward(t) = [cur[t] EXCEPT !.at = i]  BY <1>8 DEF Onward, b
<1> HIDE DEF turn
<1>11. i \in DOMAIN b /\ i \in Nat \ {0} /\ Convenient(list[t].rule, list[t].m, b[i])
  BY <1>2, <1>5, <1>9 DEF Fitting
<1> QED  BY <1>1, <1>10, <1>11 DEF Scan, b

\* The search goes on with the next entry, or finds none.
LEMMA GoOnOutcome ==
  ASSUME IInv, NEW t \in Thread, pc[t] = "look", UNCHANGED <<con, bucket, mode>>, GoOn(t)
  PROVE  Outcome(t)
<1>1. pc[t] \in Listed  BY DEF Listed
<1>2. /\ TypeOK /\ PlaceInv(t) /\ Goal(t) # None /\ cur[t] \in Scan  BY <1>1, Place
<1>3. CASE Later(t) = {}  BY <1>1, <1>2, <1>3, NotFoundOutcome DEF GoOn
<1>4. CASE Later(t) # {}
  <2>1. PICK l, c : l = list[t] /\ c = Onward(t)  OBVIOUS
  <2>2. Search(t, "look", l, c)  BY <1>4, <2>1 DEF GoOn
  <2>3. c \in Scan /\ c.at \in DOMAIN Bucket(c.bkt) /\ Convenient(l.rule, l.m, Bucket(c.bkt)[c.at])
    BY <1>1, <1>4, <2>1, OnwardFaces
  <2>4. Landing(t, "look", l, c)  BY <1>1, <1>2, <2>1, <2>3 DEF Landing, PlaceInv, Near
  <2> QED  BY <1>2, <2>2, <2>4, SearchOutcome
<1> QED  BY <1>3, <1>4

\* A claim has failed, and what was claimed before is given back.
LEMMA RestartOutcome ==
  ASSUME IInv, NEW t \in Thread, pc[t] \in Listed, mode # "PESSIMISTIC",
         UNCHANGED <<con, bucket, mode>>, Restart(t)
  PROVE  Outcome(t)
<1>1. /\ TypeOK /\ PlaceInv(t) /\ Goal(t) # None /\ job \in [Thread -> Job] /\ Known \subseteq Nat \ {None}
  BY Place
<1>2. CASE mode = "OPTIMISTIC"
  <2>1. Return(t, FALSE, TRUE)  BY <1>2 DEF Restart
  <2> QED  BY <1>1, <2>1, ReturnOutcome
<1>3. CASE mode # "OPTIMISTIC"
  <2>1. PICK k, s : k = list[t] /\ s = k.used[cur[t].at]  OBVIOUS
  <2>2. PICK l : l = TakeOut(k, s)  OBVIOUS
  <2>3. Move(t, "again", l, NoScan)  BY <1>3, <2>1, <2>2 DEF Restart
  <2>4. Sound(l) /\ Faithful(l) /\ Near(t, l)
    <3>1. Sound(k)  BY <1>1, <2>1 DEF PlaceInv
    <3>2. /\ Sound(l) /\ l.rule = k.rule /\ In(l.used) \subseteq In(k.used)
          /\ ~Rules[k.rule].simpagation => Exact(l)
      BY <1>1, <2>2, <3>1, TakeOutSound
    <3>3. mode = "PARTIAL"  BY <1>1, <1>3 DEF TypeOK, Modes
    <3> QED  BY <2>1, <3>2, <3>3 DEF Faithful, FaithfulRule, Near
  <2>5. job' = job \/ job' = [job EXCEPT ![t].left = 0]  BY <1>3 DEF Restart
  <2>6. /\ job' \in [Thread -> Job] /\ job'[t].goal = job[t].goal
        /\ \A u \in Thread \ {t} : job'[u] = job[u]
    BY <1>1, <2>5 DEF Job
  <2>7. Landing(t, "again", l, NoScan)  BY <2>4 DEF Landing, Listed, NoScan, Scan
  <2> QED  BY <1>1, <2>3, <2>6, <2>7, MoveOutcome
<1> QED  BY <1>2, <1>3

(***************************************************************************)
(* The steps of a search.                                                  *)
(***************************************************************************)
LEMMA SetTyped ==
  ASSUME TypeOK, NEW s, NEW x \in {"PENDING", "CLAIMED", "CONSUMED"}, Set(s, x)
  PROVE  state' \in [Status -> {"PENDING", "CLAIMED", "CONSUMED"}]
BY DEF TypeOK, Set

LEMMA HeldTyped ==
  ASSUME TypeOK, NEW t \in Thread, NEW v \in SUBSET Known, held' = [held EXCEPT ![t] = v]
  PROVE  held' \in [Thread -> SUBSET Known] /\ \A u \in Thread \ {t} : held'[u] = held[u]
BY DEF TypeOK

LEMMA ClaimGoalKeeps ==
  ASSUME IInv, NEW t \in Thread, ClaimGoal(t)
  PROVE  IInv' /\ Frame(t) /\ Nearby(t)
<1>1. pc[t] = "try" /\ Quiet /\ UNCHANGED <<con, bucket, calls>>  BY DEF ClaimGoal
<1>2. UNCHANGED <<con, bucket, mode>>  BY <1>1 DEF Quiet
<1>3. /\ TypeOK /\ pc[t] \notin Steering /\ pc[t] # "ready" /\ Goal(t) # None /\ Goal(t) \in Known
  BY <1>1, Place
<1>4. calls' \in [Thread -> Seq(Call)] /\ calls' = calls  BY <1>1, <1>3 DEF TypeOK
<1>5. CASE state[Goal(t)] = "PENDING"
  <2>1. /\ Set(Goal(t), "CLAIMED") /\ held' = [held EXCEPT ![t] = {Goal(t)}] /\ NextRule(t)
    BY <1>5 DEF ClaimGoal
  <2>2. Outcome(t)  BY <1>2, <1>3, <2>1, NextRuleOutcome
  <2>3. state' \in [Status -> {"PENDING", "CLAIMED", "CONSUMED"}]  BY <1>3, <2>1, SetTyped
  <2>4. held' \in [Thread -> SUBSET Known] /\ \A u \in Thread \ {t} : held'[u] = held[u]
    <3>1. {Goal(t)} \in SUBSET Known  BY <1>3
    <3> QED  BY <1>3, <2>1, <3>1, HeldTyped
  <2> QED  BY <1>1, <1>3, <1>4, <2>2, <2>3, <2>4, TryStep
<1>6. CASE state[Goal(t)] # "PENDING"
  <2>1. Jump(t, "stolen") /\ UNCHANGED <<state, job, list, cur, held>>  BY <1>6 DEF ClaimGoal, search
  <2>2. pc' \in [Thread -> PC] /\ pc'[t] = "stolen" /\ \A u \in Thread \ {t} : pc'[u] = pc[u]
    BY <1>3, <2>1 DEF Jump, TypeOK, PC
  <2>3. PlaceInv(t)'
    BY <1>3, <2>1, <2>2 DEF PlaceInv, Listed, Tasked, Entering, Goal
  <2>4. Nearby(t)  BY <2>1, <2>2 DEF Nearby, Near, Entering
  <2>5. Outcome(t)
    BY <1>3, <2>1, <2>2, <2>3, <2>4 DEF Outcome, TypeOK, Job, Scan, UseList, Steering
  <2> QED  BY <1>1, <1>3, <1>4, <2>1, <2>5, TryStep DEF TypeOK
<1> QED  BY <1>5, <1>6

\* A step that only searches.
LEMMA SeekKeeps ==
  ASSUME IInv, NEW t \in Thread, pc[t] \in Listed \cup {"try", "stolen", "stolenpending"},
         UNCHANGED <<con, bucket, mode>> => Outcome(t), Quiet, UNCHANGED <<store, calls, held>>
  PROVE  IInv' /\ Frame(t) /\ Nearby(t)
<1>1. UNCHANGED <<con, state, bucket, calls, held>>  BY DEF store
<1>2. UNCHANGED <<con, bucket, mode>>  BY <1>1 DEF Quiet
<1>3. TypeOK /\ pc[t] \notin Steering /\ pc[t] # "ready"  BY Place
<1> QED  BY <1>1, <1>2, <1>3, TryStep DEF TypeOK

LEMMA StolenKeeps ==
  ASSUME IInv, NEW t \in Thread, Stolen(t)
  PROVE  IInv' /\ Frame(t) /\ Nearby(t)
<1>1. /\ pc[t] \in {"stolen", "stolenpending"} /\ Quiet /\ UNCHANGED <<store, calls, held>>
  BY DEF Stolen
<1>2. /\ TypeOK /\ Goal(t) # None /\ list \in [Thread -> UseList] /\ cur \in [Thread -> Scan]
      /\ job \in [Thread -> Job]
  BY <1>1, Place
<1>3. \/ Return(t, FALSE, TRUE) \/ Return(t, FALSE, FALSE)
      \/ Search(t, "stolenpending", list[t], cur[t])
  BY DEF Stolen
<1>4. ASSUME Search(t, "stolenpending", list[t], cur[t]) PROVE Outcome(t)
  <2>1. /\ pc' = [pc EXCEPT ![t] = "stolenpending"] /\ job' = job
        /\ list' = [list EXCEPT ![t] = list[t]] /\ cur' = [cur EXCEPT ![t] = cur[t]]
    BY <1>4 DEF Search, Move, Jump
  <2>2. list' = list /\ cur' = cur  BY <1>2, <2>1
  <2>3. pc' \in [Thread -> PC] /\ pc'[t] = "stolenpending" /\ \A u \in Thread \ {t} : pc'[u] = pc[u]
    BY <1>2, <2>1 DEF TypeOK, PC
  <2>4. PlaceInv(t)'  BY <1>2, <2>1, <2>3 DEF PlaceInv, Listed, Tasked, Entering, Goal
  <2>5. UseList' = UseList  BY <1>1, SameTypes DEF store
  <2>6. Nearby(t)  BY <2>1, <2>2, <2>3 DEF Nearby, Near, Entering
  <2> QED  BY <1>2, <2>1, <2>2, <2>3, <2>4, <2>5, <2>6 DEF Outcome, Steering
<1>5. Outcome(t)  BY <1>2, <1>3, <1>4, ReturnOutcome
<1> QED  BY <1>1, <1>5, SeekKeeps

LEMMA TryGoalKeeps ==
  ASSUME IInv, NEW t \in Thread, TryGoal(t)
  PROVE  IInv' /\ Frame(t) /\ Nearby(t)
<1>1. /\ pc[t] = "try" /\ NextRule(t) /\ Quiet /\ UNCHANGED <<store, calls, held>>  BY DEF TryGoal
<1>2. TypeOK /\ Goal(t) # None  BY <1>1, Place
<1>3. UNCHANGED <<con, bucket, mode>> => Outcome(t)  BY <1>1, <1>2, NextRuleOutcome
<1> QED  BY <1>1, <1>3, SeekKeeps

LEMMA TryFirstRuleKeeps ==
  ASSUME IInv, NEW t \in Thread, TryFirstRule(t)
  PROVE  IInv' /\ Frame(t) /\ Nearby(t)
<1>1. /\ pc[t] = "try" /\ mode = "PARTIAL" /\ RulesAfter(t) # {}
      /\ Move(t, "again", Use(EmptyList(Least(RulesAfter(t))), Goal(t)), NoScan)
      /\ job' = [job EXCEPT ![t].left = 3]
      /\ Quiet /\ UNCHANGED <<store, calls, held>>
  BY DEF TryFirstRule
<1>2. /\ TypeOK /\ Goal(t) # None /\ Goal(t) \in Known /\ job \in [Thread -> Job]
      /\ Known \subseteq Nat \ {None}
  BY <1>1, Place
<1>3. PICK r : r = Least(RulesAfter(t))  OBVIOUS
<1>4. r \in RuleId /\ Accepts(r, Goal(t))
  <2>1. RulesAfter(t) \in SUBSET Nat  BY HeadNumbers DEF RulesAfter
  <2>2. r \in RulesAfter(t)  BY <1>1, <1>3, <2>1, LeastIn
  <2> QED  BY <2>2 DEF RulesAfter
<1>5. PICK l : l = Use(EmptyList(r), Goal(t))  OBVIOUS
<1>7. Sound(l) /\ Faithful(l) /\ Near(t, l)  BY <1>2, <1>4, <1>5, FirstUse
<1>8. Landing(t, "again", l, NoScan)  BY <1>1, <1>7 DEF Landing, Listed, NoScan, Scan
<1>9. /\ job' \in [Thread -> Job] /\ job'[t].goal = job[t].goal
      /\ \A u \in Thread \ {t} : job'[u] = job[u]
  BY <1>1, <1>2 DEF Job
<1>10. UNCHANGED <<con, bucket, mode>> => Outcome(t)
  BY <1>1, <1>2, <1>3, <1>5, <1>8, <1>9, MoveOutcome
<1> QED  BY <1>1, <1>10, SeekKeeps

LEMMA AgainKeeps ==
  ASSUME IInv, NEW t \in Thread, Again(t)
  PROVE  IInv' /\ Frame(t) /\ Nearby(t)
<1>1. pc[t] = "again" /\ Quiet /\ UNCHANGED <<store, calls, held>>  BY DEF Again
<1>2. pc[t] \in Listed  BY <1>1 DEF Listed
<1>3. /\ TypeOK /\ PlaceInv(t) /\ Goal(t) # None /\ job \in [Thread -> Job]
  BY <1>2, Place
<1>4. CASE job[t].left = 0 \/ state[Goal(t)] = "CONSUMED"
  <2>1. Return(t, FALSE, TRUE)  BY <1>4 DEF Again
  <2>2. Outcome(t)  BY <1>3, <2>1, ReturnOutcome
  <2> QED  BY <1>1, <1>2, <2>2, SeekKeeps
<1>5. CASE ~(job[t].left = 0 \/ state[Goal(t)] = "CONSUMED")
  <2>1. PICK l, p : l = list[t] /\ p = IF Complete(l.rule, l.m) THEN "commit" ELSE "open"  OBVIOUS
  <2>2. Move(t, p, l, NoScan) /\ job' = [job EXCEPT ![t].left = @ - 1]
    BY <1>5, <2>1 DEF Again
  <2>3. Sound(l) /\ Faithful(l) /\ Near(t, l) /\ mode # "PESSIMISTIC"
    BY <1>1, <1>2, <1>3, <2>1 DEF PlaceInv, Near
  <2>4. Complete(l.rule, l.m) => 1 \in DOMAIN l.used  BY <2>3, Firsts
  <2>5. Landing(t, p, l, NoScan)  BY <2>1, <2>3, <2>4 DEF Landing, Listed, NoScan, Scan
  <2>6. /\ job' \in [Thread -> Job] /\ job'[t].goal = job[t].goal
        /\ \A u \in Thread \ {t} : job'[u] = job[u]
    <3>1. job[t].left - 1 \in 0..3  BY <1>3, <1>5 DEF Job
    <3> QED  BY <1>3, <2>2, <3>1 DEF Job
  <2>7. UNCHANGED <<con, bucket, mode>> => Outcome(t)  BY <1>3, <2>2, <2>5, <2>6, MoveOutcome
  <2> QED  BY <1>1, <1>2, <2>7, SeekKeeps
<1> QED  BY <1>4, <1>5

LEMMA OpenKeeps ==
  ASSUME IInv, NEW t \in Thread, Open(t)
  PROVE  IInv' /\ Frame(t) /\ Nearby(t)
<1>1. pc[t] = "open" /\ Quiet /\ UNCHANGED <<store, calls, held>>  BY DEF Open
<1>2. pc[t] \in Listed  BY <1>1 DEF Listed
<1>3. TypeOK /\ PlaceInv(t) /\ Goal(t) # None  BY <1>2, Place
<1>4. UNCHANGED <<con, bucket, mode>>  BY <1>1 DEF Quiet, store
<1>5. PICK l, k, b : l = list[t] /\ k = HintEntry(l.rule, l.m) /\ b = Bucket(k)  OBVIOUS
<1>6. PICK fit : fit = Fitting(t, b)  OBVIOUS
<1>7. PICK bkt : bkt = IF k \in Entries THEN k ELSE NoKey  OBVIOUS
<1>8. CASE fit = {}
  <2>1. PICK c : c = [NoScan EXCEPT !.bkt = bkt]  OBVIOUS
  <2>2. NotFound(t, c)  BY <1>5, <1>6, <1>7, <1>8, <2>1 DEF Open
  <2>3. c \in Scan  BY <1>7, <2>1 DEF NoScan, Scan
  <2>4. Outcome(t)  BY <1>2, <1>4, <2>2, <2>3, NotFoundOutcome
  <2> QED  BY <1>1, <1>2, <2>4, SeekKeeps
<1>9. CASE fit # {}
  <2>1. k \in Entries
    <3>1. k \notin Entries => b = << >>  BY <1>5 DEF Bucket
    <3> QED  BY <1>6, <1>9, <3>1 DEF Fitting
  <2>2. b \in Seq(Known)  BY <1>3, <1>5, <2>1 DEF Bucket, TypeOK
  <2>3. DOMAIN b = 1..Len(b) /\ Len(b) \in Nat  BY <2>2, LenProperties
  <2>4. fit \subseteq DOMAIN b /\ fit \in SUBSET Nat  BY <1>6, <2>3 DEF Fitting
  <2>5. PICK i \in IF mode = "PESSIMISTIC" THEN {Least(fit)} ELSE fit :
          Search(t, "look", l, [bkt |-> bkt, off |-> IF mode = "PESSIMISTIC" THEN 1 ELSE i, at |-> i])
    BY <1>5, <1>6, <1>7, <1>9 DEF Open
  <2>6. i \in fit  BY <1>9, <2>4, <2>5, LeastIn
  <2>7. i \in DOMAIN b /\ i \in Nat \ {0} /\ Convenient(l.rule, l.m, b[i])
    <3>1. i \in DOMAIN b /\ Convenient(l.rule, l.m, b[i])  BY <1>5, <1>6, <2>6 DEF Fitting
    <3>2. i \in Nat \ {0}  BY <2>3, <3>1
    <3> QED  BY <3>1, <3>2
  <2>8. PICK c : c = [bkt |-> bkt, off |-> IF mode = "PESSIMISTIC" THEN 1 ELSE i, at |-> i]
    OBVIOUS
  <2>9. c \in Scan /\ c.bkt = k /\ c.at = i  BY <1>7, <2>1, <2>7, <2>8 DEF Scan
  <2>10. Landing(t, "look", l, c)
    BY <1>2, <1>3, <1>5, <2>7, <2>9 DEF Landing, Listed, PlaceInv, Near
  <2>11. Outcome(t)  BY <1>3, <1>4, <2>5, <2>8, <2>10, SearchOutcome
  <2> QED  BY <1>1, <1>2, <2>11, SeekKeeps
<1> QED  BY <1>8, <1>9

\* What is used after the constraint that is looked at.
LEMMA UseHere ==
  ASSUME IInv, NEW t \in Thread, pc[t] \in {"look", "claim"}, NEW l, l = Use(list[t], Here(t))
  PROVE  /\ Here(t) \in Known /\ Sound(l) /\ l.rule = list[t].rule /\ l.used # << >>
         /\ l.used = InsertById(list[t].used, Here(t)) /\ Faithful(l) /\ Near(t, l)
<1>1. pc[t] \in Listed  BY DEF Listed
<1>2. /\ TypeOK /\ PlaceInv(t) /\ Known \subseteq Nat \ {None}  BY <1>1, Place
<1>3. Facing(t)  BY <1>2 DEF PlaceInv
<1>4. PICK k, s : k = list[t] /\ s = Here(t)  OBVIOUS
<1>5. Sound(k) /\ Faithful(k) /\ s \in Known /\ Convenient(k.rule, k.m, s)
  BY <1>1, <1>2, <1>3, <1>4, HereKnown DEF PlaceInv, Facing
<1>6. l = Use(k, s)  BY <1>4
<1>7. Sound(l) /\ l.rule = k.rule /\ l.used = InsertById(k.used, s)
  <2>1. FreeHeads(k.rule, k.m, s) # {}  BY <1>5 DEF Convenient
  <2> QED  BY <1>2, <1>5, <1>6, <2>1, UseSound
<1>8. k.used \in Seq(Known) /\ Known \in SUBSET Nat  BY <1>2, <1>5 DEF Sound, UseList
<1>9. l.used # << >> /\ In(l.used) = In(k.used) \cup {s}  BY <1>5, <1>7, <1>8, InsertInto
<1>10. Faithful(l)
  <2>1. Exact(k) => Exact(Use(k, s))  BY <1>2, <1>5, UseExact
  <2> QED  BY <1>5, <1>6, <1>7, <2>1 DEF Faithful
<1>11. Near(t, l)
  <2>1. s \in In(Bucket(cur[t].bkt))  BY <1>3, <1>4 DEF Facing, Here, In
  <2> QED  BY <1>4, <1>9, <2>1 DEF Near
<1> QED  BY <1>4, <1>5, <1>7, <1>9, <1>10, <1>11

LEMMA LookKeeps ==
  ASSUME IInv, NEW t \in Thread, Look(t)
  PROVE  IInv' /\ Frame(t) /\ Nearby(t)
<1>1. pc[t] = "look" /\ Quiet /\ UNCHANGED <<store, calls, held>>  BY DEF Look
<1>2. pc[t] \in Listed  BY <1>1 DEF Listed
<1>3. TypeOK /\ PlaceInv(t) /\ Goal(t) # None /\ cur[t] \in Scan  BY <1>2, Place
<1>4. UNCHANGED <<con, bucket, mode>>  BY <1>1 DEF Quiet, store
<1>5. CASE state[Here(t)] = "CONSUMED"
  <2>1. GoOn(t)  BY <1>5 DEF Look
  <2>2. Outcome(t)  BY <1>1, <1>4, <2>1, GoOnOutcome
  <2> QED  BY <1>1, <1>2, <2>2, SeekKeeps
<1>6. CASE state[Here(t)] # "CONSUMED" /\ mode = "PESSIMISTIC"
  <2>1. PICK l, c : l = list[t] /\ c = cur[t]  OBVIOUS
  <2>2. Search(t, "claim", l, c)  BY <1>6, <2>1 DEF Look
  <2>3. Landing(t, "claim", l, c)
    BY <1>1, <1>2, <1>3, <1>6, <2>1 DEF Landing, Listed, PlaceInv, Facing, Here, Near
  <2>4. Outcome(t)  BY <1>3, <1>4, <2>2, <2>3, SearchOutcome
  <2> QED  BY <1>1, <1>2, <2>4, SeekKeeps
<1>7. CASE state[Here(t)] # "CONSUMED" /\ mode # "PESSIMISTIC"
  <2>1. PICK l : l = Use(list[t], Here(t))  OBVIOUS
  <2>2. Matching(t, l)  BY <1>7, <2>1 DEF Look
  <2>3. Sound(l) /\ Faithful(l) /\ Near(t, l) /\ l.used # << >>  BY <1>1, <2>1, UseHere
  <2>4. Outcome(t)  BY <1>3, <1>4, <1>7, <2>2, <2>3, MatchingOutcome
  <2> QED  BY <1>1, <1>2, <2>4, SeekKeeps
<1> QED  BY <1>5, <1>6, <1>7

LEMMA ClaimHereKeeps ==
  ASSUME IInv, NEW t \in Thread, ClaimHere(t)
  PROVE  IInv' /\ Frame(t) /\ Nearby(t)
<1>1. pc[t] = "claim" /\ Quiet /\ UNCHANGED <<con, bucket, calls>>  BY DEF ClaimHere
<1>2. pc[t] \in Listed  BY <1>1 DEF Listed
<1>3. /\ TypeOK /\ PlaceInv(t) /\ Goal(t) # None /\ cur[t] \in Scan
      /\ pc[t] \notin Steering /\ pc[t] # "ready"
  BY <1>2, Place
<1>4. UNCHANGED <<con, bucket, mode>>  BY <1>1 DEF Quiet
<1>5. calls' \in [Thread -> Seq(Call)] /\ calls' = calls  BY <1>1, <1>3 DEF TypeOK
<1>6. mode = "PESSIMISTIC" /\ Accepts(list[t].rule, Goal(t))  BY <1>1, <1>2, <1>3 DEF PlaceInv
<1>7. CASE state[Here(t)] = "PENDING"
  <2>1. PICK l : l = Use(list[t], Here(t))  OBVIOUS
  <2>2. /\ Set(Here(t), "CLAIMED") /\ held' = [held EXCEPT ![t] = held[t] \cup {Here(t)}]
        /\ Matching(t, l)
    BY <1>7, <2>1 DEF ClaimHere
  <2>3. /\ Here(t) \in Known /\ Sound(l) /\ Faithful(l) /\ Near(t, l)
        /\ l.rule = list[t].rule /\ l.used # << >>
    BY <1>1, <2>1, UseHere
  <2>4. Outcome(t)  BY <1>3, <1>4, <1>6, <2>2, <2>3, MatchingOutcome
  <2>5. state' \in [Status -> {"PENDING", "CLAIMED", "CONSUMED"}]  BY <1>3, <2>2, SetTyped
  <2>6. held' \in [Thread -> SUBSET Known] /\ \A u \in Thread \ {t} : held'[u] = held[u]
    <3>1. held[t] \cup {Here(t)} \in SUBSET Known  BY <1>3, <2>3 DEF TypeOK
    <3> QED  BY <1>3, <2>2, <3>1, HeldTyped
  <2> QED  BY <1>1, <1>3, <1>5, <2>4, <2>5, <2>6, TryStep
<1>8. CASE state[Here(t)] # "PENDING"
  <2>1. PICK l, c : l = list[t] /\ c = cur[t]  OBVIOUS
  <2>2. Search(t, "saw", l, c) /\ UNCHANGED <<state, held>>  BY <1>8, <2>1 DEF ClaimHere
  <2>3. Landing(t, "saw", l, c)
    BY <1>1, <1>2, <1>3, <2>1 DEF Landing, Listed, PlaceInv, Facing, Here, Near
  <2>4. Outcome(t)  BY <1>3, <1>4, <2>2, <2>3, SearchOutcome
  <2>5. UNCHANGED <<store, calls, held>>  BY <1>1, <2>2 DEF store
  <2> QED  BY <1>1, <1>2, <2>4, <2>5, SeekKeeps
<1> QED  BY <1>7, <1>8

LEMMA SawKeeps ==
  ASSUME IInv, NEW t \in Thread, Saw(t)
  PROVE  IInv' /\ Frame(t) /\ Nearby(t)
<1>1. pc[t] = "saw" /\ Quiet /\ UNCHANGED <<store, calls, held>>  BY DEF Saw
<1>2. pc[t] \in Listed  BY <1>1 DEF Listed
<1>3. TypeOK /\ PlaceInv(t) /\ Goal(t) # None /\ cur[t] \in Scan /\ job \in [Thread -> Job]
  BY <1>2, Place
<1>4. UNCHANGED <<con, bucket, mode>>  BY <1>1 DEF Quiet, store
<1>5. PICK l : l = list[t]  OBVIOUS
<1>6. /\ mode = "PESSIMISTIC" /\ Sound(l) /\ Faithful(l) /\ Near(t, l)
      /\ l.used # << >> /\ Accepts(l.rule, Goal(t))
  BY <1>1, <1>2, <1>3, <1>5 DEF PlaceInv, Near
<1>7. /\ job' \in [Thread -> Job] /\ job'[t].goal = job[t].goal
      /\ \A u \in Thread \ {t} : job'[u] = job[u]
  <2>1. PICK v : v = (job[t].saw \/ state[Here(t)] = "CLAIMED")  OBVIOUS
  <2>2. job' = [job EXCEPT ![t].saw = v]  BY <2>1 DEF Saw
  <2>3. v \in BOOLEAN  BY <2>1
  <2>4. [job[t] EXCEPT !.saw = v] \in Job /\ [job[t] EXCEPT !.saw = v].goal = job[t].goal
    BY <1>3, <2>3 DEF Job
  <2> QED  BY <1>3, <2>2, <2>4
<1>8. CASE Later(t) = {}
  <2>1. PICK c : c = [cur[t] EXCEPT !.at = 1]  OBVIOUS
  <2>2. Move(t, "giveback", l, c)  BY <1>5, <1>8, <2>1 DEF Saw
  <2>3. c \in Scan /\ c.at = 1  BY <1>3, <2>1 DEF Scan
  <2>4. Landing(t, "giveback", l, c)  BY <1>6, <2>3, Firsts DEF Landing, Listed
  <2>5. Outcome(t)  BY <1>3, <1>4, <1>7, <2>2, <2>4, MoveOutcome
  <2> QED  BY <1>1, <1>2, <2>5, SeekKeeps
<1>9. CASE Later(t) # {}
  <2>1. PICK c : c = Onward(t)  OBVIOUS
  <2>2. Move(t, "look", l, c)  BY <1>5, <1>9, <2>1 DEF Saw
  <2>3. c \in Scan /\ c.at \in DOMAIN Bucket(c.bkt) /\ Convenient(l.rule, l.m, Bucket(c.bkt)[c.at])
    BY <1>2, <1>5, <1>9, <2>1, OnwardFaces
  <2>4. Landing(t, "look", l, c)  BY <1>6, <2>3 DEF Landing, Listed
  <2>5. Outcome(t)  BY <1>3, <1>4, <1>7, <2>2, <2>4, MoveOutcome
  <2> QED  BY <1>1, <1>2, <2>5, SeekKeeps
<1> QED  BY <1>8, <1>9

\* The constraint that a claim, a release or a consumption is about.
LEMMA UsedAt ==
  ASSUME IInv, NEW t \in Thread, pc[t] \in Listed, cur[t].at \in DOMAIN list[t].used
  PROVE  /\ list[t].used[cur[t].at] \in Known /\ list[t].used[cur[t].at] \in In(list[t].used)
         /\ cur[t].at \in 1..Len(list[t].used) /\ DOMAIN list[t].used = 1..Len(list[t].used)
         /\ Len(list[t].used) \in Nat
<1>1. list[t].used \in Seq(Known)  BY Place DEF UseList
<1> QED  BY <1>1, LenProperties, ElementOfSeq DEF In

LEMMA GiveBackKeeps ==
  ASSUME IInv, NEW t \in Thread, GiveBack(t)
  PROVE  IInv' /\ Frame(t) /\ Nearby(t)
<1>1. pc[t] = "giveback" /\ Quiet /\ UNCHANGED <<con, bucket, calls>>  BY DEF GiveBack
<1>2. pc[t] \in Listed  BY <1>1 DEF Listed
<1>3. /\ TypeOK /\ PlaceInv(t) /\ Goal(t) # None /\ cur[t] \in Scan
      /\ pc[t] \notin Steering /\ pc[t] # "ready"
  BY <1>2, Place
<1>4. UNCHANGED <<con, bucket, mode>>  BY <1>1 DEF Quiet
<1>5. calls' \in [Thread -> Seq(Call)] /\ calls' = calls  BY <1>1, <1>3 DEF TypeOK
<1>6. PICK l, s : l = list[t] /\ s = l.used[cur[t].at]  OBVIOUS
<1>7. /\ mode = "PESSIMISTIC" /\ Sound(l) /\ Faithful(l) /\ Near(t, l)
      /\ l.used # << >> /\ Accepts(l.rule, Goal(t)) /\ cur[t].at \in DOMAIN l.used
  BY <1>1, <1>2, <1>3, <1>6 DEF PlaceInv, Near
<1>8. /\ Set(s, "PENDING") \/ state' = state
      /\ held' = [held EXCEPT ![t] = held[t] \ {s}]
  BY <1>6 DEF GiveBack
<1>9. state' \in [Status -> {"PENDING", "CLAIMED", "CONSUMED"}]
  <2>1. CASE state' = state  BY <1>3, <2>1 DEF TypeOK
  <2>2. CASE state' # state
    <3>1. PICK x \in {"PENDING", "CONSUMED"} : Set(s, x)  BY <1>8, <2>2
    <3> QED  BY <1>3, <3>1, SetTyped
  <2> QED  BY <2>1, <2>2
<1>10. held' \in [Thread -> SUBSET Known] /\ \A u \in Thread \ {t} : held'[u] = held[u]
  <2>1. held[t] \ {s} \in SUBSET Known  BY <1>3 DEF TypeOK
  <2> QED  BY <1>3, <1>8, <2>1, HeldTyped
<1>11. Outcome(t)
  <2>1. CASE cur[t].at = Len(l.used)
    <3>1. NextRule(t)  BY <1>6, <2>1 DEF GiveBack
    <3> QED  BY <1>3, <1>4, <3>1, NextRuleOutcome
  <2>2. CASE cur[t].at # Len(l.used)
    <3>1. PICK c : c = [cur[t] EXCEPT !.at = @ + 1]  OBVIOUS
    <3>2. Search(t, "giveback", l, c)  BY <1>6, <2>2, <3>1 DEF GiveBack
    <3>3. cur[t].at \in 1..Len(l.used) /\ DOMAIN l.used = 1..Len(l.used) /\ Len(l.used) \in Nat
      BY <1>2, <1>6, <1>7, UsedAt
    <3>4. c \in Scan /\ c.at = cur[t].at + 1  BY <1>3, <3>1 DEF Scan
    <3>5. c.at \in DOMAIN l.used  BY <2>2, <3>3, <3>4
    <3>6. Landing(t, "giveback", l, c)  BY <1>7, <3>4, <3>5 DEF Landing, Listed
    <3> QED  BY <1>3, <1>4, <3>2, <3>6, SearchOutcome
  <2> QED  BY <2>1, <2>2
<1> QED  BY <1>1, <1>3, <1>5, <1>9, <1>10, <1>11, TryStep

LEMMA CommitKeeps ==
  ASSUME IInv, NEW t \in Thread, Commit(t)
  PROVE  IInv' /\ Frame(t) /\ Nearby(t)
<1>1. pc[t] = "commit" /\ Quiet /\ UNCHANGED <<con, bucket, calls>>  BY DEF Commit, CommitIf
<1>2. pc[t] \in Listed  BY <1>1 DEF Listed
<1>3. /\ TypeOK /\ PlaceInv(t) /\ Goal(t) # None /\ cur[t] \in Scan
      /\ pc[t] \notin Steering /\ pc[t] # "ready"
  BY <1>2, Place
<1>4. UNCHANGED <<con, bucket, mode>>  BY <1>1 DEF Quiet
<1>5. calls' \in [Thread -> Seq(Call)] /\ calls' = calls  BY <1>1, <1>3 DEF TypeOK
<1>6. PICK l, s : l = list[t] /\ s = l.used[cur[t].at]  OBVIOUS
<1>7. /\ mode # "PESSIMISTIC" /\ Sound(l) /\ Faithful(l) /\ Near(t, l)
      /\ Complete(l.rule, l.m) /\ cur[t].at \in DOMAIN l.used /\ l.used # << >>
  BY <1>1, <1>2, <1>3, <1>6, Firsts DEF PlaceInv, Near
<1>8. s \in Known /\ cur[t].at \in 1..Len(l.used) /\ DOMAIN l.used = 1..Len(l.used) /\ Len(l.used) \in Nat
  BY <1>2, <1>6, <1>7, UsedAt
<1>9. CASE state[s] = "PENDING"
  <2>1. Set(s, "CLAIMED") /\ held' = [held EXCEPT ![t] = held[t] \cup {s}]
    BY <1>6, <1>9 DEF Commit, CommitIf
  <2>2. state' \in [Status -> {"PENDING", "CLAIMED", "CONSUMED"}]  BY <1>3, <2>1, SetTyped
  <2>3. held' \in [Thread -> SUBSET Known] /\ \A u \in Thread \ {t} : held'[u] = held[u]
    <3>1. held[t] \cup {s} \in SUBSET Known  BY <1>3, <1>8 DEF TypeOK
    <3> QED  BY <1>3, <2>1, <3>1, HeldTyped
  <2>4. Outcome(t)
    <3>1. CASE cur[t].at = Len(l.used)
      <4>1. Search(t, "consume", l, NoScan)  BY <1>6, <1>9, <3>1 DEF Commit, CommitIf
      <4>2. NoScan \in Scan /\ NoScan.at = 1  BY DEF NoScan, Scan
      <4>3. Landing(t, "consume", l, NoScan)  BY <1>7, <4>2, Firsts DEF Landing, Listed
      <4> QED  BY <1>3, <1>4, <4>1, <4>3, SearchOutcome
    <3>2. CASE cur[t].at # Len(l.used)
      <4>1. PICK c : c = At(cur[t].at + 1)  OBVIOUS
      <4>2. Search(t, "commit", l, c)  BY <1>6, <1>9, <3>2, <4>1 DEF Commit, CommitIf
      <4>3. c \in Scan /\ c.at = cur[t].at + 1  BY <1>3, <4>1 DEF At, NoScan, Scan
      <4>4. c.at \in DOMAIN l.used  BY <1>8, <3>2, <4>3
      <4>5. Landing(t, "commit", l, c)  BY <1>7, <4>3, <4>4 DEF Landing, Listed
      <4> QED  BY <1>3, <1>4, <4>2, <4>5, SearchOutcome
    <3> QED  BY <3>1, <3>2
  <2> QED  BY <1>1, <1>3, <1>5, <2>2, <2>3, <2>4, TryStep
<1>10. CASE state[s] # "PENDING"
  <2>1. UNCHANGED <<state, held>>  BY <1>6, <1>10 DEF Commit, CommitIf
  <2>2. Outcome(t)
    <3>1. CASE held[t] = {}
      <4>1. Restart(t)  BY <1>6, <1>10, <3>1 DEF Commit, CommitIf
      <4> QED  BY <1>2, <1>4, <1>7, <4>1, RestartOutcome
    <3>2. CASE held[t] # {}
      <4>1. PICK c : c = cur[t]  OBVIOUS
      <4>2. Search(t, "rollback", l, c)  BY <1>6, <1>10, <3>2, <4>1 DEF Commit, CommitIf
      <4>3. Landing(t, "rollback", l, c)  BY <1>3, <1>7, <4>1 DEF Landing, Listed
      <4> QED  BY <1>3, <1>4, <4>2, <4>3, SearchOutcome
    <3> QED  BY <3>1, <3>2
  <2>3. UNCHANGED <<store, calls, held>>  BY <1>1, <2>1 DEF store
  <2> QED  BY <1>1, <1>2, <2>2, <2>3, SeekKeeps
<1> QED  BY <1>9, <1>10

LEMMA RollbackKeeps ==
  ASSUME IInv, NEW t \in Thread, Rollback(t)
  PROVE  IInv' /\ Frame(t) /\ Nearby(t)
<1>1. pc[t] = "rollback" /\ Quiet /\ UNCHANGED <<con, bucket, calls>>  BY DEF Rollback
<1>2. pc[t] \in Listed  BY <1>1 DEF Listed
<1>3. /\ TypeOK /\ PlaceInv(t) /\ Goal(t) # None /\ cur[t] \in Scan
      /\ pc[t] \notin Steering /\ pc[t] # "ready"
  BY <1>2, Place
<1>4. UNCHANGED <<con, bucket, mode>>  BY <1>1 DEF Quiet
<1>5. calls' \in [Thread -> Seq(Call)] /\ calls' = calls  BY <1>1, <1>3 DEF TypeOK
<1>6. PICK l, s : l = list[t] /\ s = Least(held[t])  OBVIOUS
<1>7. /\ mode # "PESSIMISTIC" /\ Sound(l) /\ Faithful(l) /\ Near(t, l)
      /\ cur[t].at \in DOMAIN l.used
  BY <1>1, <1>2, <1>3, <1>6 DEF PlaceInv, Near
<1>8. Set(s, "PENDING") /\ held' = [held EXCEPT ![t] = held[t] \ {s}]  BY <1>6 DEF Rollback
<1>9. state' \in [Status -> {"PENDING", "CLAIMED", "CONSUMED"}]  BY <1>3, <1>8, SetTyped
<1>10. held' \in [Thread -> SUBSET Known] /\ \A u \in Thread \ {t} : held'[u] = held[u]
  <2>1. held[t] \ {s} \in SUBSET Known  BY <1>3 DEF TypeOK
  <2> QED  BY <1>3, <1>8, <2>1, HeldTyped
<1>11. Outcome(t)
  <2>1. CASE held[t] = {s}
    <3>1. Restart(t)  BY <1>6, <2>1 DEF Rollback
    <3> QED  BY <1>2, <1>4, <1>7, <3>1, RestartOutcome
  <2>2. CASE held[t] # {s}
    <3>1. PICK c : c = cur[t]  OBVIOUS
    <3>2. Search(t, "rollback", l, c)  BY <1>6, <2>2, <3>1 DEF Rollback
    <3>3. Landing(t, "rollback", l, c)  BY <1>3, <1>7, <3>1 DEF Landing, Listed
    <3> QED  BY <1>3, <1>4, <3>2, <3>3, SearchOutcome
  <2> QED  BY <2>1, <2>2
<1> QED  BY <1>1, <1>3, <1>5, <1>9, <1>10, <1>11, TryStep

LEMMA ConsumeKeeps ==
  ASSUME IInv, NEW t \in Thread, Consume(t)
  PROVE  IInv' /\ Frame(t) /\ Nearby(t)
<1>1. pc[t] = "consume" /\ Quiet /\ UNCHANGED <<con, bucket, calls>>  BY DEF Consume
<1>2. pc[t] \in Listed  BY <1>1 DEF Listed
<1>3. /\ TypeOK /\ PlaceInv(t) /\ Goal(t) # None /\ cur[t] \in Scan
      /\ pc[t] \notin Steering /\ pc[t] # "ready"
  BY <1>2, Place
<1>4. UNCHANGED <<con, bucket, mode>>  BY <1>1 DEF Quiet
<1>5. calls' \in [Thread -> Seq(Call)] /\ calls' = calls  BY <1>1, <1>3 DEF TypeOK
<1>6. PICK l, q, s : l = list[t] /\ q = Settled(l) /\ s = q[cur[t].at]  OBVIOUS
<1>7. /\ Sound(l) /\ Faithful(l) /\ Near(t, l) /\ Complete(l.rule, l.m)
      /\ cur[t].at \in DOMAIN q /\ q \in Seq(Known)
      /\ (mode = "PESSIMISTIC" => l.used # << >> /\ Accepts(l.rule, Goal(t)))
  BY <1>1, <1>2, <1>3, <1>6, Firsts DEF PlaceInv, Near
<1>8. /\ \E x \in {"PENDING", "CONSUMED"} : Set(s, x) \/ state' = state
      /\ held' = [held EXCEPT ![t] = held[t] \ {s}]
  BY <1>6 DEF Consume
<1>9. state' \in [Status -> {"PENDING", "CLAIMED", "CONSUMED"}]
  <2>1. CASE state' = state  BY <1>3, <2>1 DEF TypeOK
  <2>2. CASE state' # state
    <3>1. PICK x \in {"PENDING", "CONSUMED"} : Set(s, x)  BY <1>8, <2>2
    <3> QED  BY <1>3, <3>1, SetTyped
  <2> QED  BY <2>1, <2>2
<1>10. held' \in [Thread -> SUBSET Known] /\ \A u \in Thread \ {t} : held'[u] = held[u]
  <2>1. held[t] \ {s} \in SUBSET Known  BY <1>3 DEF TypeOK
  <2> QED  BY <1>3, <1>8, <2>1, HeldTyped
<1>11. Outcome(t)
  <2>1. CASE cur[t].at = Len(q)
    <3>1. Search(t, "body", l, NoScan)  BY <1>6, <2>1 DEF Consume
    <3>2. Landing(t, "body", l, NoScan)  BY <1>1, <1>7 DEF Landing, Listed, NoScan, Scan
    <3> QED  BY <1>3, <1>4, <3>1, <3>2, SearchOutcome
  <2>2. CASE cur[t].at # Len(q)
    <3>1. PICK c : c = At(cur[t].at + 1)  OBVIOUS
    <3>2. Search(t, "consume", l, c)  BY <1>6, <2>2, <3>1 DEF Consume
    <3>3. DOMAIN q = 1..Len(q) /\ Len(q) \in Nat  BY <1>7, LenProperties
    <3>4. c \in Scan /\ c.at = cur[t].at + 1  BY <1>3, <3>1 DEF At, NoScan, Scan
    <3>5. c.at \in DOMAIN q  BY <1>7, <2>2, <3>3, <3>4
    <3>6. Landing(t, "consume", l, c)  BY <1>1, <1>6, <1>7, <3>4, <3>5 DEF Landing, Listed
    <3> QED  BY <1>3, <1>4, <3>2, <3>6, SearchOutcome
  <2> QED  BY <2>1, <2>2
<1> QED  BY <1>1, <1>3, <1>5, <1>9, <1>10, <1>11, TryStep

LEMMA RunBodyKeeps ==
  ASSUME IInv, NEW t \in Thread, RunBody(t)
  PROVE  IInv' /\ Frame(t) /\ Nearby(t)
<1>1. /\ pc[t] = "body" /\ Quiet /\ UNCHANGED <<con, state, bucket, held>>
      /\ calls' = [calls EXCEPT ![t] = Body(list[t].rule, Ordered(list[t])) \o calls[t]]
      /\ Return(t, TRUE, mode = "OPTIMISTIC")
  BY DEF RunBody, store
<1>2. pc[t] \in Listed  BY <1>1 DEF Listed
<1>3. /\ TypeOK /\ PlaceInv(t) /\ Goal(t) # None /\ pc[t] \notin Steering /\ pc[t] # "ready"
  BY <1>2, Place
<1>4. PICK l, b : l = list[t] /\ b = Body(l.rule, Ordered(l))  OBVIOUS
<1>5. b \in Seq(Call)
  <2>1. Sound(l) /\ Complete(l.rule, l.m)  BY <1>1, <1>2, <1>3, <1>4 DEF PlaceInv
  <2>2. PICK cs : cs = Ordered(l)  OBVIOUS
  <2>3. cs \in [Heads(l.rule) -> Con] /\ \A h \in Heads(l.rule) : cs[h].name = HeadName(l.rule, h)
    BY <1>3, <2>1, <2>2, OrderedNames DEF TypeOK
  <2>4. b \in Seq({k \in Call : k.op # "sync"})
    BY <1>4, <2>1, <2>2, <2>3, UncountedAssumption DEF Sound
  <2> QED  BY <2>4, SeqMonotonic
<1>6. calls' \in [Thread -> Seq(Call)] /\ \A u \in Thread \ {t} : calls'[u] = calls[u]
  <2>1. calls[t] \in Seq(Call)  BY <1>3 DEF TypeOK
  <2>2. b \o calls[t] \in Seq(Call)  BY <1>5, <2>1, ConcatProperties
  <2> QED  BY <1>1, <1>3, <1>4, <2>2 DEF TypeOK
<1>7. Outcome(t)
  <2>1. PICK v : v = (mode = "OPTIMISTIC")  OBVIOUS
  <2>2. v \in BOOLEAN /\ Return(t, TRUE, v)  BY <1>1, <2>1
  <2> QED  BY <1>3, <2>2, ReturnOutcome
<1> QED  BY <1>1, <1>3, <1>6, <1>7, TryStep DEF TypeOK

LEMMA TryingKeeps ==
  ASSUME IInv, NEW t \in Thread, Trying(t)
  PROVE  IInv' /\ Frame(t) /\ Nearby(t)
BY ClaimGoalKeeps, StolenKeeps, TryGoalKeeps, TryFirstRuleKeeps, AgainKeeps, OpenKeeps, LookKeeps,
   ClaimHereKeeps, SawKeeps, GiveBackKeeps, CommitKeeps, RollbackKeeps, ConsumeKeeps, RunBodyKeeps
   DEF Trying

LEMMA StartHolds ==
  ASSUME Init
  PROVE  IInv
<1>1. /\ con = << >> /\ Known = {} /\ << >> \in Seq(Known) /\ << >> \in Seq(Con) /\ Len(con) = 0
  BY EmptySeq DEF Init, Known
<1>2. PICK x \in Setups : /\ mode = x.mode
                          /\ calls = [t \in Thread |-> IF t \in Client THEN x.script[t] ELSE << >>]
                          /\ batch = [due |-> x.runs, taken |-> 0, handles |-> << >>]
  BY DEF Init
<1>3. mode \in Modes /\ x.runs \in BOOLEAN /\ x.script \in [Client -> Seq(Call)]
  BY <1>2, UncountedAssumption
<1>4. calls \in [Thread -> Seq(Call)] /\ \A t \in Thread : t \notin Client => calls[t] = << >>
  <2>1. << >> \in Seq(Call)  BY EmptySeq
  <2> QED  BY <1>2, <1>3, <2>1
<1>5. batch \in [due : BOOLEAN, taken : 0..Limit, handles : Seq(Slot)] /\ In(batch.handles) = {}
  <2>1. << >> \in Seq(Slot) /\ 0 \in 0..Limit  BY EmptySeq, DriverRests
  <2>2. batch.handles = << >>  BY <1>2
  <2> QED  BY <1>2, <1>3, <2>1, <2>2, InOne
<1>6. NoJob \in Job /\ NoJob.goal = None  BY JobTyped DEF Maybe
<1>7. NoList \in UseList
  <2>1. << >> \in Seq(Maybe) /\ << >> \in Seq(Known)  BY EmptySeq
  <2> QED  BY <2>1 DEF NoList, UseList
<1>8. NoScan \in Scan  BY DEF NoScan, Scan
<1>9. NoNew \in [goal : Maybe, op : {"add", "async", "sync"}]  BY DEF NoNew, Maybe
<1>10. TypeOK
  <2>1. con \in Seq(Con) /\ Len(con) <= MaxStatus  BY <1>1, RulesAssumption
  <2>2. state \in [Status -> {"PENDING", "CLAIMED", "CONSUMED"}]  BY DEF Init
  <2>3. bucket \in [Entries -> Seq(Known)] /\ queue \in Seq(Known) /\ tasks \in Seq(Known)
    BY <1>1 DEF Init
  <2>4. pc \in [Thread -> PC] /\ keys \in [Thread -> SUBSET SUBSET (1..4)] /\ held \in [Thread -> SUBSET Known]
    BY DEF Init, PC
  <2>5. /\ job \in [Thread -> Job] /\ list \in [Thread -> UseList] /\ cur \in [Thread -> Scan]
        /\ new \in [Thread -> [goal : Maybe, op : {"add", "async", "sync"}]]
    BY <1>6, <1>7, <1>8, <1>9 DEF Init
  <2> QED  BY <1>3, <1>4, <1>5, <2>1, <2>2, <2>3, <2>4, <2>5 DEF TypeOK, Job, UseList, Scan
<1>11. \A t \in Thread : pc[t] = "ready"  BY DEF Init
<1>12. \A t \in Thread : PlaceInv(t)  BY <1>11 DEF PlaceInv, Listed, Tasked, Entering
<1>13. BatchInv
  <2>1. \A s \in Slot : s \in Thread /\ s \notin Client  BY UncountedAssumption DEF Thread
  <2>2. \A s \in Slot : Resting(s)  BY <1>4, <1>6, <1>11, <2>1 DEF Resting, Goal, Init
  <2>3. pc[Driver] = "ready"  BY <1>11, DriverRests
  <2> QED  BY <1>11, <2>2, <2>3 DEF BatchInv, Steering
<1> QED  BY <1>10, <1>12, <1>13 DEF IInv

LEMMA SameInv ==
  ASSUME IInv, UNCHANGED vars
  PROVE  IInv'
<1>1. /\ UNCHANGED <<con, state, bucket, queue, tasks, mode, batch, pc, calls, job, new, keys>>
      /\ UNCHANGED <<list, cur, held>>
  BY DEF vars, store, local, search
<1>2. Grown /\ Longer /\ Known' = Known /\ Maybe' = Maybe /\ UseList' = UseList /\ Job' = Job
  BY <1>1, SameStore
<1>3. TypeOK'  BY <1>1, <1>2 DEF IInv, TypeOK
<1>4. \A t \in Thread : PlaceInv(t)'
  <2> SUFFICES ASSUME NEW t \in Thread PROVE PlaceInv(t)'  OBVIOUS
  <2>1. Stays(t)  BY <1>1 DEF Stays
  <2> QED  BY <1>1, <1>2, <2>1, OthersStay DEF IInv
<1>5. BatchInv'
  <2>1. \A s \in Slot : Resting(s)' <=> Resting(s)  BY <1>1 DEF Resting, Goal
  <2> QED  BY <1>1, <2>1 DEF IInv, BatchInv
<1> QED  BY <1>3, <1>4, <1>5 DEF IInv

LEMMA NextKeeps ==
  ASSUME IInv, [Next]_vars
  PROVE  IInv'
<1>1. ASSUME NEW t \in Thread, Adding(t) PROVE IInv'
  BY <1>1, CreateKeeps, InsertKeeps, IndexKeeps, PushKeeps, EnqueueKeeps DEF Adding
<1>2. ASSUME NEW t \in Thread, Looping(t) PROVE IInv'
  BY <1>2, TakeTaskKeeps, CheckKeeps, PassiveKeeps, AddBackKeeps DEF Looping
<1>3. ASSUME NEW t \in Thread, Driving(t) PROVE IInv'
  BY <1>3, RunParallelKeeps, FillKeeps, PeekKeeps, PeekClaimedKeeps, CollectKeeps, TriggeredKeeps,
     RequeueKeeps DEF Driving
<1>4. CASE Terminated \/ UNCHANGED vars  BY <1>4, SameInv DEF Terminated
<1> QED  BY <1>1, <1>2, <1>3, <1>4, TryingKeeps DEF Next, Step

\* Every step of adding, of the goal loops, of run_parallel and of the three
\* searches keeps the types: no constraint is looked up before get_instance has
\* created it, a scan stays within its bucket although others append to it, and a
\* result is taken only from a thread that has one.
THEOREM TypeCorrect == Spec => []TypeOK
<1>1. Init => IInv  BY StartHolds
<1>2. IInv /\ [Next]_vars => IInv'  BY NextKeeps
<1>3. IInv => TypeOK  BY DEF IInv
<1> QED  BY <1>1, <1>2, <1>3, PTL DEF Spec

(***************************************************************************)
(* The claims: at every step of a search, what its thread has claimed.     *)
(***************************************************************************)
Within(S) == ProgramOf(S) /\ \A s \in Known : con[s] \in S
ProgramInv == mode = "PESSIMISTIC" => \E S \in SUBSET OneRuleCon : Within(S)

\* The pessimistic search has claimed what its match uses, and gives it back one by
\* one; the others claim a complete match one by one, or roll back.  A consumption
\* is behind all that it no longer holds, and meets again only what it consumed.
HoldInv(t) ==
  LET l == list[t]
  IN  /\ pc[t] \notin Listed => held[t] = {} /\ l.rule = 0
      /\ pc[t] \in {"again", "body"} => held[t] = {}
      /\ pc[t] \in {"open", "look", "claim", "saw"} =>
           IF mode = "PESSIMISTIC" THEN held[t] = In(l.used) /\ Injective(l.used, DOMAIN l.used)
           ELSE held[t] = {}
      /\ pc[t] = "giveback" =>
           Injective(l.used, DOMAIN l.used) /\ held[t] = {l.used[i] : i \in cur[t].at..Len(l.used)}
      /\ pc[t] = "commit" =>
           /\ held[t] = {l.used[i] : i \in 1..(cur[t].at - 1)}
           /\ Injective(l.used, 1..(cur[t].at - 1))
      /\ pc[t] = "rollback" => held[t] # {}
      /\ pc[t] = "consume" =>
           /\ Injective(l.used, DOMAIN l.used)
           /\ \A j \in DOMAIN Settled(l) : j >= cur[t].at =>
                Settled(l)[j] \in held[t] \/ state[Settled(l)[j]] = "CONSUMED"
           /\ \A s \in held[t] : \E j \in DOMAIN Settled(l) : j >= cur[t].at /\ Settled(l)[j] = s
           /\ Rules[l.rule].simpagation => \A s \in held[t] \cap In(l.eat) :
                \E j \in DOMAIN l.eat : j >= cur[t].at /\ l.eat[j] = s
           /\ cur[t].at = 1 => held[t] = In(l.used)

\* A claimed constraint is held by one thread, and one not yet created is pending.
HeldInv ==
  /\ \A t, u \in Thread : t # u => held[t] \cap held[u] = {}
  /\ \A s \in Known : state[s] = "CLAIMED" <=> \E t \in Thread : s \in held[t]
  /\ \A s \in Status \ Known : state[s] = "PENDING"

CInv == IInv /\ ProgramInv /\ HeldInv /\ \A t \in Thread : HoldInv(t)

\* What is consumed stays consumed.
Lasting == \A s \in Status : state[s] = "CONSUMED" => state'[s] = "CONSUMED"

LEMMA OthersHold ==
  ASSUME IInv, NEW u \in Thread, HoldInv(u), Stays(u), mode' = mode, Lasting
  PROVE  HoldInv(u)'
<1>1. PICK l : l = list[u]  OBVIOUS
<1>2. list'[u] = l /\ pc'[u] = pc[u] /\ cur'[u] = cur[u] /\ held'[u] = held[u]  BY <1>1 DEF Stays
<1>3. Settled(list[u])' = Settled(l) /\ Settled(list[u]) = Settled(l)  BY <1>1, <1>2 DEF Settled
<1>4. pc[u] = "consume" => \A j \in DOMAIN Settled(l) : Settled(l)[j] \in Status
  <2> SUFFICES ASSUME pc[u] = "consume" PROVE \A j \in DOMAIN Settled(l) : Settled(l)[j] \in Status
    OBVIOUS
  <2>1. Sound(l) /\ Known \subseteq Status  BY <1>1, Stati DEF IInv, PlaceInv, Listed
  <2>2. Settled(l) \in Seq(Known)  BY <2>1, Firsts
  <2>3. \A j \in DOMAIN Settled(l) : Settled(l)[j] \in Known  BY <2>2, LenProperties, ElementOfSeq
  <2> QED  BY <2>1, <2>3
<1>5. pc[u] = "consume" => \A j \in DOMAIN Settled(l) :
        state[Settled(l)[j]] = "CONSUMED" => state'[Settled(l)[j]] = "CONSUMED"
  BY <1>4 DEF Lasting
<1> QED  BY <1>1, <1>2, <1>3, <1>5 DEF HoldInv

LEMMA HeldTake ==
  ASSUME TypeOK, HeldInv, con' = con, NEW t \in Thread, NEW s \in Known, state[s] = "PENDING",
         Set(s, "CLAIMED"), held' = [held EXCEPT ![t] = held[t] \cup {s}]
  PROVE  HeldInv' /\ Lasting /\ s \notin held[t]
<1>1. Known' = Known /\ s \in Status  BY Stati DEF Known
<1>2. \A x \in Status : state'[x] = IF x = s THEN "CLAIMED" ELSE state[x]  BY DEF Set, TypeOK
<1>3. \A u \in Thread : s \notin held[u]  BY DEF HeldInv
<1>4. \A u \in Thread : held'[u] = IF u = t THEN held[t] \cup {s} ELSE held[u]  BY DEF TypeOK
<1>5. \A v, u \in Thread : v # u => held'[v] \cap held'[u] = {}  BY <1>3, <1>4 DEF HeldInv
<1>6. \A x \in Known : state'[x] = "CLAIMED" <=> \E u \in Thread : x \in held'[u]
  <2> SUFFICES ASSUME NEW x \in Known
               PROVE  state'[x] = "CLAIMED" <=> \E u \in Thread : x \in held'[u]
    OBVIOUS
  <2>1. x \in Status  BY Stati
  <2>2. CASE x = s  BY <1>2, <1>4, <2>1, <2>2
  <2>3. CASE x # s
    <3>1. \A u \in Thread : x \in held'[u] <=> x \in held[u]  BY <1>4, <2>3
    <3> QED  BY <1>2, <2>1, <2>3, <3>1 DEF HeldInv
  <2> QED  BY <2>2, <2>3
<1>7. \A x \in Status \ Known : state'[x] = "PENDING"  BY <1>2 DEF HeldInv
<1>8. Lasting  BY <1>2 DEF Lasting
<1> QED  BY <1>1, <1>3, <1>5, <1>6, <1>7, <1>8 DEF HeldInv

LEMMA HeldDrop ==
  ASSUME TypeOK, HeldInv, con' = con, NEW t \in Thread, NEW s \in held[t],
         NEW x \in {"PENDING", "CONSUMED"}, Set(s, x), held' = [held EXCEPT ![t] = held[t] \ {s}]
  PROVE  HeldInv' /\ Lasting /\ state[s] = "CLAIMED"
<1>1. Known' = Known /\ s \in Known /\ s \in Status  BY Stati DEF Known, TypeOK
<1>2. \A y \in Status : state'[y] = IF y = s THEN x ELSE state[y]  BY DEF Set, TypeOK
<1>3. state[s] = "CLAIMED" /\ \A u \in Thread : u # t => s \notin held[u]  BY <1>1 DEF HeldInv
<1>4. \A u \in Thread : held'[u] = IF u = t THEN held[t] \ {s} ELSE held[u]  BY DEF TypeOK
<1>5. \A v, u \in Thread : v # u => held'[v] \cap held'[u] = {}  BY <1>4 DEF HeldInv
<1>6. \A y \in Known : state'[y] = "CLAIMED" <=> \E u \in Thread : y \in held'[u]
  <2> SUFFICES ASSUME NEW y \in Known
               PROVE  state'[y] = "CLAIMED" <=> \E u \in Thread : y \in held'[u]
    OBVIOUS
  <2>1. y \in Status  BY Stati
  <2>2. CASE y = s
    <3>1. \A u \in Thread : y \notin held'[u]  BY <1>3, <1>4, <2>2
    <3> QED  BY <1>2, <2>1, <2>2, <3>1
  <2>3. CASE y # s
    <3>1. \A u \in Thread : y \in held'[u] <=> y \in held[u]  BY <1>4, <2>3
    <3> QED  BY <1>2, <2>1, <2>3, <3>1 DEF HeldInv
  <2> QED  BY <2>2, <2>3
<1>7. \A y \in Status \ Known : state'[y] = "PENDING"  BY <1>1, <1>2 DEF HeldInv
<1>8. Lasting  BY <1>2, <1>3 DEF Lasting
<1> QED  BY <1>1, <1>3, <1>5, <1>6, <1>7, <1>8 DEF HeldInv

\* A step of a search, once it is known what it has claimed.
LEMMA SearchHolds ==
  ASSUME CInv, IInv', NEW t \in Thread, Frame(t), UNCHANGED <<con, mode>>, HeldInv', Lasting,
         ProgramInv', HoldInv(t)'
  PROVE  CInv'
<1>1. \A u \in Thread \ {t} : HoldInv(u)'  BY OthersHold DEF CInv, Frame
<1> QED  BY <1>1 DEF CInv

\* A step that is not a search.
LEMMA CalmStep ==
  ASSUME CInv, IInv', Grown, UNCHANGED <<state, list, cur, held, mode>>,
         \A u \in Thread : pc'[u] = pc[u] \/ (pc[u] \notin Listed /\ pc'[u] \notin Listed),
         ProgramInv'
  PROVE  CInv'
<1>1. TypeOK /\ TypeOK'  BY DEF CInv, IInv
<1>2. Known \subseteq Known' /\ Known' \subseteq Status
  <2>1. con' \in Seq(Con) /\ Len(con') <= MaxStatus  BY <1>1 DEF TypeOK
  <2>2. Known' = 1..Len(con') /\ Len(con') \in Nat  BY <2>1, LenProperties DEF Known
  <2>3. Known' \subseteq Status  BY <2>1, <2>2, RulesAssumption DEF Status
  <2> QED  BY <2>3 DEF Grown
<1>3. HeldInv'
  <2>1. \A s \in Known' : state[s] = "CLAIMED" <=> \E t \in Thread : s \in held[t]
    <3> SUFFICES ASSUME NEW s \in Known', s \notin Known
                 PROVE  ~(state[s] = "CLAIMED") /\ ~ \E t \in Thread : s \in held[t]
      BY DEF CInv, HeldInv
    <3>1. state[s] = "PENDING"  BY <1>2 DEF CInv, HeldInv
    <3> QED  BY <1>1, <3>1 DEF TypeOK
  <2>2. \A s \in Status \ Known' : state[s] = "PENDING"  BY <1>2 DEF CInv, HeldInv
  <2> QED  BY <2>1, <2>2 DEF CInv, HeldInv
<1>4. \A t \in Thread : HoldInv(t)'
  <2> SUFFICES ASSUME NEW t \in Thread PROVE HoldInv(t)'  OBVIOUS
  <2>1. HoldInv(t)  BY DEF CInv
  <2>2. Settled(list[t])' = Settled(list[t])  BY DEF Settled
  <2>3. CASE pc'[t] = pc[t]  BY <2>1, <2>2, <2>3 DEF HoldInv
  <2>4. CASE pc[t] \notin Listed /\ pc'[t] \notin Listed  BY <2>1, <2>4 DEF HoldInv, Listed
  <2> QED  BY <2>3, <2>4
<1> QED  BY <1>3, <1>4 DEF CInv

(***************************************************************************)
(* Only the constraints of the program come up.                            *)
(***************************************************************************)
LEMMA ProgramKept ==
  ASSUME ProgramInv, mode' = mode, \A S : Within(S) => Within(S)'
  PROVE  ProgramInv'
<1>1. OneRuleCon' = OneRuleCon  BY DEF OneRuleCon, RulesFor
<1> SUFFICES ASSUME mode = "PESSIMISTIC" PROVE \E S \in SUBSET OneRuleCon : Within(S)'
  BY <1>1 DEF ProgramInv
<1>2. PICK S \in SUBSET OneRuleCon : Within(S)  BY DEF ProgramInv
<1> QED  BY <1>2

LEMMA WithinParts ==
  ASSUME NEW S
  PROVE  /\ Within(S) <=> /\ BodiesOf(S) /\ \A t \in Thread : CallsOf(S, calls[t])
                          /\ \A s \in Known : con[s] \in S
         /\ Within(S)' <=> /\ BodiesOf(S) /\ \A t \in Thread : CallsOf(S, calls'[t])
                           /\ \A s \in Known' : con'[s] \in S
BY DEF Within, ProgramOf, BodiesOf, CallsOf

\* Steps that call nothing new.
LEMMA SameWithin ==
  ASSUME NEW S, Within(S), UNCHANGED <<con, calls>>
  PROVE  Within(S)'
<1>1. Known' = Known  BY DEF Known
<1> QED  BY <1>1, WithinParts

LEMMA CreateWithin ==
  ASSUME IInv, NEW S, Within(S), NEW t \in Thread, Create(t)
  PROVE  Within(S)'
<1>1. calls[t] # << >> /\ con' = Append(con, Head(calls[t]).con) /\ calls' = calls  BY DEF Create
<1>2. TypeOK  BY DEF IInv
<1>3. PICK q : q = calls[t]  OBVIOUS
<1>4. q \in Seq(Call) /\ q # << >> /\ Head(q) = q[1] /\ 1 \in DOMAIN q
  <2>1. q \in Seq(Call) /\ q # << >>  BY <1>1, <1>2, <1>3 DEF TypeOK
  <2>2. Len(q) \in Nat /\ DOMAIN q = 1..Len(q) /\ Len(q) # 0  BY <2>1, LenProperties, EmptySeq
  <2> QED  BY <2>1, <2>2, HeadTailProperties
<1>5. /\ Known' = 1..(Len(con) + 1) /\ Known = 1..Len(con) /\ Len(con) \in Nat
      /\ con'[Len(con) + 1] = q[1].con /\ \A s \in Known : con'[s] = con[s]
  <2>1. con \in Seq(Con) /\ Known = 1..Len(con) /\ Len(con) \in Nat  BY <1>2, Stati DEF TypeOK
  <2>2. PICK c : c = q[1].con  OBVIOUS
  <2>3. con' = Append(con, c) /\ c \in Con
    <3>1. Head(q) \in Call  BY <1>4, HeadTailProperties
    <3> QED  BY <1>1, <1>3, <1>4, <2>2, <3>1 DEF Call
  <2>4. /\ con' \in Seq(Con) /\ Len(con') = Len(con) + 1
        /\ \A i \in 1..Len(con) : con'[i] = con[i]
        /\ con'[Len(con) + 1] = c
    BY <2>1, <2>3, AppendProperties
  <2> QED  BY <2>1, <2>2, <2>4, LenProperties DEF Known
<1>6. q[1].con \in S  BY <1>3, <1>4, WithinParts DEF CallsOf
<1>7. \A s \in Known' : s \in Known \/ s = Len(con) + 1  BY <1>5
<1>8. \A s \in Known' : con'[s] \in S  BY <1>5, <1>6, <1>7, WithinParts
<1> QED  BY <1>1, <1>8, WithinParts

LEMMA InsertWithin ==
  ASSUME IInv, NEW S, Within(S), NEW t \in Thread, Insert(t)
  PROVE  Within(S)'
<1>1. /\ pc[t] = "insert" /\ calls' = [calls EXCEPT ![t] = Tail(calls[t])] /\ con' = con
  BY DEF Insert
<1>2. TypeOK /\ PlaceInv(t)  BY DEF IInv
<1>3. PICK q : q = calls[t]  OBVIOUS
<1>4. \A i \in DOMAIN Tail(q) : \E j \in DOMAIN q : Tail(q)[i] = q[j]
  <2>1. q \in Seq(Call) /\ q # << >>  BY <1>1, <1>2, <1>3 DEF TypeOK, PlaceInv
  <2>2. /\ Tail(q) \in Seq(Call) /\ Len(Tail(q)) = Len(q) - 1
        /\ \A i \in 1..Len(Tail(q)) : Tail(q)[i] = q[i + 1]
    BY <2>1, HeadTailProperties
  <2>3. DOMAIN q = 1..Len(q) /\ Len(q) \in Nat /\ DOMAIN Tail(q) = 1..Len(Tail(q))
    BY <2>1, <2>2, LenProperties
  <2>4. \A i \in 1..Len(Tail(q)) : i + 1 \in 1..Len(q)  BY <2>2, <2>3
  <2> QED  BY <2>2, <2>3, <2>4
<1>5. CallsOf(S, q)  BY <1>3, WithinParts
<1>6. CallsOf(S, Tail(q))  BY <1>4, <1>5 DEF CallsOf
<1>7. \A u \in Thread : calls'[u] = IF u = t THEN Tail(q) ELSE calls[u]
  BY <1>1, <1>2, <1>3 DEF TypeOK
<1>8. \A u \in Thread : CallsOf(S, calls'[u])  BY <1>6, <1>7, WithinParts
<1>9. Known' = Known  BY <1>1 DEF Known
<1> QED  BY <1>1, <1>8, <1>9, WithinParts

LEMMA ConcatWithin ==
  ASSUME NEW S, NEW a \in Seq(Call), NEW b \in Seq(Call), CallsOf(S, a), CallsOf(S, b)
  PROVE  CallsOf(S, a \o b)
<1>1. /\ DOMAIN a = 1..Len(a) /\ Len(a) \in Nat /\ DOMAIN b = 1..Len(b) /\ Len(b) \in Nat
      /\ DOMAIN (a \o b) = 1..(Len(a) + Len(b))
  BY LenProperties, ConcatProperties
<1>2. \A i \in 1..(Len(a) + Len(b)) : (a \o b)[i] = IF i <= Len(a) THEN a[i] ELSE b[i - Len(a)]
  BY ConcatProperties
<1>3. ASSUME NEW i \in 1..(Len(a) + Len(b)) PROVE (a \o b)[i].con \in S
  <2>1. CASE i <= Len(a)
    <3>1. i \in DOMAIN a  BY <1>1, <2>1
    <3> QED  BY <1>2, <2>1, <3>1 DEF CallsOf
  <2>2. CASE ~(i <= Len(a))
    <3>1. i - Len(a) \in DOMAIN b  BY <1>1, <2>2
    <3> QED  BY <1>2, <2>2, <3>1 DEF CallsOf
  <2> QED  BY <2>1, <2>2
<1> QED  BY <1>1, <1>3 DEF CallsOf

LEMMA BodyWithin ==
  ASSUME IInv, NEW S, Within(S), NEW t \in Thread, RunBody(t)
  PROVE  Within(S)'
<1>1. /\ pc[t] = "body" /\ con' = con
      /\ calls' = [calls EXCEPT ![t] = Body(list[t].rule, Ordered(list[t])) \o calls[t]]
  BY DEF RunBody, store
<1>2. TypeOK /\ PlaceInv(t)  BY DEF IInv
<1>3. PICK l, cs, b : l = list[t] /\ cs = Ordered(l) /\ b = Body(l.rule, cs)  OBVIOUS
<1>4. Sound(l) /\ Complete(l.rule, l.m) /\ l.rule \in RuleId
  BY <1>1, <1>2, <1>3 DEF PlaceInv, Sound, Listed
<1>5. /\ cs \in [Heads(l.rule) -> Con] /\ \A h \in Heads(l.rule) : cs[h].name = HeadName(l.rule, h)
      /\ \A h \in Heads(l.rule) : \E s \in Known : cs[h] = con[s]
  <2>1. con \in Seq(Con)  BY <1>2 DEF TypeOK
  <2>2. /\ Ordered(l) \in [Heads(l.rule) -> Con]
        /\ \A h \in Heads(l.rule) : Ordered(l)[h].name = HeadName(l.rule, h)
        /\ \A h \in Heads(l.rule) : \E s \in Known : Ordered(l)[h] = con[s]
    BY <1>4, <2>1, OrderedNames
  <2> QED  BY <1>3, <2>2
<1>6. cs \in [Heads(l.rule) -> S]  BY <1>5, WithinParts
<1>7. CallsOf(S, b)  BY <1>3, <1>4, <1>5, <1>6, WithinParts DEF BodiesOf
<1>8. b \in Seq(Call)
  <2>1. b \in Seq({k \in Call : k.op # "sync"})  BY <1>3, <1>4, <1>5, UncountedAssumption
  <2> QED  BY <2>1, SeqMonotonic
<1>9. PICK q : q = calls[t]  OBVIOUS
<1>10. q \in Seq(Call) /\ CallsOf(S, q)  BY <1>2, <1>9, WithinParts DEF TypeOK
<1>11. CallsOf(S, b \o q)  BY <1>7, <1>8, <1>10, ConcatWithin
<1>12. \A u \in Thread : calls'[u] = IF u = t THEN b \o q ELSE calls[u]
  BY <1>1, <1>2, <1>3, <1>9 DEF TypeOK
<1>13. \A u \in Thread : CallsOf(S, calls'[u])  BY <1>11, <1>12, WithinParts
<1>14. Known' = Known  BY <1>1 DEF Known
<1> QED  BY <1>1, <1>13, <1>14, WithinParts

LEMMA SameProgram ==
  ASSUME ProgramInv, UNCHANGED <<con, calls, mode>>
  PROVE  ProgramInv'
BY SameWithin, ProgramKept

LEMMA CreateCalm ==
  ASSUME CInv, NEW t \in Thread, Create(t)
  PROVE  CInv'
<1>1. pc[t] = "ready" /\ Jump(t, "insert") /\ UNCHANGED <<state, mode, list, cur, held>>
  BY DEF Create, search
<1>2. IInv /\ IInv' /\ Grown  BY CreateKeeps DEF CInv
<1>3. ProgramInv'  BY <1>1, <1>2, CreateWithin, ProgramKept DEF CInv
<1>4. \A u \in Thread : pc'[u] = pc[u] \/ (pc[u] \notin Listed /\ pc'[u] \notin Listed)
  BY <1>1, <1>2 DEF IInv, Jump, TypeOK, Listed
<1> QED  BY <1>1, <1>2, <1>3, <1>4, CalmStep

LEMMA InsertCalm ==
  ASSUME CInv, NEW t \in Thread, Insert(t)
  PROVE  CInv'
<1>1. pc[t] = "insert" /\ Jump(t, "index") /\ UNCHANGED <<state, mode, list, cur, held>>
  BY DEF Insert, search
<1>2. IInv /\ IInv' /\ Grown  BY InsertKeeps DEF CInv
<1>3. ProgramInv'  BY <1>1, <1>2, InsertWithin, ProgramKept DEF CInv
<1>4. \A u \in Thread : pc'[u] = pc[u] \/ (pc[u] \notin Listed /\ pc'[u] \notin Listed)
  BY <1>1, <1>2 DEF IInv, Jump, TypeOK, Listed
<1> QED  BY <1>1, <1>2, <1>3, <1>4, CalmStep

\* The other steps outside of a search: they change no state and call nothing.
LEMMA PlainCalm ==
  ASSUME CInv, IInv', UNCHANGED <<con, state, mode, calls, list, cur, held>>,
         \A u \in Thread : pc'[u] = pc[u] \/ (pc[u] \notin Listed /\ pc'[u] \notin Listed)
  PROVE  CInv'
<1>1. Grown /\ ProgramInv'  BY SameTypes, SameProgram DEF CInv
<1> QED  BY <1>1, CalmStep

\* Steps outside of a search.
LEMMA CalmFrame ==
  ASSUME NEW t \in Thread, Adding(t) \/ Looping(t) \/ Driving(t)
  PROVE  /\ UNCHANGED <<state, mode, list, cur, held>>
         /\ ~Create(t) => con' = con
         /\ ~Insert(t) => calls' = calls
<1>1. CASE Adding(t)
  BY <1>1 DEF Adding, Create, Insert, Index, Push, Enqueue, store, search
<1>2. CASE Looping(t)
  BY <1>2 DEF Looping, TakeTask, Check, Passive, AddBack, store, search
<1>3. CASE Driving(t)
  BY <1>3 DEF Driving, RunParallel, Fill, FillUpTo, Peek, PeekClaimed, Collect, CollectWith, Triggered,
              Requeue, store, search
<1> QED  BY <1>1, <1>2, <1>3

LEMMA PeekPlaces ==
  ASSUME CInv, NEW t \in Thread, Peek(t)
  PROVE  \A u \in Thread : pc'[u] = pc[u] \/ (pc[u] \in Steering \cup {"ready"} /\ pc'[u] \in Steering \cup {"try"})
<1>1. TypeOK  BY DEF CInv, IInv
<1>2. CASE state[Goal(t)] = "PENDING"
  <2>1. PICK s : s = Slots[batch.taken]  OBVIOUS
  <2>2. pc[t] = "peek" /\ pc' = [pc EXCEPT ![t] = "fill", ![s] = "try"]
    BY <1>2, <2>1 DEF Peek
  <2>3. s \in Slot /\ s \in Thread /\ pc[s] = "ready"
    <3>1. t = Driver /\ Handing  BY <2>2, Steered DEF CInv, Steering
    <3>2. batch.taken \in 0..Limit  BY <1>1 DEF TypeOK
    <3>3. batch.taken \in DOMAIN Slots /\ s \in Slot /\ s \in Thread
      BY <2>1, <2>2, <3>1, <3>2, DriverRests DEF Handing
    <3>4. s \notin In(batch.handles)
      <4>1. \A i \in DOMAIN Slots : s = Slots[i] => i = batch.taken
        BY <2>1, <3>3, UncountedAssumption
      <4> QED  BY <2>2, <3>1, <4>1 DEF Handing, Taking
    <3> QED  BY <3>3, <3>4 DEF CInv, IInv, BatchInv, Resting
  <2>4. \A u \in Thread : pc'[u] = IF u = s THEN "try" ELSE IF u = t THEN "fill" ELSE pc[u]
    BY <1>1, <2>2 DEF TypeOK
  <2> QED  BY <2>2, <2>3, <2>4 DEF Steering
<1>3. CASE state[Goal(t)] # "PENDING"
  <2>1. pc[t] = "peek" /\ Jump(t, "peekclaimed")  BY <1>3 DEF Peek
  <2> QED  BY <1>1, <2>1 DEF Jump, TypeOK, Steering
<1> QED  BY <1>2, <1>3

\* A function that changes in one place at most.
LEMMA OnePlace ==
  ASSUME NEW D, NEW R, NEW f \in [D -> R], NEW x, NEW v, NEW g, g = f \/ g = [f EXCEPT ![x] = v]
  PROVE  \A u \in D : /\ g[u] \in {f[u], v}
                      /\ u # x => g[u] = f[u]
                      /\ (g # f /\ u = x) => g[u] = v
OBVIOUS

\* A step outside of a search leaves every thread where it is, or outside.
LEMMA CalmPlaces ==
  ASSUME CInv, NEW t \in Thread, Adding(t) \/ Looping(t) \/ Driving(t), ~Create(t), ~Insert(t)
  PROVE  \A u \in Thread :
           /\ pc'[u] = pc[u] \/ (pc[u] \notin Listed \cup {"insert"} /\ pc'[u] \notin Listed \cup {"insert"})
           /\ pc[u] = "insert" => new'[u] = new[u]
<1> DEFINE Calm == {"ready", "index", "push", "enqueue", "check", "try", "passiveclaimed", "addback"} \cup Steering
<1>1. TypeOK  BY DEF CInv, IInv
<1>2. Calm \cap (Listed \cup {"insert"}) = {}  BY DEF Listed, Steering
<1>3. CASE Index(t) \/ Push(t) \/ Enqueue(t)
  <2>1. pc[t] \in Calm /\ pc[t] # "insert" /\ (\E p \in Calm : Jump(t, p)) /\ (new' = new \/ new' = [new EXCEPT ![t] = NoNew])
    BY <1>3 DEF Index, Push, Enqueue
  <2>2. new \in [Thread -> [goal : Maybe, op : {"add", "async", "sync"}]] /\ pc \in [Thread -> PC]
    BY <1>1 DEF TypeOK
  <2> HIDE DEF Calm
  <2>3. \A u \in Thread : u # t => pc'[u] = pc[u] /\ new'[u] = new[u]
    BY <2>1, <2>2, OnePlace DEF Jump
  <2>4. pc'[t] \in Calm  BY <2>1, <2>2 DEF Jump
  <2> QED  BY <1>2, <2>1, <2>3, <2>4
<1>4. CASE Looping(t)
  <2>1. pc[t] \in Calm /\ (\E p \in Calm : Jump(t, p)) /\ new' = new
    <3>1. CASE TakeTask(t)  BY <3>1 DEF TakeTask
    <3>2. CASE Check(t)  BY <3>2 DEF Check
    <3>3. CASE Passive(t)  BY <3>3 DEF Passive, Over
    <3>4. CASE AddBack(t)  BY <3>4 DEF AddBack
    <3> QED  BY <1>4, <3>1, <3>2, <3>3, <3>4 DEF Looping
  <2> HIDE DEF Calm
  <2> QED  BY <1>1, <1>2, <2>1 DEF Jump, TypeOK
<1>5. CASE Driving(t) /\ ~Peek(t)
  <2>1. pc[t] \in Calm /\ (\E p \in Calm : Jump(t, p)) /\ new' = new
    <3>1. CASE RunParallel(t)  BY <3>1 DEF RunParallel, Steering
    <3>2. CASE Fill(t)  BY <3>2 DEF Fill, FillUpTo, Steering
    <3>3. CASE PeekClaimed(t)  BY <3>3 DEF PeekClaimed, Steering
    <3>4. CASE Collect(t)  BY <3>4 DEF Collect, CollectWith, Steering
    <3>5. CASE Triggered(t)  BY <3>5 DEF Triggered, Steering
    <3>6. CASE Requeue(t)  BY <3>6 DEF Requeue, Steering
    <3> QED  BY <1>5, <3>1, <3>2, <3>3, <3>4, <3>5, <3>6 DEF Driving
  <2> HIDE DEF Calm
  <2> QED  BY <1>1, <1>2, <2>1 DEF Jump, TypeOK
<1>6. CASE Peek(t)
  <2>1. new' = new  BY <1>6 DEF Peek
  <2>2. Steering \cup {"ready", "try"} \subseteq Calm  OBVIOUS
  <2> HIDE DEF Calm
  <2> QED  BY <1>2, <1>6, <2>1, <2>2, PeekPlaces
<1> QED  BY <1>3, <1>4, <1>5, <1>6 DEF Adding

LEMMA OutsideCalm ==
  ASSUME CInv, NEW t \in Thread, Adding(t) \/ Looping(t) \/ Driving(t)
  PROVE  CInv'
<1>1. CASE Create(t) \/ Insert(t)  BY <1>1, CreateCalm, InsertCalm
<1>2. CASE ~Create(t) /\ ~Insert(t)
  <2>1. UNCHANGED <<con, state, mode, calls, list, cur, held>>  BY <1>2, CalmFrame
  <2>2. \A u \in Thread : pc'[u] = pc[u] \/ (pc[u] \notin Listed /\ pc'[u] \notin Listed)
    BY <1>2, CalmPlaces
  <2>3. IInv'
    <3>1. CASE Adding(t)  BY <1>2, <3>1, IndexKeeps, PushKeeps, EnqueueKeeps DEF Adding, CInv
    <3>2. CASE Looping(t)
      BY <3>2, TakeTaskKeeps, CheckKeeps, PassiveKeeps, AddBackKeeps DEF Looping, CInv
    <3>3. CASE Driving(t)
      BY <3>3, RunParallelKeeps, FillKeeps, PeekKeeps, PeekClaimedKeeps, CollectKeeps, TriggeredKeeps,
         RequeueKeeps DEF Driving, CInv
    <3> QED  BY <3>1, <3>2, <3>3
  <2> QED  BY <2>1, <2>2, <2>3, PlainCalm
<1> QED  BY <1>1, <1>2

(***************************************************************************)
(* What a step of a search leaves its thread with.                         *)
(***************************************************************************)
LEMMA OneRuleOnly ==
  ASSUME CInv, mode = "PESSIMISTIC", NEW t \in Thread, Goal(t) # None
  PROVE  /\ list[t].rule = 0 => RulesAfter(t) # {}
         /\ list[t].rule \in RuleId /\ Accepts(list[t].rule, Goal(t)) => RulesAfter(t) = {}
<1>1. Goal(t) \in Known  BY DEF CInv, IInv, TypeOK, Goal, Maybe
<1>2. con[Goal(t)] \in OneRuleCon
  <2>1. PICK S \in SUBSET OneRuleCon : Within(S)  BY DEF CInv, ProgramInv
  <2> QED  BY <1>1, <2>1, WithinParts
<1>3. PICK r \in RuleId : RulesFor(con[Goal(t)]) = {r}  BY <1>2 DEF OneRuleCon
<1>4. \A q \in RuleId : Accepts(q, Goal(t)) <=> q = r  BY <1>3 DEF Accepts, RulesFor
<1>5. r \in Nat \ {0} /\ r > 0 /\ ~(r > r)
  <2>1. RuleId = 1..Len(Rules) /\ Len(Rules) \in Nat
    BY RulesAssumption, LenProperties DEF RuleId
  <2> QED  BY <2>1
<1> QED  BY <1>4, <1>5 DEF RulesAfter

LEMMA Moved ==
  ASSUME TypeOK, NEW t \in Thread, NEW p, NEW l, NEW c, Move(t, p, l, c)
  PROVE  pc'[t] = p /\ list'[t] = l /\ cur'[t] = c
BY DEF Move, Jump, TypeOK

LEMMA ReturnHolds ==
  ASSUME TypeOK, NEW t \in Thread, NEW fired, NEW retry, Return(t, fired, retry), held'[t] = {}
  PROVE  HoldInv(t)'
<1>1. pc'[t] \in {"check", "ready"} /\ list'[t].rule = 0
  BY DEF Return, Jump, TypeOK, NoList
<1> QED  BY <1>1 DEF HoldInv, Listed

\* All of a match is held when it is complete.
LEMMA CompleteHolds ==
  ASSUME NEW t \in Thread, NEW l, Sound(l), Injective(l.used, DOMAIN l.used),
         pc'[t] = "consume", list'[t] = l, cur'[t].at = 1, held'[t] = In(l.used)
  PROVE  HoldInv(t)'
<1>1. PICK q : q = Settled(l)  OBVIOUS
<1>2. q \in Seq(Known) /\ In(q) = In(l.used)  BY <1>1, Firsts
<1>3. Settled(list[t])' = q  BY <1>1 DEF Settled
<1>4. DOMAIN q = 1..Len(q) /\ Len(q) \in Nat  BY <1>2, LenProperties
<1>5. \A j \in DOMAIN q : j >= 1 /\ q[j] \in held'[t]
  <2> SUFFICES ASSUME NEW j \in DOMAIN q PROVE j >= 1 /\ q[j] \in held'[t]  OBVIOUS
  <2>1. j >= 1  BY <1>4
  <2>2. q[j] \in In(q)  BY DEF In
  <2> QED  BY <1>2, <2>1, <2>2
<1>6. \A s \in held'[t] : \E j \in DOMAIN q : j >= 1 /\ q[j] = s
  <2> SUFFICES ASSUME NEW s \in held'[t] PROVE \E j \in DOMAIN q : j >= 1 /\ q[j] = s  OBVIOUS
  <2>1. s \in In(q)  BY <1>2
  <2>2. PICK j \in DOMAIN q : q[j] = s  BY <2>1 DEF In
  <2> QED  BY <1>4, <2>2
<1>7. \A s \in In(l.eat) : \E j \in DOMAIN l.eat : j >= 1 /\ l.eat[j] = s
  <2>1. l.eat \in Seq(Known)  BY DEF Sound, UseList
  <2>2. \A j \in DOMAIN l.eat : j >= 1  BY <2>1, LenProperties
  <2> QED  BY <2>2 DEF In
<1> QED  BY <1>3, <1>5, <1>6, <1>7 DEF HoldInv, Listed

LEMMA MatchingHolds ==
  ASSUME TypeOK, NEW t \in Thread, NEW l, Sound(l), Matching(t, l), mode' = mode,
         mode = "PESSIMISTIC" => held'[t] = In(l.used) /\ Injective(l.used, DOMAIN l.used),
         mode # "PESSIMISTIC" => held'[t] = {}
  PROVE  HoldInv(t)'
<1>1. PICK p : p = IF ~Complete(l.rule, l.m) THEN "open"
                   ELSE IF mode = "PESSIMISTIC" THEN "consume" ELSE "commit"
  OBVIOUS
<1>2. PICK c : c = NoScan  OBVIOUS
<1>3. Move(t, p, l, c)  BY <1>1, <1>2 DEF Matching, Search
<1>4. pc'[t] = p /\ list'[t] = l /\ cur'[t] = c  BY <1>3, Moved
<1>5. c.at = 1  BY <1>2 DEF NoScan
<1>6. CASE p = "open"  BY <1>4, <1>6 DEF HoldInv, Listed
<1>7. CASE p = "consume"
  <2>1. mode = "PESSIMISTIC"  BY <1>1, <1>7
  <2> QED  BY <1>4, <1>5, <1>7, <2>1, CompleteHolds
<1>8. CASE p = "commit"
  <2>1. mode # "PESSIMISTIC"  BY <1>1, <1>8
  <2>2. 1..(cur'[t].at - 1) = {}  BY <1>4, <1>5
  <2>3. {l.used[i] : i \in 1..(cur'[t].at - 1)} = {} /\ Injective(l.used, 1..(cur'[t].at - 1))
    BY <2>2 DEF Injective
  <2> QED  BY <1>4, <1>8, <2>1, <2>3 DEF HoldInv, Listed
<1> QED  BY <1>1, <1>6, <1>7, <1>8

LEMMA NextRuleHolds ==
  ASSUME TypeOK, NEW t \in Thread, Goal(t) # None, NextRule(t), mode' = mode,
         IF mode = "PESSIMISTIC" /\ RulesAfter(t) # {} THEN held'[t] = {Goal(t)} ELSE held'[t] = {}
  PROVE  HoldInv(t)'
<1>1. CASE RulesAfter(t) = {}
  <2>1. PICK v : v = (mode = "PESSIMISTIC" /\ job[t].saw)  OBVIOUS
  <2>2. Return(t, FALSE, v)  BY <1>1, <2>1 DEF NextRule
  <2>3. held'[t] = {}  BY <1>1
  <2> QED  BY <2>2, <2>3, ReturnHolds
<1>2. CASE RulesAfter(t) # {}
  <2>1. PICK r : r = Least(RulesAfter(t))  OBVIOUS
  <2>2. r \in RuleId /\ Accepts(r, Goal(t))
    <3>1. RulesAfter(t) \in SUBSET Nat  BY HeadNumbers DEF RulesAfter
    <3>2. r \in RulesAfter(t)  BY <1>2, <2>1, <3>1, LeastIn
    <3> QED  BY <3>2 DEF RulesAfter
  <2>3. PICK e, l : e = EmptyList(r) /\ l = Use(e, Goal(t))  OBVIOUS
  <2>4. Sound(e) /\ e.rule = r /\ e.used = << >> /\ FreeHeads(e.rule, e.m, Goal(t)) # {}
    BY <2>2, <2>3, NewListSound
  <2>5. Goal(t) \in Known /\ Known \subseteq Nat \ {None}  BY Stati DEF TypeOK, Goal, Maybe
  <2>6. Sound(l) /\ l.used = InsertById(e.used, Goal(t))
    BY <2>3, <2>4, <2>5, UseSound
  <2>7. In(l.used) = {Goal(t)} /\ Injective(l.used, DOMAIN l.used)
    <3>1. PICK q : q = << >>  OBVIOUS
    <3>2. q \in Seq(Known) /\ Known \in SUBSET Nat /\ DOMAIN q = {}
      <4>1. q \in Seq(Known) /\ Len(q) = 0  BY <3>1, EmptySeq
      <4>2. DOMAIN q = 1..0  BY <4>1, LenProperties
      <4> QED  BY <2>5, <4>1, <4>2
    <3>3. In(q) = {} /\ Injective(q, DOMAIN q)  BY <3>2 DEF In, Injective
    <3>4. l.used = InsertById(q, Goal(t))  BY <2>4, <2>6, <3>1
    <3>5. In(InsertById(q, Goal(t))) = In(q) \cup {Goal(t)} /\ Goal(t) \notin In(q)
      BY <2>5, <3>2, <3>3, InsertInto
    <3>6. Injective(InsertById(q, Goal(t)), DOMAIN InsertById(q, Goal(t)))
      BY <2>5, <3>2, <3>3, <3>5, InsertInto
    <3> QED  BY <3>3, <3>4, <3>5, <3>6
  <2>8. Matching(t, l)  BY <1>2, <2>1, <2>3 DEF NextRule
  <2> QED  BY <1>2, <2>6, <2>7, <2>8, MatchingHolds
<1> QED  BY <1>1, <1>2

\* The rule has failed: all that its match uses is to be given back.
LEMMA FailHolds ==
  ASSUME IInv, NEW t \in Thread, HoldInv(t), pc[t] \in {"open", "look", "saw"}, mode = "PESSIMISTIC",
         UNCHANGED <<mode, held>>, NEW c, c.at = 1, Move(t, "giveback", list[t], c)
  PROVE  HoldInv(t)'
<1>1. pc[t] \in Listed  BY DEF Listed
<1>2. TypeOK /\ list \in [Thread -> UseList]  BY <1>1, Place
<1>3. PICK l : l = list[t]  OBVIOUS
<1>4. Move(t, "giveback", l, c)  BY <1>3
<1>5. pc'[t] = "giveback" /\ list'[t] = l /\ cur'[t] = c  BY <1>2, <1>4, Moved
<1>6. DOMAIN l.used = 1..Len(l.used)  BY <1>2, <1>3, LenProperties DEF UseList
<1>7. held'[t] = In(l.used) /\ Injective(l.used, DOMAIN l.used)  BY <1>3 DEF HoldInv
<1>8. held'[t] = {l.used[i] : i \in cur'[t].at..Len(l.used)}  BY <1>5, <1>6, <1>7 DEF In
<1> QED  BY <1>5, <1>7, <1>8 DEF HoldInv, Listed

LEMMA NotFoundHolds ==
  ASSUME IInv, NEW t \in Thread, HoldInv(t), pc[t] \in {"open", "look", "saw"},
         UNCHANGED <<mode, held>>, NEW c \in Scan, NotFound(t, c)
  PROVE  HoldInv(t)'
<1>1. pc[t] \in Listed  BY DEF Listed
<1>2. /\ TypeOK /\ PlaceInv(t) /\ Goal(t) # None /\ list \in [Thread -> UseList]
  BY <1>1, Place
<1>3. mode \in Modes  BY <1>2 DEF TypeOK
<1>4. CASE mode = "PESSIMISTIC"
  <2>1. PICK d : d = [c EXCEPT !.at = 1]  OBVIOUS
  <2>2. Move(t, "giveback", list[t], d) /\ d.at = 1  BY <1>4, <2>1 DEF NotFound, Search, Scan
  <2> QED  BY <1>4, <2>2, FailHolds
<1>5. held[t] = {} \/ mode = "PESSIMISTIC"  BY DEF HoldInv
<1>6. CASE mode = "OPTIMISTIC"
  <2>1. NextRule(t)  BY <1>6 DEF NotFound
  <2> QED  BY <1>2, <1>5, <1>6, <2>1, NextRuleHolds
<1>7. CASE mode = "PARTIAL"
  <2>1. Return(t, FALSE, FALSE)  BY <1>7 DEF NotFound
  <2>2. held'[t] = {}  BY <1>5, <1>7
  <2> QED  BY <1>2, <2>1, <2>2, ReturnHolds
<1> QED  BY <1>3, <1>4, <1>6, <1>7 DEF Modes

\* The search looks at a constraint, with the same claims as before.
LEMMA SeekHolds ==
  ASSUME TypeOK, NEW t \in Thread, HoldInv(t), pc[t] \in {"open", "look", "claim", "saw"},
         UNCHANGED <<mode, held>>, NEW p \in {"look", "claim", "saw"}, NEW c, Move(t, p, list[t], c)
  PROVE  HoldInv(t)'
<1>1. PICK l : l = list[t]  OBVIOUS
<1>2. Move(t, p, l, c)  BY <1>1
<1>3. pc'[t] = p /\ list'[t] = l  BY <1>2, Moved
<1> QED  BY <1>1, <1>3 DEF HoldInv, Listed

LEMMA RestartHolds ==
  ASSUME TypeOK, NEW t \in Thread, Restart(t), held'[t] = {}
  PROVE  HoldInv(t)'
<1>1. CASE mode = "OPTIMISTIC"
  <2>1. Return(t, FALSE, TRUE)  BY <1>1 DEF Restart
  <2> QED  BY <2>1, ReturnHolds
<1>2. CASE mode # "OPTIMISTIC"
  <2>1. PICK l : l = TakeOut(list[t], list[t].used[cur[t].at])  OBVIOUS
  <2>2. Move(t, "again", l, NoScan)  BY <1>2, <2>1 DEF Restart
  <2>3. pc'[t] = "again"  BY <2>2 DEF Move, Jump, TypeOK
  <2> QED  BY <2>3 DEF HoldInv, Listed
<1> QED  BY <1>1, <1>2

\* A step of a search that only loads, and one that claims or gives back.
LEMMA ClaimStep ==
  ASSUME CInv, IInv', NEW t \in Thread, Frame(t), Quiet, UNCHANGED <<con, bucket, calls>>,
         HeldInv', Lasting, HoldInv(t)'
  PROVE  CInv'
<1>1. UNCHANGED <<con, mode, calls>>  BY DEF Quiet
<1>2. ProgramInv'  BY <1>1, SameProgram DEF CInv
<1> QED  BY <1>1, <1>2, SearchHolds

LEMMA LoadStep ==
  ASSUME CInv, IInv', NEW t \in Thread, Frame(t), Quiet, UNCHANGED <<store, calls, held>>, HoldInv(t)'
  PROVE  CInv'
<1>1. UNCHANGED <<con, bucket, state, calls, held>>  BY DEF store
<1>2. HeldInv' /\ Lasting
  <2>1. Known' = Known  BY <1>1 DEF Known
  <2> QED  BY <1>1, <2>1 DEF CInv, HeldInv, Lasting
<1> QED  BY <1>1, <1>2, ClaimStep

\* What the claims are at a step of a search.
LEMMA Claims ==
  ASSUME CInv, NEW t \in Thread, pc[t] \in Listed \cup {"try", "stolen", "stolenpending"}
  PROVE  /\ IInv /\ TypeOK /\ PlaceInv(t) /\ HeldInv /\ HoldInv(t) /\ Goal(t) # None /\ Goal(t) \in Known
         /\ list \in [Thread -> UseList] /\ cur \in [Thread -> Scan] /\ mode \in Modes
         /\ Known \in SUBSET Nat /\ held[t] \in SUBSET Known
<1>1. IInv /\ HeldInv /\ HoldInv(t)  BY DEF CInv
<1>2. TypeOK /\ mode \in Modes /\ held[t] \in SUBSET Known  BY <1>1 DEF IInv, TypeOK
<1> QED  BY <1>1, <1>2, Place

LEMMA ClaimGoalHolds ==
  ASSUME CInv, NEW t \in Thread, ClaimGoal(t)
  PROVE  CInv'
<1>1. pc[t] = "try" /\ mode = "PESSIMISTIC" /\ Quiet /\ UNCHANGED <<con, bucket, calls>>
  BY DEF ClaimGoal
<1>2. /\ TypeOK /\ HeldInv /\ HoldInv(t) /\ Goal(t) # None /\ Goal(t) \in Known
  BY <1>1, Claims
<1>3. IInv' /\ Frame(t)  BY ClaimGoalKeeps DEF CInv
<1>4. held[t] = {} /\ list[t].rule = 0  BY <1>1, <1>2 DEF HoldInv, Listed
<1>5. CASE state[Goal(t)] = "PENDING"
  <2>1. PICK s : s = Goal(t)  OBVIOUS
  <2>2. /\ Set(s, "CLAIMED") /\ held' = [held EXCEPT ![t] = {s}] /\ NextRule(t)
    BY <1>5, <2>1 DEF ClaimGoal
  <2>3. held' = [held EXCEPT ![t] = held[t] \cup {s}] /\ held'[t] = {s}
    BY <1>2, <1>4, <2>2 DEF TypeOK
  <2>4. HeldInv' /\ Lasting  BY <1>1, <1>2, <1>5, <2>1, <2>2, <2>3, HeldTake
  <2>5. RulesAfter(t) # {}  BY <1>1, <1>2, <1>4, OneRuleOnly
  <2>6. mode' = mode  BY <1>1 DEF Quiet
  <2>7. HoldInv(t)'  BY <1>1, <1>2, <2>1, <2>2, <2>3, <2>5, <2>6, NextRuleHolds
  <2> QED  BY <1>1, <1>3, <2>4, <2>7, ClaimStep
<1>6. CASE state[Goal(t)] # "PENDING"
  <2>1. Jump(t, "stolen") /\ UNCHANGED <<state, list, held>>  BY <1>6 DEF ClaimGoal, search
  <2>2. pc'[t] = "stolen"  BY <1>2, <2>1 DEF Jump, TypeOK
  <2>3. HoldInv(t)'  BY <1>4, <2>1, <2>2 DEF HoldInv, Listed
  <2>4. UNCHANGED <<store, calls, held>>  BY <1>1, <2>1 DEF store
  <2> QED  BY <1>1, <1>3, <2>3, <2>4, LoadStep
<1> QED  BY <1>5, <1>6

LEMMA StolenHolds ==
  ASSUME CInv, NEW t \in Thread, Stolen(t)
  PROVE  CInv'
<1>1. /\ pc[t] \in {"stolen", "stolenpending"} /\ Quiet /\ UNCHANGED <<store, calls, held>>
  BY DEF Stolen
<1>2. TypeOK /\ HoldInv(t)  BY <1>1, Claims
<1>3. IInv' /\ Frame(t)  BY StolenKeeps DEF CInv
<1>4. held[t] = {} /\ held'[t] = {} /\ list[t].rule = 0  BY <1>1, <1>2 DEF HoldInv, Listed
<1>5. \/ Return(t, FALSE, TRUE) \/ Return(t, FALSE, FALSE)
      \/ Search(t, "stolenpending", list[t], cur[t])
  BY DEF Stolen
<1>6. ASSUME Search(t, "stolenpending", list[t], cur[t]) PROVE HoldInv(t)'
  <2>1. PICK l, c : l = list[t] /\ c = cur[t]  OBVIOUS
  <2>2. Move(t, "stolenpending", l, c)  BY <1>6, <2>1 DEF Search
  <2>3. pc'[t] = "stolenpending" /\ list'[t] = l  BY <1>2, <2>2, Moved
  <2> QED  BY <1>4, <2>1, <2>3 DEF HoldInv, Listed
<1>7. HoldInv(t)'  BY <1>2, <1>4, <1>5, <1>6, ReturnHolds
<1> QED  BY <1>1, <1>3, <1>7, LoadStep

LEMMA TryGoalHolds ==
  ASSUME CInv, NEW t \in Thread, TryGoal(t)
  PROVE  CInv'
<1>1. /\ pc[t] = "try" /\ mode = "OPTIMISTIC" /\ NextRule(t) /\ Quiet /\ UNCHANGED <<store, calls, held>>
  BY DEF TryGoal
<1>2. TypeOK /\ HoldInv(t) /\ Goal(t) # None  BY <1>1, Claims
<1>3. IInv' /\ Frame(t)  BY TryGoalKeeps DEF CInv
<1>4. held'[t] = {} /\ mode' = mode  BY <1>1, <1>2 DEF HoldInv, Listed, Quiet
<1>5. HoldInv(t)'  BY <1>1, <1>2, <1>4, NextRuleHolds
<1> QED  BY <1>1, <1>3, <1>5, LoadStep

LEMMA TryFirstRuleHolds ==
  ASSUME CInv, NEW t \in Thread, TryFirstRule(t)
  PROVE  CInv'
<1>1. /\ pc[t] = "try" /\ Quiet /\ UNCHANGED <<store, calls, held>>
      /\ Move(t, "again", Use(EmptyList(Least(RulesAfter(t))), Goal(t)), NoScan)
  BY DEF TryFirstRule
<1>2. TypeOK /\ HoldInv(t)  BY <1>1, Claims
<1>3. IInv' /\ Frame(t)  BY TryFirstRuleKeeps DEF CInv
<1>4. held'[t] = {}  BY <1>1, <1>2 DEF HoldInv, Listed
<1>5. pc'[t] = "again"  BY <1>1, <1>2 DEF Move, Jump, TypeOK
<1>6. HoldInv(t)'  BY <1>4, <1>5 DEF HoldInv, Listed
<1> QED  BY <1>1, <1>3, <1>6, LoadStep

LEMMA AgainHolds ==
  ASSUME CInv, NEW t \in Thread, Again(t)
  PROVE  CInv'
<1>1. pc[t] = "again" /\ Quiet /\ UNCHANGED <<store, calls, held>>  BY DEF Again
<1>2. pc[t] \in Listed  BY <1>1 DEF Listed
<1>3. TypeOK /\ PlaceInv(t) /\ HoldInv(t)  BY <1>2, Claims
<1>4. IInv' /\ Frame(t)  BY AgainKeeps DEF CInv
<1>5. held'[t] = {} /\ mode' = mode /\ mode # "PESSIMISTIC"
  BY <1>1, <1>3 DEF HoldInv, PlaceInv, Quiet
<1>6. CASE job[t].left = 0 \/ state[Goal(t)] = "CONSUMED"
  <2>1. Return(t, FALSE, TRUE)  BY <1>6 DEF Again
  <2>2. HoldInv(t)'  BY <1>3, <1>5, <2>1, ReturnHolds
  <2> QED  BY <1>1, <1>4, <2>2, LoadStep
<1>7. CASE ~(job[t].left = 0 \/ state[Goal(t)] = "CONSUMED")
  <2>1. PICK l, p : l = list[t] /\ p = IF Complete(l.rule, l.m) THEN "commit" ELSE "open"  OBVIOUS
  <2>2. Move(t, p, l, NoScan)  BY <1>7, <2>1 DEF Again
  <2>3. pc'[t] = p /\ list'[t] = l /\ cur'[t] = NoScan  BY <1>3, <2>2, Moved
  <2>4. cur'[t].at = 1  BY <2>3 DEF NoScan
  <2>5. 1..(cur'[t].at - 1) = {}  BY <2>4
  <2>6. {l.used[i] : i \in 1..(cur'[t].at - 1)} = {} /\ Injective(l.used, 1..(cur'[t].at - 1))
    BY <2>5 DEF Injective
  <2>7. HoldInv(t)'  BY <1>5, <2>1, <2>3, <2>6 DEF HoldInv, Listed
  <2> QED  BY <1>1, <1>4, <2>7, LoadStep
<1> QED  BY <1>6, <1>7

LEMMA OpenHolds ==
  ASSUME CInv, NEW t \in Thread, Open(t)
  PROVE  CInv'
<1>1. pc[t] = "open" /\ Quiet /\ UNCHANGED <<store, calls, held>>  BY DEF Open
<1>2. pc[t] \in Listed  BY <1>1 DEF Listed
<1>3. IInv /\ TypeOK /\ HoldInv(t)  BY <1>2, Claims
<1>4. IInv' /\ Frame(t)  BY OpenKeeps DEF CInv
<1>5. UNCHANGED <<mode, held>>  BY <1>1 DEF Quiet
<1>6. PICK k : k = HintEntry(list[t].rule, list[t].m)  OBVIOUS
<1>7. PICK fit : fit = Fitting(t, Bucket(k))  OBVIOUS
<1>8. PICK bkt : bkt = IF k \in Entries THEN k ELSE NoKey  OBVIOUS
<1>9. CASE fit = {}
  <2>1. PICK c : c = [NoScan EXCEPT !.bkt = bkt]  OBVIOUS
  <2>2. NotFound(t, c)  BY <1>6, <1>7, <1>8, <1>9, <2>1 DEF Open
  <2>3. c \in Scan  BY <1>8, <2>1 DEF NoScan, Scan
  <2>4. HoldInv(t)'  BY <1>1, <1>3, <1>5, <2>2, <2>3, NotFoundHolds
  <2> QED  BY <1>1, <1>4, <2>4, LoadStep
<1>10. CASE fit # {}
  <2>1. \E c : Search(t, "look", list[t], c)
    BY <1>6, <1>7, <1>8, <1>10 DEF Open
  <2>2. PICK c : Move(t, "look", list[t], c)  BY <2>1 DEF Search
  <2>3. HoldInv(t)'  BY <1>1, <1>3, <1>5, <2>2, SeekHolds
  <2> QED  BY <1>1, <1>4, <2>3, LoadStep
<1> QED  BY <1>9, <1>10

LEMMA LookHolds ==
  ASSUME CInv, NEW t \in Thread, Look(t)
  PROVE  CInv'
<1>1. pc[t] = "look" /\ Quiet /\ UNCHANGED <<store, calls, held>>  BY DEF Look
<1>2. pc[t] \in Listed  BY <1>1 DEF Listed
<1>3. IInv /\ TypeOK /\ HoldInv(t) /\ cur[t] \in Scan  BY <1>2, Claims
<1>4. IInv' /\ Frame(t)  BY LookKeeps DEF CInv
<1>5. UNCHANGED <<mode, held>>  BY <1>1 DEF Quiet
<1>6. CASE state[Here(t)] = "CONSUMED"
  <2>1. PICK d : d = cur[t]  OBVIOUS
  <2>2. NotFound(t, d) \/ \E c : Search(t, "look", list[t], c)  BY <1>6, <2>1 DEF Look, GoOn
  <2>3. NotFound(t, d) \/ \E c : Move(t, "look", list[t], c)  BY <2>2 DEF Search
  <2>4. HoldInv(t)'
    <3>1. CASE NotFound(t, d)  BY <1>1, <1>3, <1>5, <2>1, <3>1, NotFoundHolds
    <3>2. CASE \E c : Move(t, "look", list[t], c)
      <4>1. PICK c : Move(t, "look", list[t], c)  BY <3>2
      <4> QED  BY <1>1, <1>3, <1>5, <4>1, SeekHolds
    <3> QED  BY <2>3, <3>1, <3>2
  <2> QED  BY <1>1, <1>4, <2>4, LoadStep
<1>7. CASE state[Here(t)] # "CONSUMED" /\ mode = "PESSIMISTIC"
  <2>1. PICK c : c = cur[t]  OBVIOUS
  <2>2. Move(t, "claim", list[t], c)  BY <1>7, <2>1 DEF Look, Search
  <2>3. HoldInv(t)'  BY <1>1, <1>3, <1>5, <2>2, SeekHolds
  <2> QED  BY <1>1, <1>4, <2>3, LoadStep
<1>8. CASE state[Here(t)] # "CONSUMED" /\ mode # "PESSIMISTIC"
  <2>1. PICK l : l = Use(list[t], Here(t))  OBVIOUS
  <2>2. Matching(t, l)  BY <1>8, <2>1 DEF Look
  <2>3. Sound(l)  BY <1>1, <1>3, <2>1, UseHere
  <2>4. held'[t] = {}  BY <1>1, <1>3, <1>5, <1>8 DEF HoldInv
  <2>5. HoldInv(t)'  BY <1>3, <1>5, <1>8, <2>2, <2>3, <2>4, MatchingHolds
  <2> QED  BY <1>1, <1>4, <2>5, LoadStep
<1> QED  BY <1>6, <1>7, <1>8

LEMMA ClaimHereHolds ==
  ASSUME CInv, NEW t \in Thread, ClaimHere(t)
  PROVE  CInv'
<1>1. pc[t] = "claim" /\ Quiet /\ UNCHANGED <<con, bucket, calls>>  BY DEF ClaimHere
<1>2. pc[t] \in Listed  BY <1>1 DEF Listed
<1>3. /\ IInv /\ TypeOK /\ PlaceInv(t) /\ HeldInv /\ HoldInv(t) /\ Known \in SUBSET Nat
      /\ list \in [Thread -> UseList]
  BY <1>2, Claims
<1>4. IInv' /\ Frame(t)  BY ClaimHereKeeps DEF CInv
<1>5. mode = "PESSIMISTIC" /\ mode' = mode  BY <1>1, <1>3 DEF PlaceInv, Quiet
<1>6. PICK u : u = list[t].used  OBVIOUS
<1>7. u \in Seq(Known) /\ held[t] = In(u) /\ Injective(u, DOMAIN u)
  BY <1>1, <1>3, <1>5, <1>6 DEF HoldInv, UseList
<1>8. CASE state[Here(t)] = "PENDING"
  <2>1. PICK s : s = Here(t)  OBVIOUS
  <2>2. PICK l : l = Use(list[t], s)  OBVIOUS
  <2>3. /\ Set(s, "CLAIMED") /\ held' = [held EXCEPT ![t] = held[t] \cup {s}] /\ Matching(t, l)
    BY <1>8, <2>1, <2>2 DEF ClaimHere
  <2>4. s \in Known /\ Sound(l) /\ l.used = InsertById(u, s)
    BY <1>1, <1>3, <1>6, <2>1, <2>2, UseHere
  <2>5. HeldInv' /\ Lasting /\ s \notin In(u)  BY <1>1, <1>3, <1>7, <1>8, <2>1, <2>3, <2>4, HeldTake
  <2>6. held'[t] = In(u) \cup {s}  BY <1>3, <1>7, <2>3 DEF TypeOK
  <2>7. In(l.used) = In(u) \cup {s} /\ Injective(l.used, DOMAIN l.used)
    BY <1>3, <1>7, <2>4, <2>5, InsertInto
  <2>8. HoldInv(t)'  BY <1>3, <1>5, <2>3, <2>4, <2>6, <2>7, MatchingHolds
  <2> QED  BY <1>1, <1>4, <2>5, <2>8, ClaimStep
<1>9. CASE state[Here(t)] # "PENDING"
  <2>1. PICK c : c = cur[t]  OBVIOUS
  <2>2. Move(t, "saw", list[t], c) /\ UNCHANGED <<state, held>>
    BY <1>9, <2>1 DEF ClaimHere, Search
  <2>3. UNCHANGED <<store, calls, held>>  BY <1>1, <2>2 DEF store
  <2>4. HoldInv(t)'  BY <1>1, <1>3, <1>5, <2>2, SeekHolds
  <2> QED  BY <1>1, <1>4, <2>3, <2>4, LoadStep
<1> QED  BY <1>8, <1>9

LEMMA SawHolds ==
  ASSUME CInv, NEW t \in Thread, Saw(t)
  PROVE  CInv'
<1>1. pc[t] = "saw" /\ Quiet /\ UNCHANGED <<store, calls, held>>  BY DEF Saw
<1>2. pc[t] \in Listed  BY <1>1 DEF Listed
<1>3. IInv /\ TypeOK /\ PlaceInv(t) /\ HoldInv(t) /\ cur[t] \in Scan  BY <1>2, Claims
<1>4. IInv' /\ Frame(t)  BY SawKeeps DEF CInv
<1>5. UNCHANGED <<mode, held>> /\ mode = "PESSIMISTIC"  BY <1>1, <1>3 DEF Quiet, PlaceInv
<1>6. CASE Later(t) = {}
  <2>1. PICK c : c = [cur[t] EXCEPT !.at = 1]  OBVIOUS
  <2>2. Move(t, "giveback", list[t], c) /\ c.at = 1  BY <1>3, <1>6, <2>1 DEF Saw, Scan
  <2>3. HoldInv(t)'  BY <1>1, <1>3, <1>5, <2>2, FailHolds
  <2> QED  BY <1>1, <1>4, <2>3, LoadStep
<1>7. CASE Later(t) # {}
  <2>1. PICK c : Move(t, "look", list[t], c)  BY <1>7 DEF Saw
  <2>2. HoldInv(t)'  BY <1>1, <1>3, <1>5, <2>1, SeekHolds
  <2> QED  BY <1>1, <1>4, <2>2, LoadStep
<1> QED  BY <1>6, <1>7

\* A range without its first place, and one with a last place more.
LEMMA WithoutFirst ==
  ASSUME NEW q, NEW n \in Nat, NEW i \in 1..n, Injective(q, 1..n)
  PROVE  \A x : (\E j \in i..n : q[j] = x) /\ x # q[i] <=> \E j \in (i + 1)..n : q[j] = x
<1>1. (i + 1)..n \subseteq 1..n /\ i \notin (i + 1)..n /\ i..n = {i} \cup ((i + 1)..n)
  OBVIOUS
<1>2. \A j \in (i + 1)..n : q[j] # q[i]  BY <1>1 DEF Injective
<1> QED  BY <1>1, <1>2

LEMMA WithLast ==
  ASSUME NEW q, NEW i \in Nat \ {0}
  PROVE  {q[j] : j \in 1..(i - 1)} \cup {q[i]} = {q[j] : j \in 1..i}
<1>1. 1..i = (1..(i - 1)) \cup {i}  OBVIOUS
<1> QED  BY <1>1

LEMMA GiveBackHolds ==
  ASSUME CInv, NEW t \in Thread, GiveBack(t)
  PROVE  CInv'
<1>1. pc[t] = "giveback" /\ Quiet /\ UNCHANGED <<con, bucket, calls>>  BY DEF GiveBack
<1>2. pc[t] \in Listed  BY <1>1 DEF Listed
<1>3. /\ IInv /\ TypeOK /\ PlaceInv(t) /\ HeldInv /\ HoldInv(t) /\ Goal(t) # None
      /\ cur \in [Thread -> Scan]
  BY <1>2, Claims
<1>4. IInv' /\ Frame(t)  BY GiveBackKeeps DEF CInv
<1>5. PICK l, i, s : l = list[t] /\ i = cur[t].at /\ s = l.used[i]  OBVIOUS
<1>6. /\ mode = "PESSIMISTIC" /\ mode' = mode /\ i \in DOMAIN l.used
      /\ l.rule \in RuleId /\ Accepts(l.rule, Goal(t))
  BY <1>1, <1>2, <1>3, <1>5 DEF PlaceInv, Sound, Quiet
<1>7. /\ s \in Known /\ i \in 1..Len(l.used) /\ DOMAIN l.used = 1..Len(l.used) /\ Len(l.used) \in Nat
  BY <1>2, <1>3, <1>5, <1>6, UsedAt
<1>8. Injective(l.used, DOMAIN l.used) /\ held[t] = {l.used[j] : j \in i..Len(l.used)}
  BY <1>1, <1>3, <1>5 DEF HoldInv
<1>9. i \in Nat /\ i >= 1 /\ i <= Len(l.used) /\ i \in i..Len(l.used)  BY <1>7
<1>10. s \in held[t]  BY <1>5, <1>8, <1>9
<1>11. state[s] = "CLAIMED"  BY <1>3, <1>7, <1>10 DEF HeldInv
<1>12. Set(s, "PENDING") /\ held' = [held EXCEPT ![t] = held[t] \ {s}]
  BY <1>5, <1>11 DEF GiveBack
<1>13. HeldInv' /\ Lasting  BY <1>1, <1>3, <1>10, <1>12, HeldDrop
<1>14. held'[t] = {l.used[j] : j \in (i + 1)..Len(l.used)}
  <2>1. held'[t] = held[t] \ {s}  BY <1>3, <1>12 DEF TypeOK
  <2>2. PICK q, n : q = l.used /\ n = Len(l.used)  OBVIOUS
  <2>3. n \in Nat /\ i \in 1..n /\ Injective(q, 1..n)  BY <1>7, <1>8, <2>2
  <2>4. \A x : (\E j \in i..n : q[j] = x) /\ x # q[i] <=> \E j \in (i + 1)..n : q[j] = x
    BY <2>3, WithoutFirst
  <2>5. \A x : x \in held'[t] <=> (\E j \in i..n : q[j] = x) /\ x # q[i]  BY <1>5, <1>8, <2>1, <2>2
  <2>6. PICK h : h = held'[t]  OBVIOUS
  <2>7. \A x : x \in h <=> \E j \in (i + 1)..n : q[j] = x  BY <2>4, <2>5, <2>6
  <2>8. h = {q[j] : j \in (i + 1)..n}
    <3>1. ASSUME NEW x \in h PROVE x \in {q[j] : j \in (i + 1)..n}  BY <2>7
    <3>2. ASSUME NEW j \in (i + 1)..n PROVE q[j] \in h  BY <2>7
    <3> QED  BY <3>1, <3>2
  <2> QED  BY <2>2, <2>6, <2>8
<1>15. HoldInv(t)'
  <2>1. CASE i = Len(l.used)
    <3>1. NextRule(t)  BY <1>5, <2>1 DEF GiveBack
    <3>2. RulesAfter(t) = {}  BY <1>3, <1>5, <1>6, OneRuleOnly
    <3>3. (i + 1)..Len(l.used) = {}  BY <1>9, <2>1
    <3>4. held'[t] = {}  BY <1>14, <3>3
    <3> QED  BY <1>3, <1>6, <3>1, <3>2, <3>4, NextRuleHolds
  <2>2. CASE i # Len(l.used)
    <3>1. PICK c : c = [cur[t] EXCEPT !.at = i + 1]  OBVIOUS
    <3>2. Move(t, "giveback", l, c)  BY <1>5, <2>2, <3>1 DEF GiveBack, Search
    <3>3. pc'[t] = "giveback" /\ list'[t] = l /\ cur'[t] = c  BY <1>3, <3>2, Moved
    <3>4. cur'[t].at = i + 1  BY <1>3, <3>1, <3>3 DEF Scan
    <3> QED  BY <1>8, <1>14, <3>3, <3>4 DEF HoldInv, Listed
  <2> QED  BY <2>1, <2>2
<1> QED  BY <1>1, <1>4, <1>13, <1>15, ClaimStep

LEMMA CommitHolds ==
  ASSUME CInv, NEW t \in Thread, Commit(t)
  PROVE  CInv'
<1>1. pc[t] = "commit" /\ Quiet /\ UNCHANGED <<con, bucket, calls>>  BY DEF Commit, CommitIf
<1>2. pc[t] \in Listed  BY <1>1 DEF Listed
<1>3. /\ IInv /\ TypeOK /\ PlaceInv(t) /\ HeldInv /\ HoldInv(t) /\ cur \in [Thread -> Scan]
  BY <1>2, Claims
<1>4. IInv' /\ Frame(t)  BY CommitKeeps DEF CInv
<1>5. PICK l, i, s : l = list[t] /\ i = cur[t].at /\ s = l.used[i]  OBVIOUS
<1>6. Sound(l) /\ i \in DOMAIN l.used  BY <1>1, <1>2, <1>3, <1>5 DEF PlaceInv
<1>7. s \in Known /\ i \in 1..Len(l.used) /\ DOMAIN l.used = 1..Len(l.used) /\ Len(l.used) \in Nat
  BY <1>2, <1>3, <1>5, <1>6, UsedAt
<1>8. Injective(l.used, 1..(i - 1)) /\ held[t] = {l.used[j] : j \in 1..(i - 1)}
  BY <1>1, <1>3, <1>5 DEF HoldInv
<1>9. CASE state[s] = "PENDING"
  <2>1. Set(s, "CLAIMED") /\ held' = [held EXCEPT ![t] = held[t] \cup {s}]
    BY <1>5, <1>9 DEF Commit, CommitIf
  <2>2. HeldInv' /\ Lasting /\ s \notin held[t]  BY <1>1, <1>3, <1>7, <1>9, <2>1, HeldTake
  <2>3. Injective(l.used, 1..i)
    <3> SUFFICES ASSUME NEW j \in 1..i, NEW k \in 1..i, l.used[j] = l.used[k] PROVE j = k
      BY DEF Injective
    <3>1. \A x \in 1..i : x = i \/ x \in 1..(i - 1)  BY <1>7
    <3>2. \A x \in 1..(i - 1) : l.used[x] # s  BY <1>8, <2>2
    <3> QED  BY <1>5, <1>8, <3>1, <3>2 DEF Injective
  <2>4. held'[t] = {l.used[j] : j \in 1..i}
    <3>1. held'[t] = held[t] \cup {s}  BY <1>3, <2>1 DEF TypeOK
    <3>2. PICK q : q = l.used  OBVIOUS
    <3>3. {q[j] : j \in 1..(i - 1)} \cup {q[i]} = {q[j] : j \in 1..i}  BY <1>7, WithLast
    <3> QED  BY <1>5, <1>8, <3>1, <3>2, <3>3
  <2>5. HoldInv(t)'
    <3>1. CASE i = Len(l.used)
      <4>1. PICK c : c = NoScan  OBVIOUS
      <4>2. Move(t, "consume", l, c)  BY <1>5, <1>9, <3>1, <4>1 DEF Commit, CommitIf, Search
      <4>3. pc'[t] = "consume" /\ list'[t] = l /\ cur'[t] = c  BY <1>3, <4>2, Moved
      <4>4. cur'[t].at = 1  BY <4>1, <4>3 DEF NoScan
      <4>5. Injective(l.used, DOMAIN l.used) /\ held'[t] = In(l.used)
        BY <1>7, <2>3, <2>4, <3>1 DEF In
      <4> QED  BY <1>6, <4>3, <4>4, <4>5, CompleteHolds
    <3>2. CASE i # Len(l.used)
      <4>1. PICK c : c = At(i + 1)  OBVIOUS
      <4>2. Move(t, "commit", l, c)  BY <1>5, <1>9, <3>2, <4>1 DEF Commit, CommitIf, Search
      <4>3. pc'[t] = "commit" /\ list'[t] = l /\ cur'[t] = c  BY <1>3, <4>2, Moved
      <4>4. cur'[t].at - 1 = i  BY <1>7, <4>1, <4>3 DEF At, NoScan
      <4> QED  BY <2>3, <2>4, <4>3, <4>4 DEF HoldInv, Listed
    <3> QED  BY <3>1, <3>2
  <2> QED  BY <1>1, <1>4, <2>2, <2>5, ClaimStep
<1>10. CASE state[s] # "PENDING"
  <2>1. UNCHANGED <<state, held>>  BY <1>5, <1>10 DEF Commit, CommitIf
  <2>2. HoldInv(t)'
    <3>1. CASE held[t] = {}
      <4>1. Restart(t)  BY <1>5, <1>10, <3>1 DEF Commit, CommitIf
      <4>2. held'[t] = {}  BY <2>1, <3>1
      <4> QED  BY <1>3, <4>1, <4>2, RestartHolds
    <3>2. CASE held[t] # {}
      <4>1. PICK c : c = cur[t]  OBVIOUS
      <4>2. Move(t, "rollback", l, c)  BY <1>5, <1>10, <3>2, <4>1 DEF Commit, CommitIf, Search
      <4>3. pc'[t] = "rollback"  BY <1>3, <4>2, Moved
      <4>4. held'[t] # {}  BY <2>1, <3>2
      <4> QED  BY <4>3, <4>4 DEF HoldInv, Listed
    <3> QED  BY <3>1, <3>2
  <2>3. UNCHANGED <<store, calls, held>>  BY <1>1, <2>1 DEF store
  <2> QED  BY <1>1, <1>4, <2>2, <2>3, LoadStep
<1> QED  BY <1>9, <1>10

LEMMA RollbackHolds ==
  ASSUME CInv, NEW t \in Thread, Rollback(t)
  PROVE  CInv'
<1>1. pc[t] = "rollback" /\ Quiet /\ UNCHANGED <<con, bucket, calls>>  BY DEF Rollback
<1>2. pc[t] \in Listed  BY <1>1 DEF Listed
<1>3. /\ TypeOK /\ HeldInv /\ HoldInv(t) /\ Known \in SUBSET Nat /\ held[t] \in SUBSET Known
  BY <1>2, Claims
<1>4. IInv' /\ Frame(t)  BY RollbackKeeps DEF CInv
<1>5. PICK s : s = Least(held[t])  OBVIOUS
<1>6. held[t] # {}  BY <1>1, <1>3 DEF HoldInv
<1>7. s \in held[t]
  <2>1. held[t] \in SUBSET Nat  BY <1>3
  <2> QED  BY <1>5, <1>6, <2>1, LeastIn
<1>8. Set(s, "PENDING") /\ held' = [held EXCEPT ![t] = held[t] \ {s}]  BY <1>5 DEF Rollback
<1>9. HeldInv' /\ Lasting  BY <1>1, <1>3, <1>7, <1>8, HeldDrop
<1>10. held'[t] = held[t] \ {s}  BY <1>3, <1>8 DEF TypeOK
<1>11. HoldInv(t)'
  <2>1. CASE held[t] = {s}
    <3>1. Restart(t)  BY <1>5, <2>1 DEF Rollback
    <3>2. held'[t] = {}  BY <1>10, <2>1
    <3> QED  BY <1>3, <3>1, <3>2, RestartHolds
  <2>2. CASE held[t] # {s}
    <3>1. PICK l, c : l = list[t] /\ c = cur[t]  OBVIOUS
    <3>2. Move(t, "rollback", l, c)  BY <1>5, <2>2, <3>1 DEF Rollback, Search
    <3>3. pc'[t] = "rollback"  BY <1>3, <3>2, Moved
    <3>4. held'[t] # {}  BY <1>7, <1>10, <2>2
    <3> QED  BY <3>3, <3>4 DEF HoldInv, Listed
  <2> QED  BY <2>1, <2>2
<1> QED  BY <1>1, <1>4, <1>9, <1>11, ClaimStep

\* A constraint that is met again after place i was consumed there.
LEMMA MetAgain ==
  ASSUME NEW l, Sound(l), Injective(l.used, DOMAIN l.used), NEW i \in DOMAIN Settled(l),
         NEW j \in DOMAIN Settled(l), i < j, Settled(l)[i] = Settled(l)[j]
  PROVE  Consumes(l, i)
<1>1. PICK e, u : e = l.eat /\ u = l.used  OBVIOUS
<1>2. e \in Seq(Known) /\ u \in Seq(Known) /\ Injective(u, DOMAIN u)  BY <1>1 DEF Sound, UseList
<1>3. DOMAIN e = 1..Len(e) /\ Len(e) \in Nat /\ DOMAIN u = 1..Len(u) /\ Len(u) \in Nat
  BY <1>2, LenProperties
<1>4. CASE ~Rules[l.rule].simpagation  BY <1>4 DEF Consumes
<1>5. CASE Rules[l.rule].simpagation
  <2> SUFFICES ASSUME ~(i <= Len(e)) PROVE FALSE  BY <1>1 DEF Consumes
  <2>1. Settled(l) = e \o u  BY <1>1, <1>5 DEF Settled
  <2>2. /\ DOMAIN (e \o u) = 1..(Len(e) + Len(u))
        /\ \A k \in 1..(Len(e) + Len(u)) : (e \o u)[k] = IF k <= Len(e) THEN e[k] ELSE u[k - Len(e)]
    <3>1. /\ e \o u \in Seq(Known) /\ Len(e \o u) = Len(e) + Len(u)
          /\ \A k \in 1..(Len(e) + Len(u)) : (e \o u)[k] = IF k <= Len(e) THEN e[k] ELSE u[k - Len(e)]
      BY <1>2, ConcatProperties
    <3> QED  BY <3>1, LenProperties
  <2>3. i \in 1..(Len(e) + Len(u)) /\ j \in 1..(Len(e) + Len(u))  BY <2>1, <2>2
  <2>4. /\ i - Len(e) \in 1..Len(u) /\ j - Len(e) \in 1..Len(u) /\ i - Len(e) # j - Len(e)
        /\ ~(j <= Len(e))
    BY <1>3, <2>3
  <2>5. u[i - Len(e)] = u[j - Len(e)]  BY <2>1, <2>2, <2>3, <2>4
  <2> QED  BY <1>2, <1>3, <2>4, <2>5 DEF Injective
<1> QED  BY <1>4, <1>5

\* What a consumption has still to settle.
Unsettled(t, q, i) ==
  /\ \A j \in DOMAIN q : j >= i => q[j] \in held[t] \/ state[q[j]] = "CONSUMED"
  /\ \A s \in held[t] : \E j \in DOMAIN q : j >= i /\ q[j] = s

LEMMA ConsumeHolds ==
  ASSUME CInv, NEW t \in Thread, Consume(t)
  PROVE  CInv'
<1>1. pc[t] = "consume" /\ Quiet /\ UNCHANGED <<con, bucket, calls>>  BY DEF Consume
<1>2. pc[t] \in Listed  BY <1>1 DEF Listed
<1>3. /\ IInv /\ TypeOK /\ PlaceInv(t) /\ HeldInv /\ HoldInv(t) /\ cur \in [Thread -> Scan]
  BY <1>2, Claims
<1>4. IInv' /\ Frame(t)  BY ConsumeKeeps DEF CInv
<1>5. PICK l, q, i, s : l = list[t] /\ q = Settled(l) /\ i = cur[t].at /\ s = q[i]  OBVIOUS
<1>6. Sound(l) /\ q \in Seq(Known) /\ i \in DOMAIN q
  BY <1>1, <1>2, <1>3, <1>5, Firsts DEF PlaceInv
<1>7. DOMAIN q = 1..Len(q) /\ Len(q) \in Nat /\ s \in Known /\ s \in Status
  BY <1>3, <1>5, <1>6, LenProperties, ElementOfSeq, Stati
<1>8. Injective(l.used, DOMAIN l.used) /\ Unsettled(t, q, i)
  BY <1>1, <1>3, <1>5 DEF HoldInv, Unsettled
<1>9. s \in held[t] <=> state[s] = "CLAIMED"
  <2>1. s \in held[t] => state[s] = "CLAIMED"  BY <1>3, <1>7 DEF HeldInv
  <2>2. s \in held[t] \/ state[s] = "CONSUMED"
    <3>1. i >= i  BY <1>6, <1>7
    <3> QED  BY <1>5, <1>6, <1>8, <3>1 DEF Unsettled
  <2> QED  BY <2>1, <2>2
<1>10. held' = [held EXCEPT ![t] = held[t] \ {s}] /\ held'[t] = held[t] \ {s}
  BY <1>3, <1>5 DEF Consume, TypeOK
<1>11. HeldInv' /\ Lasting /\ (Consumes(l, i) => state'[s] = "CONSUMED")
  <2>1. CASE s \in held[t]
    <3>1. PICK x : x = IF Consumes(l, i) THEN "CONSUMED" ELSE "PENDING"  OBVIOUS
    <3>2. Set(s, x)  BY <1>5, <1>9, <2>1, <3>1 DEF Consume
    <3>3. HeldInv' /\ Lasting  BY <1>1, <1>3, <1>10, <2>1, <3>1, <3>2, HeldDrop
    <3>4. state'[s] = x  BY <1>3, <1>7, <3>2 DEF Set, TypeOK
    <3> QED  BY <3>1, <3>3, <3>4
  <2>2. CASE s \notin held[t]
    <3>1. state' = state  BY <1>5, <1>9, <2>2 DEF Consume
    <3>2. held' = held  BY <1>3, <1>10, <2>2 DEF TypeOK
    <3>3. Known' = Known  BY <1>1 DEF Known
    <3>4. HeldInv' /\ Lasting  BY <1>3, <3>1, <3>2, <3>3 DEF HeldInv, Lasting
    <3>5. state[s] = "CONSUMED"
      <4>1. i >= i  BY <1>6, <1>7
      <4> QED  BY <1>5, <1>6, <1>8, <2>2, <4>1 DEF Unsettled
    <3> QED  BY <3>1, <3>4, <3>5
  <2> QED  BY <2>1, <2>2
<1>12. ASSUME NEW j \in DOMAIN q, j >= i + 1 PROVE q[j] \in held'[t] \/ state'[q[j]] = "CONSUMED"
  <2>1. j >= i /\ i < j  BY <1>6, <1>7, <1>12
  <2>2. q[j] \in held[t] \/ state[q[j]] = "CONSUMED"  BY <1>8, <2>1 DEF Unsettled
  <2>3. q[j] \in Status  BY <1>3, <1>6, <1>7, LenProperties, ElementOfSeq, Stati
  <2>4. CASE q[j] = s
    <3>1. Consumes(l, i)  BY <1>5, <1>6, <1>8, <2>1, <2>4, MetAgain
    <3> QED  BY <1>11, <2>4, <3>1
  <2>5. CASE q[j] # s  BY <1>10, <1>11, <2>2, <2>3, <2>5 DEF Lasting
  <2> QED  BY <2>4, <2>5
<1>13. ASSUME NEW x \in held'[t] PROVE \E j \in DOMAIN q : j >= i + 1 /\ q[j] = x
  <2>1. x \in held[t] /\ x # s  BY <1>10
  <2>2. PICK j \in DOMAIN q : j >= i /\ q[j] = x  BY <1>8, <2>1 DEF Unsettled
  <2>3. j # i  BY <1>5, <2>1, <2>2
  <2>4. j >= i + 1  BY <1>6, <1>7, <2>2, <2>3
  <2> QED  BY <2>2, <2>4
<1>14. HoldInv(t)'
  <2>1. CASE i = Len(q)
    <3>1. Move(t, "body", l, NoScan)  BY <1>5, <2>1 DEF Consume, Search
    <3>2. pc'[t] = "body"  BY <1>3, <3>1 DEF Move, Jump, TypeOK
    <3>3. held'[t] = {}
      <4>1. \A j \in DOMAIN q : ~(j >= i + 1)  BY <1>7, <2>1
      <4> QED  BY <1>13, <4>1
    <3> QED  BY <3>2, <3>3 DEF HoldInv, Listed
  <2>2. CASE i # Len(q)
    <3>1. PICK c : c = At(i + 1)  OBVIOUS
    <3>2. Move(t, "consume", l, c)  BY <1>5, <2>2, <3>1 DEF Consume, Search
    <3>3. pc'[t] = "consume" /\ list'[t] = l /\ cur'[t] = c  BY <1>3, <3>2, Moved
    <3>4. cur'[t].at = i + 1  BY <3>1, <3>3 DEF At, NoScan
    <3>5. Settled(list[t])' = q  BY <1>5, <3>3 DEF Settled
    <3>6. cur'[t].at # 1  BY <1>6, <1>7, <3>4
    <3>7. Rules[l.rule].simpagation => \A x \in held'[t] \cap In(l.eat) :
            \E j \in DOMAIN l.eat : j >= i + 1 /\ l.eat[j] = x
      <4> SUFFICES ASSUME Rules[l.rule].simpagation, NEW x \in held'[t] \cap In(l.eat)
                   PROVE  \E j \in DOMAIN l.eat : j >= i + 1 /\ l.eat[j] = x
        OBVIOUS
      <4>1. x \in held[t] /\ x # s  BY <1>10
      <4>2. PICK j \in DOMAIN l.eat : j >= i /\ l.eat[j] = x
        BY <1>1, <1>3, <1>5, <4>1 DEF HoldInv
      <4>3. l.eat \in Seq(Known) /\ l.used \in Seq(Known)  BY <1>6 DEF Sound, UseList
      <4>4. DOMAIN l.eat = 1..Len(l.eat) /\ Len(l.eat) \in Nat /\ Len(l.used) \in Nat
        BY <4>3, LenProperties
      <4>5. q = l.eat \o l.used  BY <1>5 DEF Settled
      <4>6. j \in 1..(Len(l.eat) + Len(l.used)) /\ j <= Len(l.eat)
        <5>1. \A a, b \in Nat : \A k \in 1..a : k \in 1..(a + b) /\ k <= a  OBVIOUS
        <5>2. j \in 1..Len(l.eat)  BY <4>2, <4>4
        <5> QED  BY <4>4, <5>1, <5>2
      <4>7. q[j] = l.eat[j]  BY <4>3, <4>5, <4>6, ConcatProperties
      <4>8. j # i  BY <1>5, <4>1, <4>2, <4>7
      <4>9. j >= i + 1  BY <1>6, <1>7, <4>2, <4>6, <4>8
      <4> QED  BY <4>2, <4>9
    <3> QED  BY <1>8, <1>12, <1>13, <3>3, <3>4, <3>5, <3>6, <3>7 DEF HoldInv, Listed
  <2> QED  BY <2>1, <2>2
<1> QED  BY <1>1, <1>4, <1>10, <1>11, <1>14, ClaimStep

LEMMA RunBodyHolds ==
  ASSUME CInv, NEW t \in Thread, RunBody(t)
  PROVE  CInv'
<1>1. /\ pc[t] = "body" /\ Quiet /\ UNCHANGED <<con, state, bucket, held>>
      /\ calls' = [calls EXCEPT ![t] = Body(list[t].rule, Ordered(list[t])) \o calls[t]]
      /\ Return(t, TRUE, mode = "OPTIMISTIC")
  BY DEF RunBody, store
<1>2. pc[t] \in Listed  BY <1>1 DEF Listed
<1>3. TypeOK /\ PlaceInv(t) /\ HeldInv /\ HoldInv(t)  BY <1>2, Claims
<1>4. IInv' /\ Frame(t)  BY RunBodyKeeps DEF CInv
<1>5. Known' = Known /\ mode' = mode  BY <1>1 DEF Known, Quiet
<1>6. HeldInv' /\ Lasting  BY <1>1, <1>3, <1>5 DEF HeldInv, Lasting
<1>7. HoldInv(t)'
  <2>1. PICK v : v = (mode = "OPTIMISTIC")  OBVIOUS
  <2>2. Return(t, TRUE, v)  BY <1>1, <2>1
  <2>3. held'[t] = {}  BY <1>1, <1>3 DEF HoldInv
  <2> QED  BY <1>3, <2>2, <2>3, ReturnHolds
<1>8. ProgramInv'  BY <1>3, <1>5, BodyWithin, ProgramKept DEF CInv
<1> QED  BY <1>1, <1>4, <1>5, <1>6, <1>7, <1>8, SearchHolds

LEMMA NextHolds ==
  ASSUME CInv, [Next]_vars
  PROVE  CInv'
<1>1. ASSUME NEW t \in Thread, Trying(t) PROVE CInv'
  BY <1>1, ClaimGoalHolds, StolenHolds, TryGoalHolds, TryFirstRuleHolds, AgainHolds, OpenHolds,
     LookHolds, ClaimHereHolds, SawHolds, GiveBackHolds, CommitHolds, RollbackHolds, ConsumeHolds,
     RunBodyHolds DEF Trying
<1>2. CASE Terminated \/ UNCHANGED vars
  <2>1. UNCHANGED <<con, state, mode, pc, calls, list, cur, held>>
    BY <1>2 DEF Terminated, vars, store, local, search
  <2>2. IInv'  BY <1>2, SameInv DEF CInv, Terminated
  <2> QED  BY <2>1, <2>2, PlainCalm
<1> QED  BY <1>1, <1>2, OutsideCalm DEF Next, Step

LEMMA StartClaims ==
  ASSUME Init, OneRuleProgram
  PROVE  CInv
<1>1. IInv /\ Known = {}
  <2>1. con = << >> /\ Len(con) = 0  BY EmptySeq DEF Init
  <2>2. Known = {}  BY <2>1 DEF Known
  <2> QED  BY <2>2, StartHolds
<1>2. \A t \in Thread : held[t] = {} /\ list[t].rule = 0 /\ pc[t] = "ready"  BY DEF Init, NoList
<1>3. ProgramInv  BY <1>1 DEF ProgramInv, OneRuleProgram, Within
<1>4. HeldInv  BY <1>1, <1>2 DEF HeldInv, Init
<1>5. \A t \in Thread : HoldInv(t)  BY <1>2 DEF HoldInv, Listed
<1> QED  BY <1>1, <1>3, <1>4, <1>5 DEF CInv

\* However claims, rollbacks and consumptions of the three strategies interleave, a
\* constraint is CLAIMED exactly while one thread has claimed it and neither gave it
\* back nor consumed it, and no two threads think so.  The pessimistic search needs
\* what OneRuleProgram says of its calls and bodies; the other two need nothing.
THEOREM ClaimsHaveOneOwner == Spec /\ OneRuleProgram => []ClaimedByOne
<1>1. Init /\ OneRuleProgram => CInv  BY StartClaims
<1>2. CInv /\ [Next]_vars => CInv'  BY NextHolds
<1>3. CInv => ClaimedByOne
  <2> SUFFICES ASSUME CInv, NEW s \in Known
               PROVE  Cardinality({t \in Thread : s \in held[t]}) = (IF state[s] = "CLAIMED" THEN 1 ELSE 0)
    BY DEF ClaimedByOne
  <2>1. HeldInv  BY DEF CInv
  <2>2. CASE state[s] = "CLAIMED"
    <3>1. PICK t \in Thread : s \in held[t]  BY <2>1, <2>2 DEF HeldInv
    <3>2. {u \in Thread : s \in held[u]} = {t}  BY <2>1, <3>1 DEF HeldInv
    <3>3. Cardinality({t}) = 1  BY FS_Singleton
    <3> QED  BY <2>2, <3>2, <3>3
  <2>3. CASE state[s] # "CLAIMED"
    <3>1. {t \in Thread : s \in held[t]} = {}  BY <2>1, <2>3 DEF HeldInv
    <3> QED  BY <2>3, <3>1, FS_EmptySet
  <2> QED  BY <2>2, <2>3
<1> QED  BY <1>1, <1>2, <1>3, PTL DEF Spec

(***************************************************************************)
(* A constraint that is being entered has not been found by anyone.        *)
(***************************************************************************)
Found(s) ==
  \/ s \in In(queue) \/ s \in In(tasks) \/ state[s] # "PENDING"
  \/ \E k \in Entries : s \in In(bucket[k])
  \/ \E u \in Thread : s = Goal(u) \/ s \in In(list[u].used)

EnterInv ==
  \A t \in Thread : pc[t] = "insert" =>
    /\ ~Found(new[t].goal) /\ con[new[t].goal] = Head(calls[t]).con
    /\ \A u \in Thread \ {t} : new[u].goal # new[t].goal

LEMMA FoundNext ==
  ASSUME NEW s, Found(s)'
  PROVE  \/ s \in In(queue') \/ s \in In(tasks') \/ state'[s] # "PENDING"
         \/ \E k \in Entries : s \in In(bucket'[k])
         \/ \E u \in Thread : s = job'[u].goal \/ s \in In(list'[u].used)
BY DEF Found, Goal, In

LEMMA InAppend ==
  ASSUME NEW S, NEW q \in Seq(S), NEW x \in S
  PROVE  In(Append(q, x)) = In(q) \cup {x}
<1>1. /\ Append(q, x) \in Seq(S) /\ Len(Append(q, x)) = Len(q) + 1
      /\ \A i \in 1..Len(q) : Append(q, x)[i] = q[i]
      /\ Append(q, x)[Len(q) + 1] = x
  BY AppendProperties
<1>2. /\ DOMAIN Append(q, x) = 1..(Len(q) + 1) /\ DOMAIN q = 1..Len(q) /\ Len(q) \in Nat
  BY <1>1, LenProperties
<1>3. 1..(Len(q) + 1) = (1..Len(q)) \cup {Len(q) + 1}  BY <1>2
<1> QED  BY <1>1, <1>2, <1>3 DEF In

LEMMA InTail ==
  ASSUME NEW S, NEW q \in Seq(S), q # << >>
  PROVE  Head(q) \in In(q) /\ In(Tail(q)) \subseteq In(q)
<1>1. /\ Tail(q) \in Seq(S) /\ Len(Tail(q)) = Len(q) - 1 /\ Head(q) = q[1]
      /\ \A i \in 1..Len(Tail(q)) : Tail(q)[i] = q[i + 1]
  BY HeadTailProperties
<1>2. DOMAIN q = 1..Len(q) /\ Len(q) \in Nat /\ DOMAIN Tail(q) = 1..Len(Tail(q)) /\ Len(q) # 0
  BY <1>1, LenProperties, EmptySeq
<1>3. 1 \in DOMAIN q /\ \A i \in 1..Len(Tail(q)) : i + 1 \in DOMAIN q  BY <1>1, <1>2
<1> QED  BY <1>1, <1>2, <1>3 DEF In

\* What a step has found was found before, or just entered by a thread.
LEMMA EnterKept ==
  ASSUME IInv, EnterInv, con' = con,
         \A u \in Thread : pc'[u] = "insert" => pc[u] = "insert" /\ new'[u] = new[u] /\ calls'[u] = calls[u],
         \A u \in Thread : new'[u].goal \in {new[u].goal, None},
         \A s \in Known : Found(s)' => Found(s) \/ \E t \in Thread : pc'[t] # "insert" /\ s = new[t].goal
  PROVE  EnterInv'
<1> SUFFICES ASSUME NEW t \in Thread, pc'[t] = "insert"
             PROVE  /\ ~Found(new[t].goal)' /\ con'[new'[t].goal] = Head(calls'[t]).con
                    /\ \A u \in Thread \ {t} : new'[u].goal # new'[t].goal
  BY DEF EnterInv
<1>1. PICK g : g = new[t].goal  OBVIOUS
<1>2. pc[t] = "insert" /\ new'[t].goal = g /\ calls'[t] = calls[t]  BY <1>1
<1>3. g \in Known /\ g # None
  BY <1>1, <1>2 DEF IInv, PlaceInv, Entering, TypeOK, Maybe
<1>4. ~Found(g) /\ con[g] = Head(calls[t]).con /\ \A u \in Thread \ {t} : new[u].goal # g
  BY <1>1, <1>2 DEF EnterInv
<1>5. ~Found(g)'
  <2> SUFFICES ASSUME Found(g)' PROVE FALSE  OBVIOUS
  <2>1. PICK u \in Thread : pc'[u] # "insert" /\ g = new[u].goal  BY <1>3, <1>4
  <2> QED  BY <1>4, <2>1
<1>6. ~Found(new[t].goal)'
  <2>1. Found(new[t].goal)' => Found(g)'  BY <1>2 DEF Found
  <2> QED  BY <1>5, <2>1
<1> QED  BY <1>2, <1>3, <1>4, <1>6

\* get_instance gives an id of its own.
LEMMA CreateEnters ==
  ASSUME CInv, CInv', EnterInv, NEW t \in Thread, Create(t)
  PROVE  EnterInv'
<1> DEFINE c == Head(calls[t]).con
           g == Len(con) + 1
<1>1. /\ pc[t] = "ready" /\ con' = Append(con, c)
      /\ new' = [new EXCEPT ![t] = [goal |-> g, op |-> Head(calls[t]).op]] /\ Jump(t, "insert")
      /\ UNCHANGED <<state, bucket, queue, tasks, mode, batch, calls, job, keys, list, cur, held>>
  BY DEF Create, search
<1>2. TypeOK /\ TypeOK' /\ Grown  BY CreateKeeps DEF CInv, IInv
<1>3. Known = 1..Len(con) /\ Len(con) \in Nat /\ g \notin Known /\ g # None /\ g \in Status \ Known
  <2>1. Known = 1..Len(con) /\ Len(con) \in Nat  BY <1>2, Stati
  <2>2. Len(con) < MaxStatus /\ MaxStatus \in Nat  BY RulesAssumption DEF Create
  <2> QED  BY <2>1, <2>2 DEF Status, None
<1>4. con'[g] = c
  <2>1. con \in Seq(Con)  BY <1>2 DEF TypeOK
  <2>2. PICK x : x = c  OBVIOUS
  <2>3. x \in Con
    <3>1. calls[t] \in Seq(Call) /\ calls[t] # << >>  BY <1>2 DEF TypeOK, Create
    <3>2. Head(calls[t]) \in Call  BY <3>1, HeadTailProperties
    <3> QED  BY <2>2, <3>2 DEF Call
  <2>4. Append(con, x)[Len(con) + 1] = x  BY <2>1, <2>3, AppendProperties
  <2> QED  BY <1>1, <2>2, <2>4
<1> HIDE DEF c
<1>5. state[g] = "PENDING"  BY <1>3 DEF CInv, HeldInv
<1>6. \A q : q \in Seq(Known) => g \notin In(q)
  <2> SUFFICES ASSUME NEW q \in Seq(Known), g \in In(q) PROVE FALSE  OBVIOUS
  <2>1. \A i \in DOMAIN q : q[i] \in Known  BY LenProperties, ElementOfSeq
  <2> QED  BY <1>3, <2>1 DEF In
<1>7. /\ queue \in Seq(Known) /\ tasks \in Seq(Known) /\ \A k \in Entries : bucket[k] \in Seq(Known)
      /\ \A u \in Thread : job[u].goal \in Maybe /\ list[u].used \in Seq(Known) /\ new[u].goal \in Maybe
  BY <1>2 DEF TypeOK
<1>8. \A u \in Thread : g # job[u].goal /\ g # new[u].goal  BY <1>3, <1>7 DEF Maybe
<1> HIDE DEF g
<1>9. ~Found(g)  BY <1>5, <1>6, <1>7, <1>8 DEF Found, Goal
<1>10. \A s : Found(s)' <=> Found(s)  BY <1>1 DEF Found, Goal, In
<1> SUFFICES ASSUME NEW u \in Thread, pc'[u] = "insert"
             PROVE  /\ ~Found(new[u].goal)' /\ con'[new'[u].goal] = Head(calls'[u]).con
                    /\ \A v \in Thread \ {u} : new'[v].goal # new'[u].goal
  BY DEF EnterInv
<1>11. \A v \in Thread : new'[v].goal = IF v = t THEN g ELSE new[v].goal  BY <1>1, <1>2 DEF TypeOK
<1>12. PICK x : x = new'[u].goal  OBVIOUS
<1>13. Found(new[u].goal)' <=> Found(x)'  BY <1>12 DEF Found
<1>14. CASE u = t
  <2>1. x = g  BY <1>11, <1>12, <1>14
  <2>2. \A v \in Thread \ {t} : new'[v].goal # g  BY <1>8, <1>11
  <2>3. ~Found(x)'  BY <1>9, <1>10, <2>1
  <2>4. con'[x] = Head(calls'[u]).con  BY <1>1, <1>4, <1>14, <2>1 DEF c
  <2> QED  BY <1>12, <1>13, <1>14, <2>1, <2>2, <2>3, <2>4
<1>15. CASE u # t
  <2>1. x = new[u].goal /\ pc[u] = "insert"  BY <1>1, <1>2, <1>11, <1>12, <1>15 DEF Jump, TypeOK
  <2>2. ~Found(x) /\ con[x] = Head(calls[u]).con /\ \A v \in Thread \ {u} : new[v].goal # x
    BY <2>1 DEF EnterInv
  <2>3. x \in Known
    BY <2>1 DEF CInv, IInv, PlaceInv, Entering, TypeOK, Maybe
  <2>4. con'[x] = con[x] /\ x # g  BY <1>2, <1>8, <2>1, <2>3 DEF Grown
  <2>5. \A v \in Thread \ {u} : new'[v].goal # x  BY <1>11, <2>2, <2>4
  <2> QED  BY <1>1, <1>10, <1>12, <1>13, <2>2, <2>4, <2>5
<1> QED  BY <1>14, <1>15

LEMMA BucketFound ==
  ASSUME TypeOK, NEW x \in Known, NEW k, bucket' = [bucket EXCEPT ![k] = Append(@, x)],
         NEW s, NEW e \in Entries, s \in In(bucket'[e])
  PROVE  s \in In(bucket[e]) \/ s = x
<1>1. PICK q : q = bucket[e]  OBVIOUS
<1>2. q \in Seq(Known)  BY <1>1 DEF TypeOK
<1>3. bucket'[e] = q \/ bucket'[e] = Append(q, x)  BY <1>1 DEF TypeOK
<1>4. In(Append(q, x)) = In(q) \cup {x}  BY <1>2, InAppend
<1> QED  BY <1>1, <1>3, <1>4

\* Where nobody starts to enter a constraint, only what is found matters.
LEMMA EnterFinds ==
  ASSUME IInv, EnterInv, NEW t \in Thread, UNCHANGED <<con, state>>,
         \A u \in Thread : pc'[u] = pc[u] \/ pc'[u] # "insert",
         \A u \in Thread : pc'[u] = "insert" => new'[u] = new[u] /\ calls'[u] = calls[u],
         \A u \in Thread : new'[u].goal \in {new[u].goal, None},
         pc'[t] # "insert",
         \A s \in Known : \/ s \in In(queue') \/ s \in In(tasks')
                          \/ \E k \in Entries : s \in In(bucket'[k])
                          \/ \E u \in Thread : s = job'[u].goal \/ s \in In(list'[u].used)
                          => Found(s) \/ s = new[t].goal
  PROVE  EnterInv'
<1>1. \A s \in Known : Found(s)' => Found(s) \/ s = new[t].goal
  <2> SUFFICES ASSUME NEW s \in Known, Found(s)' PROVE Found(s) \/ s = new[t].goal  OBVIOUS
  <2>1. state'[s] # "PENDING" => Found(s)  BY DEF Found
  <2> QED  BY <2>1, FoundNext
<1>2. \A u \in Thread : pc'[u] = "insert" => pc[u] = "insert"  OBVIOUS
<1> QED  BY <1>1, <1>2, EnterKept

LEMMA AddingEnters ==
  ASSUME CInv, CInv', EnterInv, NEW t \in Thread, Adding(t)
  PROVE  EnterInv'
<1>1. IInv /\ TypeOK  BY DEF CInv, IInv
<1>2. pc[t] \in Entering => new[t].goal \in Known /\ new[t].goal # None
  BY <1>1 DEF IInv, PlaceInv, TypeOK, Maybe
<1>3. CASE Insert(t)
  <2>1. /\ pc[t] = "insert" /\ Jump(t, "index") /\ calls' = [calls EXCEPT ![t] = Tail(@)]
        /\ UNCHANGED <<con, state, queue, tasks, job, new, list>>
        /\ \E k : bucket' = [bucket EXCEPT ![k] = Append(@, new[t].goal)]
    BY <1>3 DEF Insert, search
  <2>2. new[t].goal \in Known  BY <1>2, <2>1 DEF Entering
  <2>3. \A s : \A k \in Entries : s \in In(bucket'[k]) => s \in In(bucket[k]) \/ s = new[t].goal
    BY <1>1, <2>1, <2>2, BucketFound
  <2>4. /\ \A u \in Thread : u # t => pc'[u] = pc[u] /\ calls'[u] = calls[u]
        /\ pc'[t] = "index"
    BY <1>1, <2>1 DEF Jump, TypeOK
  <2> QED  BY <1>1, <2>1, <2>3, <2>4, EnterFinds DEF Found, Goal
<1>4. CASE Index(t)
  <2>1. /\ pc[t] = "index" /\ (\E p \in {"push", "index"} : Jump(t, p))
        /\ UNCHANGED <<con, state, queue, tasks, calls, job, new, list>>
        /\ \E k : bucket' = [bucket EXCEPT ![k] = Append(@, new[t].goal)]
    BY <1>4 DEF Index, search
  <2>2. new[t].goal \in Known  BY <1>2, <2>1 DEF Entering
  <2>3. \A s : \A k \in Entries : s \in In(bucket'[k]) => s \in In(bucket[k]) \/ s = new[t].goal
    BY <1>1, <2>1, <2>2, BucketFound
  <2>4. /\ \A u \in Thread : u # t => pc'[u] = pc[u]
        /\ pc'[t] \in {"push", "index"}
    BY <1>1, <2>1 DEF Jump, TypeOK
  <2> QED  BY <1>1, <2>1, <2>3, <2>4, EnterFinds DEF Found, Goal
<1>5. CASE Push(t)
  <2>1. /\ pc[t] = "push" /\ (\E p \in {"ready", "enqueue", "check"} : Jump(t, p))
        /\ queue' = Append(queue, new[t].goal)
        /\ job' \in {job, [job EXCEPT ![t] = NewJob(new[t].goal, "sync")]}
        /\ new' \in {new, [new EXCEPT ![t] = NoNew]}
        /\ UNCHANGED <<con, state, bucket, tasks, calls, list>>
    BY <1>5 DEF Push, search, store
  <2>2. new[t].goal \in Known  BY <1>2, <2>1 DEF Entering
  <2>3. In(queue') = In(queue) \cup {new[t].goal}  BY <1>1, <2>1, <2>2, InAppend DEF TypeOK
  <2>4. \A u \in Thread : job'[u].goal \in {job[u].goal, new[t].goal}
    <3>1. \A s, o : NewJob(s, o).goal = s  BY DEF NewJob
    <3>2. job \in [Thread -> Job]  BY <1>1 DEF TypeOK, Job
    <3> QED  BY <2>1, <3>1, <3>2
  <2>5. \A u \in Thread : new'[u].goal \in {new[u].goal, None} /\ (u # t => new'[u] = new[u])
    <3>1. NoNew.goal = None  BY DEF NoNew
    <3>2. new \in [Thread -> [goal : Maybe, op : {"add", "async", "sync"}]]  BY <1>1 DEF TypeOK
    <3>3. new' = new \/ new' = [new EXCEPT ![t] = NoNew]  BY <2>1
    <3>4. \A u \in Thread : new'[u] \in {new[u], NoNew} /\ (u # t => new'[u] = new[u])
      BY <3>2, <3>3, OnePlace
    <3> QED  BY <3>1, <3>4
  <2>6. /\ \A u \in Thread : u # t => pc'[u] = pc[u]
        /\ pc'[t] \in {"ready", "enqueue", "check"}
    BY <1>1, <2>1 DEF Jump, TypeOK
  <2>7. \A s : s \in In(queue') \/ s \in In(tasks') \/ (\E k \in Entries : s \in In(bucket'[k]))
               \/ (\E u \in Thread : s = job'[u].goal \/ s \in In(list'[u].used))
               => Found(s) \/ s = new[t].goal
    BY <2>1, <2>3, <2>4 DEF Found, Goal
  <2> QED  BY <1>1, <2>1, <2>5, <2>6, <2>7, EnterFinds
<1>6. CASE Enqueue(t)
  <2>1. /\ pc[t] = "enqueue" /\ Jump(t, "ready") /\ tasks' = Append(tasks, new[t].goal)
        /\ new' = [new EXCEPT ![t] = NoNew]
        /\ UNCHANGED <<con, state, bucket, queue, calls, job, list>>
    BY <1>6 DEF Enqueue, search, store
  <2>2. new[t].goal \in Known  BY <1>2, <2>1 DEF Entering
  <2>3. In(tasks') = In(tasks) \cup {new[t].goal}  BY <1>1, <2>1, <2>2, InAppend DEF TypeOK
  <2>5. \A u \in Thread : new'[u].goal \in {new[u].goal, None} /\ (u # t => new'[u] = new[u])
    <3>1. NoNew.goal = None  BY DEF NoNew
    <3>2. new \in [Thread -> [goal : Maybe, op : {"add", "async", "sync"}]]  BY <1>1 DEF TypeOK
    <3>3. new' = new \/ new' = [new EXCEPT ![t] = NoNew]  BY <2>1
    <3>4. \A u \in Thread : new'[u] \in {new[u], NoNew} /\ (u # t => new'[u] = new[u])
      BY <3>2, <3>3, OnePlace
    <3> QED  BY <3>1, <3>4
  <2>6. /\ \A u \in Thread : u # t => pc'[u] = pc[u]
        /\ pc'[t] = "ready"
    BY <1>1, <2>1 DEF Jump, TypeOK
  <2>7. \A s : s \in In(queue') \/ s \in In(tasks') \/ (\E k \in Entries : s \in In(bucket'[k]))
               \/ (\E u \in Thread : s = job'[u].goal \/ s \in In(list'[u].used))
               => Found(s) \/ s = new[t].goal
    BY <2>1, <2>3 DEF Found, Goal
  <2> QED  BY <1>1, <2>1, <2>5, <2>6, <2>7, EnterFinds
<1> QED  BY <1>3, <1>4, <1>5, <1>6, CreateEnters DEF Adding

\* The loops hand over goals that are in a queue or have a thread.
LEMMA HandsEnter ==
  ASSUME IInv, EnterInv, NEW t \in Thread, pc[t] # "insert",
         UNCHANGED <<con, state, bucket, calls, new, list>>,
         \A u \in Thread : pc'[u] = pc[u] \/ pc'[u] # "insert",
         In(queue') \subseteq In(queue) \cup {Goal(t)}, In(tasks') \subseteq In(tasks),
         \A u \in Thread : job'[u].goal \in In(queue) \cup In(tasks) \cup {Goal(v) : v \in Thread} \cup {None}
  PROVE  EnterInv'
<1>1. \A u \in Thread : pc'[u] = "insert" => pc[u] = "insert"  OBVIOUS
<1>2. ASSUME NEW s \in Known, Found(s)' PROVE Found(s)
  <2>1. s # None  BY Stati DEF IInv
  <2> QED  BY <1>2, <2>1, FoundNext DEF Found
<1> QED  BY <1>1, <1>2, EnterKept

LEMMA LoopingEnters ==
  ASSUME CInv, EnterInv, NEW t \in Thread, Looping(t)
  PROVE  EnterInv'
<1>1. IInv /\ TypeOK /\ job \in [Thread -> Job]  BY DEF CInv, IInv, TypeOK, Job
<1>2. /\ pc[t] # "insert" /\ (\E p \in {"ready", "check", "try", "passiveclaimed", "addback"} : Jump(t, p))
      /\ UNCHANGED <<con, state, bucket, calls, new, list>>
  <2>1. CASE TakeTask(t)  BY <2>1 DEF TakeTask, search, store
  <2>2. CASE Check(t)  BY <2>2 DEF Check, search, store
  <2>3. CASE Passive(t)  BY <2>3 DEF Passive, Over, search, store
  <2>4. CASE AddBack(t)  BY <2>4 DEF AddBack, search, store
  <2> QED  BY <2>1, <2>2, <2>3, <2>4 DEF Looping
<1>3. \A u \in Thread : pc'[u] = pc[u] \/ pc'[u] # "insert"  BY <1>1, <1>2 DEF Jump, TypeOK
<1>4. \A s, o : NewJob(s, o).goal = s /\ NoJob.goal = None  BY DEF NewJob, NoJob
<1>5. CASE TakeTask(t)
  <2>1. /\ tasks # << >> /\ job' = [job EXCEPT ![t] = NewJob(Head(tasks), "async")]
        /\ tasks' = Tail(tasks) /\ queue' = queue
    BY <1>5 DEF TakeTask
  <2>2. Head(tasks) \in In(tasks) /\ In(tasks') \subseteq In(tasks)  BY <1>1, <2>1, InTail DEF TypeOK
  <2>3. \A u \in Thread : job'[u].goal = Goal(u) \/ job'[u].goal = Head(tasks)
    BY <1>1, <1>4, <2>1 DEF Goal
  <2> QED  BY <1>1, <1>2, <1>3, <2>1, <2>2, <2>3, HandsEnter
<1>6. CASE Check(t) \/ Passive(t)
  <2>1. UNCHANGED <<queue, tasks>> /\ job' \in {job, [job EXCEPT ![t] = NoJob]}
    BY <1>6 DEF Check, Passive
  <2>2. \A u \in Thread : job'[u].goal = Goal(u) \/ job'[u].goal = None
    BY <1>1, <1>4, <2>1 DEF Goal
  <2> QED  BY <1>1, <1>2, <1>3, <2>1, <2>2, HandsEnter
<1>7. CASE AddBack(t)
  <2>1. pc[t] = "addback" /\ queue' = Append(queue, Goal(t)) /\ tasks' = tasks /\ job' = [job EXCEPT ![t] = NoJob]
    BY <1>7 DEF AddBack
  <2>2. Goal(t) \in Known
    BY <1>1, <2>1 DEF IInv, PlaceInv, Tasked, TypeOK, Goal, Maybe
  <2>3. In(queue') = In(queue) \cup {Goal(t)}  BY <1>1, <2>1, <2>2, InAppend DEF TypeOK
  <2>4. \A u \in Thread : job'[u].goal = Goal(u) \/ job'[u].goal = None
    BY <1>1, <1>4, <2>1 DEF Goal
  <2> QED  BY <1>1, <1>2, <1>3, <2>1, <2>3, <2>4, HandsEnter
<1> QED  BY <1>5, <1>6, <1>7 DEF Looping

LEMMA DrivingEnters ==
  ASSUME CInv, EnterInv, NEW t \in Thread, Driving(t)
  PROVE  EnterInv'
<1>1. IInv /\ TypeOK /\ job \in [Thread -> Job]  BY DEF CInv, IInv, TypeOK, Job
<1>2. \A s, o : NewJob(s, o).goal = s /\ NoJob.goal = None  BY DEF NewJob, NoJob
<1>3. /\ pc[t] # "insert" /\ tasks' = tasks
      /\ UNCHANGED <<con, state, bucket, calls, new, list>>
      /\ \A u \in Thread : pc'[u] = pc[u] \/ pc'[u] \in Steering \cup {"ready", "try"}
  <2>1. CASE RunParallel(t)  BY <1>1, <2>1 DEF RunParallel, search, store, Steering, Jump, TypeOK
  <2>2. CASE Fill(t)  BY <1>1, <2>2 DEF Fill, FillUpTo, search, store, Steering, Jump, TypeOK
  <2>3. CASE Peek(t)
    <3>1. /\ pc[t] = "peek" /\ tasks' = tasks /\ UNCHANGED <<con, state, bucket, calls, new, list>>
          /\ \/ \E s : pc' = [pc EXCEPT ![t] = "fill", ![s] = "try"]
             \/ pc' = [pc EXCEPT ![t] = "peekclaimed"]
      BY <2>3 DEF Peek, search, store, Jump
    <3> QED  BY <1>1, <3>1 DEF Steering, TypeOK
  <2>4. CASE PeekClaimed(t)  BY <1>1, <2>4 DEF PeekClaimed, search, store, Steering, Jump, TypeOK
  <2>5. CASE Collect(t)  BY <1>1, <2>5 DEF Collect, CollectWith, search, store, Steering, Jump, TypeOK
  <2>6. CASE Triggered(t)  BY <1>1, <2>6 DEF Triggered, search, store, Steering, Jump, TypeOK
  <2>7. CASE Requeue(t)  BY <1>1, <2>7 DEF Requeue, search, store, Steering, Jump, TypeOK
  <2> QED  BY <2>1, <2>2, <2>3, <2>4, <2>5, <2>6, <2>7 DEF Driving
<1>4. \A u \in Thread : pc'[u] = pc[u] \/ pc'[u] # "insert"  BY <1>3 DEF Steering
<1>5. CASE Fill(t)
  <2>1. \/ UNCHANGED <<queue, job>>
        \/ queue # << >> /\ queue' = Tail(queue) /\ job' = [job EXCEPT ![t] = NewJob(Head(queue), "batch")]
    BY <1>5 DEF Fill, FillUpTo
  <2>2. queue # << >> => Head(queue) \in In(queue) /\ In(Tail(queue)) \subseteq In(queue)
    BY <1>1, InTail DEF TypeOK
  <2>3. In(queue') \subseteq In(queue)  BY <2>1, <2>2
  <2>4. \A u \in Thread : job'[u].goal \in In(queue) \cup {Goal(u)}
    BY <1>1, <1>2, <2>1, <2>2 DEF Goal
  <2> QED  BY <1>1, <1>3, <1>4, <2>3, <2>4, HandsEnter
<1>6. CASE Requeue(t)
  <2>1. pc[t] \in {"requeue", "retry"} /\ queue' = Append(queue, Goal(t)) /\ job' = [job EXCEPT ![t] = NoJob]
    BY <1>6 DEF Requeue
  <2>2. Goal(t) \in Known
    BY <1>1, <2>1 DEF IInv, PlaceInv, Tasked, TypeOK, Goal, Maybe
  <2>3. In(queue') = In(queue) \cup {Goal(t)}  BY <1>1, <2>1, <2>2, InAppend DEF TypeOK
  <2>4. \A u \in Thread : job'[u].goal = Goal(u) \/ job'[u].goal = None
    BY <1>1, <1>2, <2>1 DEF Goal
  <2> QED  BY <1>1, <1>3, <1>4, <2>3, <2>4, HandsEnter
<1>7. CASE RunParallel(t) \/ Peek(t) \/ PeekClaimed(t) \/ Collect(t) \/ Triggered(t)
  <2>1. queue' = queue
    BY <1>7 DEF RunParallel, Peek, PeekClaimed, Collect, CollectWith, Triggered
  <2>2. \A u \in Thread : job'[u].goal = None \/ \E v \in Thread : job'[u].goal = job[v].goal
    <3>1. CASE RunParallel(t) \/ PeekClaimed(t) \/ Triggered(t)
      <4>1. job' \in {job, [job EXCEPT ![t] = NoJob]}  BY <3>1 DEF RunParallel, PeekClaimed, Triggered
      <4> QED  BY <1>1, <1>2, <4>1
    <3>2. CASE Peek(t)
      <4>1. job' = job \/ \E s : job' = [job EXCEPT ![s] = job[t], ![t] = NoJob]  BY <3>2 DEF Peek
      <4> QED  BY <1>1, <1>2, <4>1
    <3>3. CASE Collect(t)
      <4>1. \/ job' = job
            \/ /\ batch.handles # << >>
               /\ \E j : /\ j \in {job[Head(batch.handles)], NoJob}
                         /\ job' = [job EXCEPT ![t] = j, ![Head(batch.handles)] = NoJob]
        BY <3>3 DEF Collect, CollectWith
      <4>2. batch.handles # << >> => Head(batch.handles) \in Thread
        <5>1. batch.handles \in Seq(Slot)  BY <1>1 DEF TypeOK
        <5> QED  BY <5>1, HeadTailProperties DEF Thread
      <4> QED  BY <1>1, <1>2, <4>1, <4>2
    <3> QED  BY <1>7, <3>1, <3>2, <3>3
  <2> QED  BY <1>1, <1>3, <1>4, <2>1, <2>2, HandsEnter DEF Goal
<1> QED  BY <1>5, <1>6, <1>7 DEF Driving

\* What a step of a search does to the states.
LEMMA TryState ==
  ASSUME CInv, NEW t \in Thread, Trying(t)
  PROVE  /\ UNCHANGED <<con, bucket>> /\ Quiet
         /\ \/ state' = state
            \/ \E s \in Known : state[s] = "PENDING" /\ Found(s) /\ Set(s, "CLAIMED")
            \/ \E s \in Known : state[s] = "CLAIMED" /\ Set(s, "PENDING")
            \/ \E s \in Known : state[s] = "CLAIMED" /\ Set(s, "CONSUMED") /\ pc[t] = "consume"
         /\ pc[t] # "body" => calls' = calls
<1>1. IInv /\ TypeOK /\ HeldInv /\ HoldInv(t) /\ PlaceInv(t)  BY DEF CInv, IInv
<1>2. CASE ClaimGoal(t)
  <2>1. /\ pc[t] = "try" /\ UNCHANGED <<con, bucket, calls>> /\ Quiet
        /\ state' = state \/ (state[Goal(t)] = "PENDING" /\ Set(Goal(t), "CLAIMED"))
    BY <1>2 DEF ClaimGoal
  <2>2. Goal(t) \in Known  BY <1>1, <2>1 DEF PlaceInv, Tasked, TypeOK, Goal, Maybe
  <2>3. Found(Goal(t))  BY DEF Found
  <2> QED  BY <2>1, <2>2, <2>3
<1>3. CASE Stolen(t) \/ TryGoal(t) \/ TryFirstRule(t) \/ Again(t) \/ Open(t) \/ Look(t) \/ Saw(t)
  BY <1>3 DEF Stolen, TryGoal, TryFirstRule, Again, Open, Look, Saw, store
<1>4. CASE ClaimHere(t)
  <2>1. /\ pc[t] = "claim" /\ UNCHANGED <<con, bucket, calls>> /\ Quiet
        /\ state' = state \/ (state[Here(t)] = "PENDING" /\ Set(Here(t), "CLAIMED"))
    BY <1>4 DEF ClaimHere
  <2>2. Facing(t)  BY <1>1, <2>1 DEF PlaceInv
  <2>3. /\ Here(t) \in Known /\ cur[t].bkt \in Entries
        /\ Here(t) = bucket[cur[t].bkt][cur[t].at]
    BY <1>1, <2>2, HereKnown
  <2>4. Here(t) \in In(bucket[cur[t].bkt])  BY <2>2, <2>3 DEF Facing, Bucket, In
  <2>5. Found(Here(t))  BY <2>3, <2>4 DEF Found
  <2> QED  BY <2>1, <2>3, <2>5
<1>5. CASE GiveBack(t)
  <2>1. PICK s : s = list[t].used[cur[t].at]  OBVIOUS
  <2>2. /\ pc[t] = "giveback" /\ UNCHANGED <<con, bucket, calls>> /\ Quiet
        /\ state' = state \/ (state[s] = "CLAIMED" /\ Set(s, "PENDING"))
    BY <1>5, <2>1 DEF GiveBack
  <2>3. pc[t] \in Listed /\ cur[t].at \in DOMAIN list[t].used
    BY <1>1, <2>2 DEF PlaceInv, Listed
  <2>4. s \in Known  BY <1>1, <2>1, <2>3, UsedAt
  <2> QED  BY <2>2, <2>4
<1>6. CASE Commit(t)
  <2>1. PICK s : s = list[t].used[cur[t].at]  OBVIOUS
  <2>2. /\ pc[t] = "commit" /\ UNCHANGED <<con, bucket, calls>> /\ Quiet
        /\ state' = state \/ (state[s] = "PENDING" /\ Set(s, "CLAIMED"))
    BY <1>6, <2>1 DEF Commit, CommitIf
  <2>3. pc[t] \in Listed /\ cur[t].at \in DOMAIN list[t].used
    BY <1>1, <2>2 DEF PlaceInv, Listed
  <2>4. s \in Known /\ s \in In(list[t].used)  BY <1>1, <2>1, <2>3, UsedAt
  <2>5. Found(s)  BY <2>4 DEF Found
  <2> QED  BY <2>2, <2>4, <2>5
<1>7. CASE Rollback(t)
  <2>1. PICK s : s = Least(held[t])  OBVIOUS
  <2>2. /\ pc[t] = "rollback" /\ UNCHANGED <<con, bucket, calls>> /\ Quiet
        /\ Set(s, "PENDING")
    BY <1>7, <2>1 DEF Rollback
  <2>3. held[t] # {} /\ held[t] \in SUBSET Known /\ Known \subseteq Nat
    BY <1>1, <2>2, Stati DEF HoldInv, TypeOK
  <2>4. s \in held[t]
    <3>1. held[t] \in SUBSET Nat  BY <2>3
    <3> QED  BY <2>1, <2>3, <3>1, LeastIn
  <2>5. s \in Known /\ state[s] = "CLAIMED"  BY <1>1, <2>3, <2>4 DEF HeldInv
  <2> QED  BY <2>2, <2>5
<1>8. CASE Consume(t)
  <2>1. PICK s : s = Settled(list[t])[cur[t].at]  OBVIOUS
  <2>2. /\ pc[t] = "consume" /\ UNCHANGED <<con, bucket, calls>> /\ Quiet
        /\ state' = state \/ (state[s] = "CLAIMED" /\ \E x \in {"PENDING", "CONSUMED"} : Set(s, x))
    BY <1>8, <2>1 DEF Consume
  <2>3. Sound(list[t]) /\ cur[t].at \in DOMAIN Settled(list[t])
    BY <1>1, <2>2 DEF PlaceInv, Listed
  <2>4. Settled(list[t]) \in Seq(Known)  BY <2>3, Firsts
  <2>5. s \in Known  BY <2>1, <2>3, <2>4, LenProperties, ElementOfSeq
  <2> QED  BY <2>2, <2>5
<1>9. CASE RunBody(t)  BY <1>9 DEF RunBody, store
<1> QED  BY <1>2, <1>3, <1>4, <1>5, <1>6, <1>7, <1>8, <1>9 DEF Trying

LEMMA TryingEnters ==
  ASSUME CInv, EnterInv, NEW t \in Thread, Trying(t)
  PROVE  EnterInv'
<1>1. IInv /\ TypeOK  BY DEF CInv, IInv
<1>2. Frame(t) /\ Nearby(t)  BY <1>1, TryingKeeps
<1>3. UNCHANGED <<con, bucket, queue, tasks, new>>  BY TryState DEF Quiet
<1>4. \A s \in Known : state'[s] # "PENDING" => Found(s)
  <2> SUFFICES ASSUME NEW s \in Known, state'[s] # "PENDING", state[s] = "PENDING" PROVE Found(s)
    BY DEF Found
  <2>1. \E x \in Known : Found(x) /\ Set(x, "CLAIMED")
    <3>1. \A x, v : state[x] = "CLAIMED" /\ Set(x, v) => state'[s] = state[s] \/ x = s
      BY <1>1 DEF Set, TypeOK
    <3>2. ~(state' = state)  OBVIOUS
    <3>3. ~ \E x \in Known : state[x] = "CLAIMED" /\ \E v : Set(x, v)
      BY <3>1
    <3> QED  BY <3>2, <3>3, TryState
  <2>2. PICK x \in Known : Found(x) /\ Set(x, "CLAIMED")  BY <2>1
  <2>3. x = s  BY <1>1, <2>2 DEF Set, TypeOK
  <2> QED  BY <2>2, <2>3
<1>5. ASSUME NEW s \in Known, Found(s)' PROVE Found(s)
  <2>1. s # None  BY <1>1, Stati
  <2>2. ASSUME NEW u \in Thread, s = job'[u].goal \/ s \in In(list'[u].used) PROVE Found(s)
    <3>1. CASE u # t  BY <1>2, <2>2, <3>1 DEF Frame, Stays, Found, Goal
    <3>2. CASE u = t
      <4>1. job'[t].goal \in {Goal(t), None}  BY <1>2 DEF Nearby, Goal
      <4>2. In(list'[t].used) \subseteq In(list[t].used) \cup {Goal(t)} \cup In(Bucket(cur[t].bkt))
        BY <1>2 DEF Nearby, Near
      <4>3. s \in In(Bucket(cur[t].bkt)) => Found(s)
        <5>1. In(<< >>) = {}  BY InOne
        <5> QED  BY <5>1 DEF Bucket, Found
      <4> QED  BY <2>1, <2>2, <3>2, <4>1, <4>2, <4>3 DEF Found
    <3> QED  BY <3>1, <3>2
  <2> QED  BY <1>3, <1>4, <1>5, <2>2, FoundNext DEF Found
<1>6. \A u \in Thread : pc'[u] = "insert" => pc[u] = "insert" /\ calls'[u] = calls[u]
  BY <1>2 DEF Nearby, Frame, Stays, Entering
<1> QED  BY <1>1, <1>3, <1>5, <1>6, EnterKept

LEMMA NextEnters ==
  ASSUME CInv, CInv', EnterInv, [Next]_vars
  PROVE  EnterInv'
<1>1. CASE Terminated \/ UNCHANGED vars
  <2>1. UNCHANGED <<con, state, bucket, queue, tasks, pc, calls, job, new, list>>
    BY <1>1 DEF Terminated, vars, store, local, search
  <2> QED  BY <2>1 DEF EnterInv, Found, Goal, In
<1> QED  BY <1>1, AddingEnters, LoopingEnters, DrivingEnters, TryingEnters DEF Next, Step

LEMMA StartEnters == Init => EnterInv
BY DEF Init, EnterInv

(***************************************************************************)
(* The programs of FaithfulProgram stay so.                                *)
(***************************************************************************)
FaithfulInv == \E S \in SUBSET FaithfulCon(mode) : Within(S)

RInv == CInv /\ EnterInv /\ FaithfulInv

LEMMA NextWithin ==
  ASSUME CInv, [Next]_vars, NEW S, Within(S)
  PROVE  Within(S)' /\ mode' = mode
<1>1. IInv  BY DEF CInv
<1>2. ASSUME NEW t \in Thread, Adding(t) \/ Looping(t) \/ Driving(t) PROVE Within(S)' /\ mode' = mode
  <2>1. CASE Create(t)  BY <1>1, <1>2, <2>1, CreateWithin, CalmFrame
  <2>2. CASE Insert(t)  BY <1>1, <1>2, <2>2, InsertWithin, CalmFrame
  <2>3. CASE ~Create(t) /\ ~Insert(t)
    <3>1. UNCHANGED <<con, calls, mode>>  BY <1>2, <2>3, CalmFrame
    <3> QED  BY <3>1, SameWithin
  <2> QED  BY <2>1, <2>2, <2>3
<1>3. ASSUME NEW t \in Thread, Trying(t) PROVE Within(S)' /\ mode' = mode
  <2>1. con' = con /\ mode' = mode /\ (pc[t] # "body" => calls' = calls)
    BY <1>3, TryState DEF Quiet
  <2>2. CASE pc[t] # "body"
    <3>1. UNCHANGED <<con, calls>>  BY <2>1, <2>2
    <3> QED  BY <2>1, <3>1, SameWithin
  <2>3. CASE pc[t] = "body"
    <3>1. RunBody(t)
      BY <1>3, <2>3 DEF Trying, ClaimGoal, Stolen, TryGoal, TryFirstRule, Again, Open, Look, ClaimHere,
         Saw, GiveBack, Commit, CommitIf, Rollback, Consume
    <3> QED  BY <1>1, <2>1, <3>1, BodyWithin
  <2> QED  BY <2>2, <2>3
<1>4. CASE Terminated \/ UNCHANGED vars
  <2>1. UNCHANGED <<con, calls, mode>>
    BY <1>4 DEF Terminated, vars, store, local
  <2> QED  BY <2>1, SameWithin
<1> QED  BY <1>2, <1>3, <1>4 DEF Next, Step

LEMMA NextFaithful ==
  ASSUME RInv, [Next]_vars
  PROVE  RInv'
<1>1. CInv' /\ EnterInv'  BY NextHolds, NextEnters DEF RInv
<1>2. PICK S \in SUBSET FaithfulCon(mode) : Within(S)  BY DEF RInv, FaithfulInv
<1>3. Within(S)' /\ mode' = mode  BY <1>2, NextWithin DEF RInv
<1>4. FaithfulCon(mode)' = FaithfulCon(mode)
  BY <1>3 DEF FaithfulCon, RulesFor, FaithfulRule, DistinctNames, Separate, HeadName, HeadVars
<1>5. FaithfulInv'  BY <1>2, <1>3, <1>4 DEF FaithfulInv
<1> QED  BY <1>1, <1>5 DEF RInv

LEMMA StartFaithful ==
  ASSUME Init, OneRuleProgram, FaithfulProgram
  PROVE  RInv
<1>1. CInv /\ EnterInv  BY StartClaims, StartEnters
<1>2. Known = {}
  <2>1. con = << >> /\ Len(con) = 0  BY EmptySeq DEF Init
  <2> QED  BY <2>1 DEF Known
<1>3. FaithfulInv  BY <1>2 DEF FaithfulInv, FaithfulProgram, Within
<1> QED  BY <1>1, <1>3 DEF RInv

\* So the list of a complete match is exact.
LEMMA MatchExact ==
  ASSUME RInv, NEW l, Sound(l), Faithful(l), Complete(l.rule, l.m)
  PROVE  FaithfulRule(mode, l.rule) /\ Exact(l)
<1>1. PICK S \in SUBSET FaithfulCon(mode) : Within(S)  BY DEF RInv, FaithfulInv
<1>2. l.rule \in RuleId /\ l.m \in Match(l.rule, Known) /\ Named(l.rule, l.m)  BY DEF Sound
<1>3. 1 \in Heads(l.rule)
  <2>1. /\ Heads(l.rule) = 1..Len(Rules[l.rule].heads) /\ Len(Rules[l.rule].heads) \in Nat
    BY <1>2, HeadNumbers
  <2>2. Rules[l.rule].keep < Len(Rules[l.rule].heads) /\ Rules[l.rule].keep \in Nat
    BY <1>2, RulesAssumption, KeptHeadNumbers
  <2> QED  BY <2>1, <2>2
<1>4. l.m[1] \in Known /\ con[l.m[1]].name = HeadName(l.rule, 1)
  BY <1>2, <1>3 DEF Complete, Matched, Match, Named
<1>5. con[l.m[1]] \in FaithfulCon(mode)  BY <1>1, <1>4, WithinParts
<1>6. l.rule \in RulesFor(con[l.m[1]])  BY <1>2, <1>3, <1>4 DEF RulesFor
<1> QED  BY <1>5, <1>6 DEF FaithfulCon, Faithful

(***************************************************************************)
(* The bag of the constraints c[s] of the objects s of A.                  *)
(***************************************************************************)
Bagged(A, c) == BagOf([s \in A |-> c[s]])

LEMMA BaggedCopies ==
  ASSUME NEW A, IsFiniteSet(A), NEW c
  PROVE  /\ IsABag(Bagged(A, c))
         /\ \A e : /\ Copies(Bagged(A, c), e) = Cardinality({s \in A : c[s] = e})
                   /\ Copies(Bagged(A, c), e) \in Nat
<1>1. PICK f : f = [s \in A |-> c[s]]  OBVIOUS
<1>2. DOMAIN f = A /\ Bagged(A, c) = BagOf(f)  BY <1>1 DEF Bagged
<1>3. \A e : Where(f, e) = {s \in A : c[s] = e}  BY <1>1 DEF Where
<1> QED  BY <1>2, <1>3, BagOfCopies

LEMMA BaggedUnion ==
  ASSUME NEW A, NEW B, IsFiniteSet(A), IsFiniteSet(B), A \cap B = {}, NEW c
  PROVE  Bagged(A \cup B, c) = Bagged(A, c) (+) Bagged(B, c)
<1>1. IsFiniteSet(A \cup B)  BY FS_Union
<1>2. PICK x, y, z : x = Bagged(A, c) /\ y = Bagged(B, c) /\ z = Bagged(A \cup B, c)  OBVIOUS
<1>3. IsABag(x) /\ IsABag(y) /\ IsABag(z)  BY <1>1, <1>2, BaggedCopies
<1>4. ASSUME NEW e PROVE Copies(z, e) = Copies(x, e) + Copies(y, e)
  <2> DEFINE D(S) == {s \in S : c[s] = e}
  <2>1. D(A \cup B) = D(A) \cup D(B) /\ D(A) \cap D(B) = {}  OBVIOUS
  <2>2. IsFiniteSet(D(A)) /\ IsFiniteSet(D(B))
    <3>1. D(A) \in SUBSET A /\ D(B) \in SUBSET B  OBVIOUS
    <3> HIDE DEF D
    <3> QED  BY <3>1, FS_Subset
  <2>3. /\ Copies(x, e) = Cardinality(D(A)) /\ Copies(y, e) = Cardinality(D(B))
        /\ Copies(z, e) = Cardinality(D(A \cup B))
    BY <1>1, <1>2, BaggedCopies
  <2> HIDE DEF D
  <2>4. Cardinality(D(A) \cup D(B)) = Cardinality(D(A)) + Cardinality(D(B)) - Cardinality(D(A) \cap D(B))
    BY <2>2, FS_Union
  <2>5. Cardinality(D(A) \cap D(B)) = 0  BY <2>1, FS_EmptySet
  <2>6. Cardinality(D(A)) \in Nat /\ Cardinality(D(B)) \in Nat  BY <2>2, FS_CardinalityType
  <2>7. \A a, b \in Nat : a + b - 0 = a + b  OBVIOUS
  <2>8. Cardinality(D(A) \cup D(B)) = Cardinality(D(A)) + Cardinality(D(B))
    BY <2>4, <2>5, <2>6, <2>7
  <2>9. Cardinality(D(A \cup B)) = Cardinality(D(A)) + Cardinality(D(B))  BY <2>1, <2>8
  <2> QED  BY <2>3, <2>9
<1>5. IsABag(x (+) y) /\ \A e : Copies(x (+) y, e) = Copies(x, e) + Copies(y, e)
  BY <1>3, BagUnionCopies
<1>6. z = x (+) y  BY <1>3, <1>4, <1>5, BagEqual
<1> QED  BY <1>2, <1>6

LEMMA BaggedOne ==
  ASSUME NEW d, NEW c
  PROVE  Bagged({d}, c) = SetToBag({c[d]})
<1>1. PICK x, y : x = Bagged({d}, c) /\ y = SetToBag({c[d]})  OBVIOUS
<1>2. IsFiniteSet({d}) /\ Cardinality({d}) = 1 /\ Cardinality({}) = 0  BY FS_Singleton, FS_EmptySet
<1>3. IsABag(x) /\ \A e : Copies(x, e) = Cardinality({s \in {d} : c[s] = e})
  BY <1>1, <1>2, BaggedCopies
<1>4. IsABag(y) /\ \A e : Copies(y, e) = One(e = c[d])  BY <1>1, SetBagCopies
<1>5. ASSUME NEW e PROVE Copies(x, e) = Copies(y, e)
  <2>1. {s \in {d} : c[s] = e} = IF c[d] = e THEN {d} ELSE {}  OBVIOUS
  <2>2. One(e = c[d]) = IF c[d] = e THEN 1 ELSE 0  BY DEF One
  <2> QED  BY <1>2, <1>3, <1>4, <2>1, <2>2
<1> QED  BY <1>1, <1>3, <1>4, <1>5, BagEqual

LEMMA BaggedSame ==
  ASSUME NEW A, NEW c, NEW d, \A s \in A : c[s] = d[s]
  PROVE  Bagged(A, c) = Bagged(A, d)
<1>1. [s \in A |-> c[s]] = [s \in A |-> d[s]]  OBVIOUS
<1> QED  BY <1>1 DEF Bagged

\* What different heads are matched with.
LEMMA BaggedHeads ==
  ASSUME NEW H, IsFiniteSet(H), NEW p, Injective(p, H), NEW c, NEW f,
         f = [h \in H |-> c[p[h]]]
  PROVE  /\ BagOf(f) = Bagged({p[h] : h \in H}, c)
         /\ IsFiniteSet({p[h] : h \in H})
<1> DEFINE A == {p[h] : h \in H}
           g == [h \in H |-> p[h]]
<1>1. IsFiniteSet(A)
  <2>1. g \in [H -> A] /\ (\A x, y \in H : g[x] = g[y] => x = y) /\ \A y \in A : \E x \in H : g[x] = y
    BY DEF Injective
  <2> HIDE DEF A, g
  <2> QED  BY <2>1, Paired
<1>2. DOMAIN f = H /\ IsABag(BagOf(f)) /\ \A e : Copies(BagOf(f), e) = Cardinality(Where(f, e))
  BY BagOfCopies
<1>3. IsABag(Bagged(A, c)) /\ \A e : Copies(Bagged(A, c), e) = Cardinality({s \in A : c[s] = e})
  <2> HIDE DEF A
  <2> QED  BY <1>1, BaggedCopies
<1>4. ASSUME NEW e PROVE Cardinality(Where(f, e)) = Cardinality({s \in A : c[s] = e})
  <2> DEFINE W == Where(f, e)
             D == {s \in A : c[s] = e}
             k == [h \in W |-> p[h]]
  <2>1. W = {h \in H : c[p[h]] = e}  BY DEF Where
  <2>2. k \in [W -> D] /\ \A y \in D : \E x \in W : k[x] = y  BY <2>1
  <2>3. \A x, y \in W : k[x] = k[y] => x = y  BY <2>1 DEF Injective
  <2>4. IsFiniteSet(W)
    <3>1. W \in SUBSET H  BY <2>1
    <3> HIDE DEF W
    <3> QED  BY <3>1, FS_Subset
  <2> HIDE DEF W, D, k
  <2> QED  BY <2>2, <2>3, <2>4, Paired DEF W, D
<1> HIDE DEF A
<1>5. PICK x, y : x = BagOf(f) /\ y = Bagged(A, c)  OBVIOUS
<1>6. IsABag(x) /\ IsABag(y) /\ \A e : Copies(x, e) = Copies(y, e)
  BY <1>2, <1>3, <1>4, <1>5
<1>7. x = y  BY <1>6, BagEqual
<1> QED  BY <1>1, <1>5, <1>7 DEF A

LEMMA BagTaken ==
  ASSUME NEW A, NEW B, IsABag(A), IsABag(B)
  PROVE  (A (+) B) (-) B = A /\ B \sqsubseteq (A (+) B) /\ DOMAIN B \subseteq DOMAIN (A (+) B)
<1>1. PICK C : C = A (+) B  OBVIOUS
<1>2. IsABag(C) /\ \A e : Copies(C, e) = Copies(A, e) + Copies(B, e)  BY <1>1, BagUnionCopies
<1>3. \A e : Copies(A, e) \in Nat /\ Copies(B, e) \in Nat  BY DEF IsABag, Copies
<1>4. \A e : Copies(B, e) <= Copies(C, e)  BY <1>2, <1>3
<1>5. IsABag(C (-) B) /\ \A e : Copies(C (-) B, e) = Copies(C, e) - Copies(B, e)
  BY <1>2, <1>4, BagMinusCopies
<1>6. \A e : Copies(C (-) B, e) = Copies(A, e)  BY <1>2, <1>3, <1>5
<1>7. C (-) B = A  BY <1>5, <1>6, BagEqual
<1>8. B \sqsubseteq C  BY <1>2, <1>4, SubBagCopies
<1>9. DOMAIN B \subseteq DOMAIN C  BY <1>1 DEF (+)
<1> QED  BY <1>1, <1>7, <1>8, <1>9

LEMMA BagSwap ==
  ASSUME NEW A, NEW B, NEW C, IsABag(A), IsABag(B), IsABag(C)
  PROVE  (A (+) B) (+) C = (A (+) C) (+) B
<1>1. /\ IsABag(A (+) B) /\ IsABag(A (+) C)
      /\ \A e : Copies(A (+) B, e) = Copies(A, e) + Copies(B, e)
      /\ \A e : Copies(A (+) C, e) = Copies(A, e) + Copies(C, e)
  BY BagUnionCopies
<1>2. PICK x, y : x = A (+) B /\ y = A (+) C  OBVIOUS
<1>3. /\ IsABag(x (+) C) /\ IsABag(y (+) B)
      /\ \A e : Copies(x (+) C, e) = Copies(x, e) + Copies(C, e)
      /\ \A e : Copies(y (+) B, e) = Copies(y, e) + Copies(B, e)
  BY <1>1, <1>2, BagUnionCopies
<1>4. \A e : Copies(A, e) \in Nat /\ Copies(B, e) \in Nat /\ Copies(C, e) \in Nat
  BY DEF IsABag, Copies
<1>5. \A e : Copies(x (+) C, e) = Copies(y (+) B, e)  BY <1>1, <1>2, <1>3, <1>4
<1>6. x (+) C = y (+) B  BY <1>3, <1>5, BagEqual
<1> QED  BY <1>2, <1>6

LEMMA FiniteThreads == IsFiniteSet(Thread)
BY UncountedAssumption

OnlyOf(q, r, t) == OnlyAt(Thread, q, r, t)
OneLess(q, r, t, c) == q[t] # << >> /\ r[t] = Tail(q[t]) /\ Head(q[t]).con = c

LEMMA DueChange ==
  ASSUME NEW q \in [Thread -> Seq(Call)], NEW r \in [Thread -> Seq(Call)], NEW t \in Thread,
         OnlyOf(q, r, t), NEW e
  PROVE  TallyShift(Thread, Call, q, r, t, e)
BY TallyChange, FiniteThreads DEF OnlyOf

LessCall(q, r, c) == Tally(Thread, q) = Tally(Thread, r) (+) SetToBag({c})

LEMMA TallyTail ==
  ASSUME NEW q \in [Thread -> Seq(Call)], NEW r \in [Thread -> Seq(Call)], NEW t \in Thread,
         OnlyOf(q, r, t), NEW c, OneLess(q, r, t, c)
  PROVE  LessCall(q, r, c)
<1>1. PICK x, y, z : x = Tally(Thread, q) /\ y = Tally(Thread, r) /\ z = SetToBag({c})  OBVIOUS
<1>2. PICK a, b : a = q[t] /\ b = r[t]  OBVIOUS
<1>3. a \in Seq(Call) /\ b \in Seq(Call) /\ a # << >> /\ b = Tail(a) /\ c = Head(a).con  BY <1>2 DEF OneLess
<1>4. ASSUME NEW e
      PROVE  /\ IsABag(x) /\ IsABag(y)
             /\ Copies(x, e) = Copies(y, e) + One(e = c)
  <2>1. TallySplit(Thread, Call, q, t, e) /\ TallySplit(Thread, Call, r, t, e)  BY TallyParts, FiniteThreads
  <2>2. Copies(y, e) + Number(a, With(Call, e)) = Copies(x, e) + Number(b, With(Call, e))
    <3>1. Copies(Tally(Thread, r), e) + Number(q[t], With(Call, e)) =
          Copies(Tally(Thread, q), e) + Number(r[t], With(Call, e))
      <4>1. TallyShift(Thread, Call, q, r, t, e)  BY DueChange
      <4> QED  BY <4>1 DEF TallyShift
    <3> QED  BY <1>1, <1>2, <3>1
  <2>3. Number(a, With(Call, e)) = Number(b, With(Call, e)) + One(Head(a) \in With(Call, e))
    BY <1>3, NumberTail
  <2>4. Head(a) \in Call  BY <1>3, HeadTailProperties
  <2>5. One(Head(a) \in With(Call, e)) = One(e = c)  BY <1>3, <2>4 DEF With, One
  <2>6. Number(a, With(Call, e)) \in Nat /\ Number(b, With(Call, e)) \in Nat  BY <1>3, PickFinite
  <2>7. IsABag(x) /\ IsABag(y)  BY <1>1, <2>1 DEF TallySplit
  <2>8. Copies(x, e) \in Nat /\ Copies(y, e) \in Nat /\ One(e = c) \in Nat
    BY <2>7 DEF IsABag, Copies, One
  <2>9. Number(a, With(Call, e)) = Number(b, With(Call, e)) + One(e = c)  BY <2>3, <2>5
  <2>10. PICK i, j, k, m, n \in Nat : /\ i = Copies(y, e) /\ j = Number(a, With(Call, e)) /\ n = One(e = c)
                                    /\ k = Copies(x, e) /\ m = Number(b, With(Call, e))
    BY <2>6, <2>8
  <2>11. i + j = k + m /\ j = m + n  BY <2>2, <2>9, <2>10
  <2>12. k = i + n  BY <2>11
  <2> QED  BY <2>7, <2>10, <2>12
<1>5. IsABag(z) /\ \A e : Copies(z, e) = One(e = c)  BY <1>1, SetBagCopies
<1>6. IsABag(y (+) z) /\ \A e : Copies(y (+) z, e) = Copies(y, e) + Copies(z, e)
  BY <1>4, <1>5, BagUnionCopies
<1>7. \A e : Copies(y (+) z, e) = Copies(x, e)  BY <1>4, <1>5, <1>6
<1>8. x = y (+) z  BY <1>4, <1>6, <1>7, BagEqual
<1> QED  BY <1>1, <1>8 DEF LessCall

LEMMA TallyConcat ==
  ASSUME NEW q \in [Thread -> Seq(Call)], NEW r \in [Thread -> Seq(Call)], NEW t \in Thread,
         OnlyOf(q, r, t), NEW b \in Seq(Call), r[t] = b \o q[t]
  PROVE  /\ Tally(Thread, r) = Tally(Thread, q) (+) BagOf([i \in DOMAIN b |-> b[i].con])
         /\ IsABag(BagOf([i \in DOMAIN b |-> b[i].con]))
<1>1. PICK f : f = [i \in DOMAIN b |-> b[i].con]  OBVIOUS
<1>2. PICK x, y, z : x = Tally(Thread, r) /\ y = Tally(Thread, q) /\ z = BagOf(f)  OBVIOUS
<1>3. DOMAIN b = 1..Len(b) /\ Len(b) \in Nat /\ \A i \in DOMAIN b : b[i] \in Call
  BY LenProperties, ElementOfSeq
<1>4. IsABag(z) /\ \A e : Copies(z, e) = Number(b, With(Call, e))
  <2>1. IsFiniteSet(DOMAIN f)
    <3>1. 1 \in Int /\ Len(b) \in Int /\ DOMAIN f = 1..Len(b)  BY <1>1, <1>3
    <3> QED  BY <3>1, FS_Interval
  <2>2. \A e : Where(f, e) = Pick(b, With(Call, e))  BY <1>1, <1>3 DEF Where, Pick, With
  <2> QED  BY <1>2, <2>1, <2>2, BagOfCopies DEF Number
<1>5. ASSUME NEW e
      PROVE  /\ IsABag(x) /\ IsABag(y)
             /\ Copies(x, e) = Copies(y, e) + Copies(z, e)
  <2>1. TallySplit(Thread, Call, q, t, e) /\ TallySplit(Thread, Call, r, t, e)  BY TallyParts, FiniteThreads
  <2>2. Copies(x, e) + Number(q[t], With(Call, e)) = Copies(y, e) + Number(r[t], With(Call, e))
    <3>1. Copies(Tally(Thread, r), e) + Number(q[t], With(Call, e)) =
          Copies(Tally(Thread, q), e) + Number(r[t], With(Call, e))
      <4>1. TallyShift(Thread, Call, q, r, t, e)  BY DueChange
      <4> QED  BY <4>1 DEF TallyShift
    <3> QED  BY <1>2, <3>1
  <2>3. Number(r[t], With(Call, e)) = Number(b, With(Call, e)) + Number(q[t], With(Call, e))
    <3>1. q[t] \in Seq(Call)  OBVIOUS
    <3> QED  BY <3>1, NumberConcat
  <2>4. Number(b, With(Call, e)) \in Nat /\ Number(q[t], With(Call, e)) \in Nat
    <3>1. q[t] \in Seq(Call)  OBVIOUS
    <3> QED  BY <3>1, PickFinite
  <2>5. IsABag(x) /\ IsABag(y)  BY <1>2, <2>1 DEF TallySplit
  <2>6. Copies(x, e) \in Nat /\ Copies(y, e) \in Nat  BY <2>5 DEF IsABag, Copies
  <2>7. PICK i, j, k, m \in Nat : /\ i = Copies(x, e) /\ m = Number(q[t], With(Call, e))
                                 /\ k = Copies(y, e) /\ j = Number(b, With(Call, e))
    BY <2>4, <2>6
  <2>8. i + m = k + (j + m)  BY <2>2, <2>3, <2>7
  <2>9. Copies(x, e) = Copies(y, e) + Number(b, With(Call, e))
    <3>1. i = k + j  BY <2>8
    <3> QED  BY <2>7, <3>1
  <2> QED  BY <1>4, <2>5, <2>9
<1>6. IsABag(y (+) z) /\ \A e : Copies(y (+) z, e) = Copies(y, e) + Copies(z, e)
  BY <1>4, <1>5, BagUnionCopies
<1>7. \A e : Copies(y (+) z, e) = Copies(x, e)  BY <1>5, <1>6
<1>8. x = y (+) z  BY <1>5, <1>6, <1>7, BagEqual
<1> QED  BY <1>1, <1>2, <1>4, <1>8

(***************************************************************************)
(* The operators of Bags and Multiset as the instance of CHR has them.     *)
(***************************************************************************)
LEMMA SameCardinality == ASSUME NEW S PROVE Abstract!Cardinality(S) = Cardinality(S)
BY Zenon DEF Abstract!Cardinality, Cardinality

LEMMA SameBagOf == ASSUME NEW f PROVE Abstract!BagOf(f) = BagOf(f)
<1> DEFINE B(g) == [v \in {g[i] : i \in DOMAIN g} |-> Abstract!Cardinality({i \in DOMAIN g : g[i] = v})]
<1>1. {B(g) : g \in {f}} = {B(f)}  OBVIOUS
<1>2. Abstract!BagOf(f) = CHOOSE b \in {B(g) : g \in {f}} : TRUE  BY DEF Abstract!BagOf
<1> HIDE DEF B
<1>3. Abstract!BagOf(f) = B(f)  BY <1>1, <1>2
<1> QED  BY <1>3, SameCardinality, BagOfIs DEF Where, B

LEMMA SameBags ==
  ASSUME NEW A, NEW B, NEW S
  PROVE  /\ Abstract!(+)(A, B) = A (+) B
         /\ Abstract!(-)(A, B) = A (-) B
         /\ Abstract!\sqsubseteq(A, B) <=> A \sqsubseteq B
         /\ Abstract!SetToBag(S) = SetToBag(S)
         /\ Abstract!BagToSet(A) = DOMAIN A
         /\ Abstract!EmptyBag = EmptyBag
<1>1. Abstract!(+)(A, B) = A (+) B  BY DEF Abstract!(+), (+)
<1>2. Abstract!(-)(A, B) = A (-) B  BY DEF Abstract!(-), (-)
<1>3. Abstract!\sqsubseteq(A, B) <=> A \sqsubseteq B  BY DEF Abstract!\sqsubseteq, \sqsubseteq
<1>4. Abstract!SetToBag(S) = SetToBag(S)  BY DEF Abstract!SetToBag, SetToBag
<1>5. Abstract!BagToSet(A) = DOMAIN A  BY DEF Abstract!BagToSet
<1>6. Abstract!EmptyBag = EmptyBag  BY DEF Abstract!EmptyBag, EmptyBag, Abstract!SetToBag, SetToBag
<1> QED  BY <1>1, <1>2, <1>3, <1>4, <1>5, <1>6

LEMMA IdleIs == ASSUME Live' = Live, Owed' = Owed PROVE Abstract!Next
BY DEF Abstract!Next, Abstract!Idle

LEMMA DeliverIs ==
  ASSUME NEW c, c \in DOMAIN Owed, Live' = Live (+) SetToBag({c}), Owed' = Owed (-) SetToBag({c})
  PROVE  Abstract!Next
<1>1. Abstract!Deliver(c)  BY SameBags DEF Abstract!Deliver
<1>2. c \in Abstract!BagToSet(Owed)  BY SameBags
<1> QED  BY <1>1, <1>2 DEF Abstract!Next

LEMMA FireIs ==
  ASSUME NEW r \in RuleId, NEW cs \in [Heads(r) -> DOMAIN Live], Abstract!Matches(r, cs),
         BagOf(cs) \sqsubseteq Live, Live' = Live (-) BagOf(cs),
         Owed' = (Owed (+) BagOf([i \in DOMAIN Body(r, cs) |-> Body(r, cs)[i].con]))
                       (+) BagOf(SubSeq(cs, 1, Rules[r].keep))
  PROVE  Abstract!Next
<1>1. Abstract!AddedBy(Body(r, cs)) = BagOf([i \in DOMAIN Body(r, cs) |-> Body(r, cs)[i].con])
  BY SameBagOf DEF Abstract!AddedBy
<1>2. Abstract!Fire(r, cs)  BY <1>1, SameBags, SameBagOf DEF Abstract!Fire
<1>3. cs \in [DOMAIN Rules[r].heads -> Abstract!BagToSet(Live)]  BY SameBags DEF Heads
<1> QED  BY <1>2, <1>3 DEF Abstract!Next, RuleId

LEMMA FireMatches ==
  ASSUME Known \subseteq Nat \ {None}, NEW r \in RuleId, NEW p \in [Heads(r) -> Known], Named(r, p),
         Consistent(r, p), NEW cs, cs = [h \in Heads(r) |-> con[p[h]]]
  PROVE  Abstract!Matches(r, cs)
<1>1. \A h \in Heads(r) : p[h] # None /\ cs[h] = con[p[h]]  OBVIOUS
<1>2. \A h \in Heads(r) : cs[h].name = HeadName(r, h)  BY <1>1 DEF Named
<1>3. Rules[r].ignore \/ Agree(r, p)  BY ConsistentIs
<1>4. Agree(r, p) => \A g, h \in Heads(r) : \A i \in DOMAIN HeadVars(r, g), j \in DOMAIN HeadVars(r, h) :
        HeadVars(r, g)[i] = HeadVars(r, h)[j] => cs[g].args[i] = cs[h].args[j]
  BY <1>1 DEF Agree, Matched
<1> QED  BY <1>2, <1>3, <1>4 DEF Abstract!Matches, Heads, HeadName, HeadVars

(***************************************************************************)
(* What CHR is shown: the objects that are live and those that are given   *)
(* back, and the calls that are due.                                       *)
(***************************************************************************)
LiveSet == {k \in Known : Entered(k) /\ state[k] # "CONSUMED" /\ k \notin Taken}
Back == UNION {GoesBack(t) : t \in Thread}
Due == [t \in Thread |-> CallsDue(t)]

Sight == Live = Bagged(LiveSet, con) /\ Owed = Tally(Thread, Due) (+) Bagged(Back, con)

LEMMA SightNow == Sight
BY DEF Sight, Live, LiveSet, Bagged, Owed, Tally, Items, Due, Back

LEMMA SightNext == Sight'
BY SightNow, PTL

LEMMA SightIs ==
  /\ Live = Bagged(LiveSet, con) /\ Live' = Bagged(LiveSet', con')
  /\ Owed = Tally(Thread, Due) (+) Bagged(Back, con)
  /\ Owed' = Tally(Thread, Due') (+) Bagged(Back', con')
BY SightNow, SightNext DEF Sight

SightTypes ==
  /\ LiveSet \in SUBSET Known /\ IsFiniteSet(LiveSet)
  /\ Back \in SUBSET Known /\ IsFiniteSet(Back)
  /\ Due \in [Thread -> Seq(Call)]

LEMMA SightTypesNow == IInv => SightTypes
<1> SUFFICES ASSUME IInv PROVE SightTypes  OBVIOUS
<1>1. TypeOK /\ Known \in SUBSET Known  BY DEF IInv
<1>2. IsFiniteSet(Known)
  <2>1. Known = 1..Len(con) /\ Len(con) \in Nat  BY <1>1, Stati
  <2>2. 1 \in Int /\ Len(con) \in Int  BY <2>1
  <2> QED  BY <2>1, <2>2, FS_Interval
<1>3. LiveSet \in SUBSET Known  BY DEF LiveSet
<1>4. Back \in SUBSET Known  BY <1>1 DEF Back, GoesBack, TypeOK
<1>5. ASSUME NEW t \in Thread PROVE CallsDue(t) \in Seq(Call)
  <2>1. calls[t] \in Seq(Call) /\ << >> \in Seq(Call)  BY <1>1, EmptySeq DEF TypeOK
  <2>2. ASSUME Firing(t) PROVE Body(list[t].rule, Ordered(list[t])) \in Seq(Call)
    <3>1. pc[t] \in Listed /\ pc[t] \in {"commit", "consume", "body"}
      BY <2>2 DEF Firing, Listed
    <3>2. Sound(list[t]) /\ Complete(list[t].rule, list[t].m)
      BY <3>1 DEF IInv, PlaceInv
    <3>3. con \in Seq(Con) /\ list[t].rule \in RuleId  BY <1>1, <3>2 DEF TypeOK, Sound
    <3>4. /\ Ordered(list[t]) \in [Heads(list[t].rule) -> Con]
          /\ \A h \in Heads(list[t].rule) : Ordered(list[t])[h].name = HeadName(list[t].rule, h)
      BY <3>2, <3>3, OrderedNames
    <3>5. Body(list[t].rule, Ordered(list[t])) \in Seq({k \in Call : k.op # "sync"})
      BY <3>3, <3>4, UncountedAssumption
    <3>6. {k \in Call : k.op # "sync"} \subseteq Call  OBVIOUS
    <3> QED  BY <3>5, <3>6, SeqMonotonic
  <2> QED  BY <2>1, <2>2, ConcatProperties DEF CallsDue
<1>6. Due \in [Thread -> Seq(Call)]  BY <1>5 DEF Due
<1> QED  BY <1>2, <1>3, <1>4, <1>6, FS_Subset DEF SightTypes

LEMMA SightTypesNext == IInv' => SightTypes'
BY SightTypesNow, PTL

LEMMA LiveIn ==
  ASSUME NEW s
  PROVE  /\ s \in LiveSet <=> /\ s \in Known /\ Entered(s) /\ state[s] # "CONSUMED"
                              /\ \A u \in Thread : Firing(u) => s \notin held[u]
         /\ s \in LiveSet' <=> /\ s \in Known' /\ Entered(s)' /\ state'[s] # "CONSUMED"
                               /\ \A u \in Thread : Firing(u)' => s \notin held'[u]
BY DEF LiveSet, Taken

LEMMA OrderedStable ==
  ASSUME IInv, NEW l, Sound(l), Complete(l.rule, l.m), Grown
  PROVE  Ordered(l)' = Ordered(l)
<1> DEFINE r == l.rule
           p == ById(r, l.m)
<1>1. r \in RuleId /\ l.m \in Match(r, Known) /\ Named(r, l.m)  BY DEF Sound
<1>2. p \in Match(r, Known) /\ Complete(r, p)
  <2>1. Known \in SUBSET Nat  BY Stati DEF IInv
  <2> QED  BY <1>1, <2>1, ByIdMatch
<1>3. \A h \in Heads(r) : p[h] \in Known  BY <1>2 DEF Match, Complete, Matched
<1>4. ById(r, l.m)' = p
  BY DEF ById, Matched, HeadName, Sooner
<1> HIDE DEF p
<1>5. Ordered(l) = [h \in Heads(r) |-> con[p[h]]]  BY DEF Ordered, p
<1>6. Ordered(l)' = [h \in Heads(r) |-> con'[p[h]]]  BY <1>4 DEF Ordered
<1> QED  BY <1>3, <1>5, <1>6 DEF Grown

\* What a thread owes stays the same with its list, its claims and its calls.
LEMMA ShownStable ==
  ASSUME IInv, NEW u \in Thread, Grown, Firing(u)' <=> Firing(u),
         list'[u] = list[u], calls'[u] = calls[u], held'[u] = held[u]
  PROVE  CallsDue(u)' = CallsDue(u) /\ GoesBack(u)' = GoesBack(u)
<1>1. PICK l : l = list[u]  OBVIOUS
<1>2. list'[u] = l  BY <1>1
<1>3. ASSUME Firing(u) PROVE Ordered(l)' = Ordered(l)
  <2>1. pc[u] \in Listed /\ pc[u] \in {"commit", "consume", "body"}  BY <1>3 DEF Firing, Listed
  <2>2. Sound(list[u]) /\ Complete(list[u].rule, list[u].m)  BY <2>1 DEF IInv, PlaceInv
  <2>3. Sound(l) /\ Complete(l.rule, l.m)  BY <1>1, <2>2
  <2> QED  BY <2>3, OrderedStable
<1>4. CallsDue(u) = (IF Firing(u) THEN Body(l.rule, Ordered(l)) ELSE << >>) \o calls[u]
  BY <1>1 DEF CallsDue
<1>5. CallsDue(u)' = (IF Firing(u)' THEN Body(l.rule, Ordered(l)') ELSE << >>) \o calls'[u]
  BY <1>2 DEF CallsDue
<1>6. GoesBack(u)' = GoesBack(u)  BY <1>1, <1>2 DEF GoesBack, In
<1> QED  BY <1>3, <1>4, <1>5, <1>6

LEMMA Unfired ==
  ASSUME NEW u
  PROVE  /\ ~Firing(u) => CallsDue(u) = << >> \o calls[u] /\ GoesBack(u) = {}
         /\ ~Firing(u)' => CallsDue(u)' = << >> \o calls'[u] /\ GoesBack(u)' = {}
BY DEF CallsDue, GoesBack

\* A step that shows nothing.
LEMMA IdleShown ==
  ASSUME IInv, Grown, LiveSet' = LiveSet,
         \A u \in Thread : CallsDue(u)' = CallsDue(u) /\ GoesBack(u)' = GoesBack(u)
  PROVE  Abstract!Next
<1>1. Due' = Due /\ Back' = Back  BY DEF Due, Back
<1>2. SightTypes  BY SightTypesNow
<1>3. PICK A, B, c, d : A = LiveSet /\ B = Back /\ c = con /\ d = con'  OBVIOUS
<1>4. (\A s \in A : d[s] = c[s]) /\ (\A s \in B : d[s] = c[s])
  BY <1>2, <1>3 DEF SightTypes, Grown
<1>5. Bagged(A, d) = Bagged(A, c) /\ Bagged(B, d) = Bagged(B, c)  BY <1>4, BaggedSame
<1> QED  BY <1>1, <1>3, <1>5, SightIs, IdleIs

LEMMA CalmShown ==
  ASSUME CInv, NEW t \in Thread, Adding(t) \/ Looping(t) \/ Driving(t), ~Create(t), ~Insert(t)
  PROVE  Abstract!Next
<1>1. IInv /\ UNCHANGED <<con, state, list, cur, held, calls>>
  BY CalmFrame DEF CInv
<1>2. \A u \in Thread :
        /\ pc'[u] = pc[u] \/ (pc[u] \notin Listed \cup {"insert"} /\ pc'[u] \notin Listed \cup {"insert"})
        /\ pc[u] = "insert" => new'[u] = new[u]
  BY CalmPlaces
<1>3. Known' = Known /\ Grown  BY <1>1, SameTypes
<1>4. \A u \in Thread : Firing(u)' <=> Firing(u)  BY <1>2 DEF Firing, Listed
<1>5. \A s : Entered(s)' <=> Entered(s)  BY <1>2 DEF Entered
<1>6. \A s : s \in LiveSet' <=> s \in LiveSet  BY <1>1, <1>3, <1>4, <1>5, LiveIn
<1>7. LiveSet' = LiveSet  BY <1>6 DEF LiveSet
<1>8. \A u \in Thread : CallsDue(u)' = CallsDue(u) /\ GoesBack(u)' = GoesBack(u)
  <2> SUFFICES ASSUME NEW u \in Thread PROVE CallsDue(u)' = CallsDue(u) /\ GoesBack(u)' = GoesBack(u)
    OBVIOUS
  <2> QED  BY <1>1, <1>3, <1>4, ShownStable
<1> QED  BY <1>1, <1>3, <1>7, <1>8, IdleShown

\* A new id is not entered.
LEMMA CreateShown ==
  ASSUME CInv, NEW t \in Thread, Create(t)
  PROVE  Abstract!Next
<1>1. IInv /\ TypeOK  BY DEF CInv, IInv
<1>2. /\ pc[t] = "ready" /\ con' = Append(con, Head(calls[t]).con)
      /\ new' = [new EXCEPT ![t] = [goal |-> Len(con) + 1, op |-> Head(calls[t]).op]]
      /\ pc' = [pc EXCEPT ![t] = "insert"] /\ UNCHANGED <<state, calls, list, held>>
  BY DEF Create, Jump, search
<1>3. Grown  BY <1>1, CreateKeeps
<1>4. /\ Known = 1..Len(con) /\ Len(con) \in Nat
      /\ \A s : s \in Known' <=> s \in Known \/ s = Len(con) + 1
      /\ Len(con) + 1 \notin Known
  <2>1. Known = 1..Len(con) /\ Len(con) \in Nat  BY <1>1, Stati
  <2>2. calls[t] # << >> /\ calls[t] \in Seq(Call)  BY <1>1 DEF Create, TypeOK
  <2>3. Head(calls[t]) \in Call  BY <2>2, HeadTailProperties
  <2>4. Head(calls[t]).con \in Con /\ con \in Seq(Con)  BY <1>1, <2>3 DEF Call, TypeOK
  <2>5. con' \in Seq(Con) /\ Len(con') = Len(con) + 1  BY <1>2, <2>4, AppendProperties
  <2>6. Known' = 1..(Len(con) + 1)  BY <2>5, LenProperties DEF Known
  <2> QED  BY <2>1, <2>6
<1>5. pc'[t] = "insert" /\ new'[t].goal = Len(con) + 1  BY <1>1, <1>2 DEF TypeOK
<1>6. \A u \in Thread \ {t} : pc'[u] = pc[u] /\ new'[u] = new[u]  BY <1>1, <1>2 DEF TypeOK
<1>7. \A u \in Thread : Firing(u)' <=> Firing(u)  BY <1>2, <1>5, <1>6 DEF Firing
<1>8. \A s \in Known : Entered(s)' <=> Entered(s)
  BY <1>2, <1>4, <1>5, <1>6 DEF Entered
<1>9. \A s : s = Len(con) + 1 => ~Entered(s)'  BY <1>5 DEF Entered
<1>10. \A s : s \in LiveSet' <=> s \in LiveSet
  <2> SUFFICES ASSUME NEW s PROVE s \in LiveSet' <=> s \in LiveSet  OBVIOUS
  <2>1. CASE s \in Known  BY <1>2, <1>4, <1>7, <1>8, <2>1, LiveIn
  <2>2. CASE s = Len(con) + 1  BY <1>4, <1>9, <2>2, LiveIn
  <2>3. CASE s \notin Known /\ s # Len(con) + 1  BY <1>4, <2>3, LiveIn
  <2> QED  BY <2>1, <2>2, <2>3
<1>11. LiveSet' = LiveSet  BY <1>10 DEF LiveSet
<1>12. \A u \in Thread : CallsDue(u)' = CallsDue(u) /\ GoesBack(u)' = GoesBack(u)
  <2> SUFFICES ASSUME NEW u \in Thread PROVE CallsDue(u)' = CallsDue(u) /\ GoesBack(u)' = GoesBack(u)
    OBVIOUS
  <2> QED  BY <1>1, <1>2, <1>3, <1>7, ShownStable
<1> QED  BY <1>1, <1>3, <1>11, <1>12, IdleShown

LEMMA TallyBag ==
  ASSUME NEW q \in [Thread -> Seq(Call)]
  PROVE  IsABag(Tally(Thread, q))
<1>1. PICK t : t = Driver  OBVIOUS
<1>2. t \in Thread  BY <1>1, UncountedAssumption DEF Thread
<1>3. \A e : TallySplit(Thread, Call, q, t, e)  BY <1>2, FiniteThreads, TallyParts
<1> QED  BY <1>3 DEF TallySplit

\* A step that enters a constraint.
LEMMA DeliverShown ==
  ASSUME NEW c, IsABag(Owed'), Owed = Owed' (+) SetToBag({c}), Live' = Live (+) SetToBag({c})
  PROVE  Abstract!Next
<1>1. PICK O, P, C : O = Owed /\ P = Owed' /\ C = SetToBag({c})  OBVIOUS
<1>2. IsABag(C) /\ Copies(C, c) = One(c = c)  BY <1>1, SetBagCopies
<1>3. c \in DOMAIN C  BY <1>2 DEF Copies, One
<1>4. O = P (+) C /\ IsABag(P)  BY <1>1
<1>5. (P (+) C) (-) C = P /\ DOMAIN C \subseteq DOMAIN (P (+) C)  BY <1>2, <1>4, BagTaken
<1>6. O (-) C = P /\ c \in DOMAIN O  BY <1>3, <1>4, <1>5
<1> QED  BY <1>1, <1>6, DeliverIs

\* The state of what is shown after a step, when the bags are well.
LEMMA SightBags ==
  ASSUME IInv, IInv'
  PROVE  /\ LiveSet \in SUBSET Known /\ IsFiniteSet(LiveSet) /\ Back \in SUBSET Known /\ IsFiniteSet(Back)
         /\ IsFiniteSet(LiveSet') /\ IsFiniteSet(Back')
         /\ Due \in [Thread -> Seq(Call)] /\ Due' \in [Thread -> Seq(Call)]
         /\ IsABag(Live) /\ IsABag(Owed) /\ IsABag(Live') /\ IsABag(Owed')
<1>1. /\ LiveSet \in SUBSET Known /\ IsFiniteSet(LiveSet) /\ Back \in SUBSET Known /\ IsFiniteSet(Back)
      /\ Due \in [Thread -> Seq(Call)]
  BY SightTypesNow DEF SightTypes
<1>2. IsFiniteSet(LiveSet') /\ IsFiniteSet(Back') /\ Due' \in [Thread -> Seq(Call)]
  BY SightTypesNext DEF SightTypes
<1>3. PICK A, B, c, q : A = LiveSet /\ B = Back /\ c = con /\ q = Due  OBVIOUS
<1>4. PICK D, E, d, r : D = LiveSet' /\ E = Back' /\ d = con' /\ r = Due'  OBVIOUS
<1>5. IsABag(Bagged(A, c)) /\ IsABag(Bagged(B, c))  BY <1>1, <1>3, BaggedCopies
<1>6. IsABag(Bagged(D, d)) /\ IsABag(Bagged(E, d))  BY <1>2, <1>4, BaggedCopies
<1>7. IsABag(Tally(Thread, q)) /\ IsABag(Tally(Thread, r))  BY <1>1, <1>2, <1>3, <1>4, TallyBag
<1>8. IsABag(Tally(Thread, q) (+) Bagged(B, c)) /\ IsABag(Tally(Thread, r) (+) Bagged(E, d))
  BY <1>5, <1>6, <1>7, BagUnionCopies
<1> QED  BY <1>1, <1>2, <1>3, <1>4, <1>5, <1>6, <1>8, SightIs

\* Store::insert enters the constraint under its name: from then on it can be found.
LEMMA InsertShown ==
  ASSUME RInv, IInv', NEW t \in Thread, Insert(t)
  PROVE  Abstract!Next
<1>1. CInv /\ EnterInv /\ HeldInv /\ IInv /\ TypeOK /\ PlaceInv(t)  BY DEF RInv, CInv, IInv
<1>2. PICK s : s = new[t].goal  OBVIOUS
<1>3. PICK c : c = con[s]  OBVIOUS
<1>4. /\ pc[t] = "insert" /\ pc' = [pc EXCEPT ![t] = "index"]
      /\ calls' = [calls EXCEPT ![t] = Tail(calls[t])] /\ UNCHANGED <<con, state, new, list, held>>
  BY DEF Insert, Jump, search
<1>5. /\ s \in Known /\ state[s] = "PENDING" /\ Head(calls[t]).con = c
      /\ \A u \in Thread \ {t} : new[u].goal # s
  <2>1. s \in Known  BY <1>1, <1>2, <1>4 DEF PlaceInv, Entering, TypeOK, Maybe
  <2> QED  BY <1>1, <1>2, <1>3, <1>4, <2>1 DEF EnterInv, Found
<1>6. \A u \in Thread : s \notin held[u]  BY <1>1, <1>5 DEF HeldInv
<1>7. calls[t] \in Seq(Call) /\ calls[t] # << >> /\ Tail(calls[t]) \in Seq(Call)
  BY <1>1, <1>4, HeadTailProperties DEF TypeOK, PlaceInv
<1>8. Known' = Known /\ Grown  BY <1>4, SameTypes
<1>9. /\ pc'[t] = "index" /\ calls'[t] = Tail(calls[t])
      /\ \A u \in Thread \ {t} : pc'[u] = pc[u] /\ calls'[u] = calls[u]
  BY <1>1, <1>4 DEF TypeOK
<1>10. \A u \in Thread : Firing(u)' <=> Firing(u)  BY <1>4, <1>9 DEF Firing
<1>11. ~Entered(s) /\ Entered(s)' /\ \A x : x # s => (Entered(x)' <=> Entered(x))
  BY <1>2, <1>4, <1>5, <1>9 DEF Entered
<1>12. s \notin LiveSet /\ LiveSet' = LiveSet \cup {s}
  <2>1. s \notin LiveSet /\ s \in LiveSet'
    BY <1>4, <1>5, <1>6, <1>8, <1>11, LiveIn
  <2>2. \A x : x # s => (x \in LiveSet' <=> x \in LiveSet)
    BY <1>4, <1>8, <1>10, <1>11, LiveIn
  <2>3. \A x : x \in LiveSet' <=> x \in LiveSet \/ x = s  BY <2>1, <2>2
  <2> QED  BY <2>1, <2>3 DEF LiveSet
<1>13. ASSUME NEW u \in Thread \ {t} PROVE CallsDue(u)' = CallsDue(u) /\ GoesBack(u)' = GoesBack(u)
  BY <1>1, <1>4, <1>8, <1>9, <1>10, ShownStable
<1>14. ~Firing(t) /\ ~Firing(t)'  BY <1>4, <1>9 DEF Firing
<1>15. GoesBack(t)' = GoesBack(t) /\ CallsDue(t) = calls[t] /\ CallsDue(t)' = Tail(calls[t])
  <2>1. << >> \o calls[t] = calls[t] /\ << >> \o Tail(calls[t]) = Tail(calls[t])
    BY <1>7, ConcatEmptySeq
  <2> QED  BY <1>9, <1>14, <2>1, Unfired
<1>16. Back' = Back  BY <1>13, <1>15 DEF Back
<1>17. PICK A, B, D, q, r : /\ A = LiveSet /\ B = Back /\ D = con /\ q = Due /\ r = Due'  OBVIOUS
<1>18. /\ A \in SUBSET Known /\ IsFiniteSet(A) /\ IsFiniteSet(B)
       /\ q \in [Thread -> Seq(Call)] /\ r \in [Thread -> Seq(Call)] /\ IsABag(Owed')
  BY <1>1, <1>17, SightBags
<1>19. Tally(Thread, q) = Tally(Thread, r) (+) SetToBag({c})
  <2>1. OnlyOf(q, r, t)  BY <1>13, <1>17 DEF Due, OnlyOf, OnlyAt
  <2>2. q[t] = calls[t] /\ r[t] = Tail(calls[t])  BY <1>15, <1>17 DEF Due
  <2>3. OneLess(q, r, t, c)  BY <1>5, <1>7, <2>2 DEF OneLess
  <2>4. q \in [Thread -> Seq(Call)] /\ r \in [Thread -> Seq(Call)]  BY <1>18
  <2>5. LessCall(q, r, c)  BY <2>1, <2>3, <2>4, TallyTail
  <2> QED  BY <2>5 DEF LessCall
<1>20. Owed = Owed' (+) SetToBag({c})
  <2>1. PICK x, y, z : x = Tally(Thread, r) /\ y = SetToBag({c}) /\ z = Bagged(B, D)  OBVIOUS
  <2>2. IsABag(x) /\ IsABag(y) /\ IsABag(z)
    BY <1>18, <2>1, TallyBag, SetBagCopies, BaggedCopies
  <2>3. Owed = (x (+) y) (+) z  BY <1>17, <1>19, <2>1, SightIs
  <2>4. Owed' = x (+) z  BY <1>4, <1>16, <1>17, <2>1, SightIs
  <2>5. (x (+) y) (+) z = (x (+) z) (+) y  BY <2>2, BagSwap
  <2> QED  BY <2>1, <2>3, <2>4, <2>5
<1>21. Live' = Live (+) SetToBag({c})
  <2>1. Live' = Bagged(A \cup {s}, D) /\ Live = Bagged(A, D)
    BY <1>4, <1>12, <1>17, SightIs
  <2>2. A \cap {s} = {} /\ IsFiniteSet({s})  BY <1>12, <1>17, FS_Singleton
  <2>3. Bagged(A \cup {s}, D) = Bagged(A, D) (+) Bagged({s}, D)
    <3>1. IsFiniteSet(A)  BY <1>18
    <3> QED  BY <2>2, <3>1, BaggedUnion
  <2>4. Bagged({s}, D) = SetToBag({c})
    <3>1. Bagged({s}, D) = SetToBag({D[s]})  BY BaggedOne
    <3>2. D[s] = c  BY <1>3, <1>17
    <3> QED  BY <3>1, <3>2
  <2> QED  BY <2>1, <2>3, <2>4
<1> QED  BY <1>18, <1>20, <1>21, DeliverShown

(***************************************************************************)
(* What the steps of a search show.                                        *)
(***************************************************************************)
LEMMA TryPlace ==
  ASSUME NEW t, Trying(t)
  PROVE  pc[t] # "insert" /\ (pc[t] = "body" => RunBody(t)) /\ (pc[t] = "consume" => Consume(t))
BY DEF Trying, ClaimGoal, Stolen, TryGoal, TryFirstRule, Again, Open, Look, ClaimHere, Saw, GiveBack,
       Commit, CommitIf, Rollback, Consume, RunBody

\* The other threads show what they did, and nothing gets entered.
LEMMA TryOthers ==
  ASSUME CInv, NEW t \in Thread, Trying(t)
  PROVE  /\ IInv /\ IInv' /\ Frame(t) /\ Nearby(t) /\ con' = con /\ Known' = Known /\ Grown
         /\ \A s : Entered(s)' <=> Entered(s)
         /\ \A u \in Thread \ {t} : /\ Firing(u)' <=> Firing(u)
                                    /\ held'[u] = held[u]
                                    /\ CallsDue(u)' = CallsDue(u) /\ GoesBack(u)' = GoesBack(u)
<1>1. IInv /\ IInv' /\ Frame(t) /\ Nearby(t)  BY TryingKeeps DEF CInv
<1>2. con' = con /\ new' = new  BY TryState DEF Quiet
<1>3. Known' = Known /\ Grown  BY <1>2, SameTypes
<1>4. pc[t] # "insert" /\ pc'[t] # "insert"  BY <1>1, TryPlace DEF Nearby, Entering
<1>5. \A u \in Thread \ {t} : /\ pc'[u] = pc[u] /\ calls'[u] = calls[u] /\ list'[u] = list[u]
                              /\ held'[u] = held[u]
  BY <1>1 DEF Frame, Stays
<1>6. \A s : Entered(s)' <=> Entered(s)  BY <1>2, <1>4, <1>5 DEF Entered
<1>7. \A u \in Thread \ {t} : Firing(u)' <=> Firing(u)  BY <1>5 DEF Firing
<1>8. ASSUME NEW u \in Thread \ {t} PROVE CallsDue(u)' = CallsDue(u) /\ GoesBack(u)' = GoesBack(u)
  BY <1>1, <1>3, <1>5, <1>7, ShownStable
<1> QED  BY <1>1, <1>2, <1>3, <1>5, <1>6, <1>7, <1>8

\* Only the loop over a fired match consumes.
LEMMA NoneConsumed ==
  ASSUME CInv, NEW t \in Thread, Trying(t), pc[t] # "consume"
  PROVE  \A s \in Known : state'[s] = "CONSUMED" <=> state[s] = "CONSUMED"
<1>1. TypeOK /\ Known \subseteq Status  BY Stati DEF CInv, IInv
<1>2. state' = state \/ \E x \in Known, v \in {"CLAIMED", "PENDING"} : state[x] # "CONSUMED" /\ Set(x, v)
  BY TryState
<1>3. ASSUME NEW x \in Known, NEW v \in {"CLAIMED", "PENDING"}, state[x] # "CONSUMED", Set(x, v)
      PROVE  \A s \in Known : state'[s] = "CONSUMED" <=> state[s] = "CONSUMED"
  BY <1>1, <1>3 DEF Set, TypeOK
<1> QED  BY <1>2, <1>3

\* What a search does before it fires is not seen.
LEMMA SearchShown ==
  ASSUME CInv, NEW t \in Thread, Trying(t), ~Firing(t), ~Firing(t)'
  PROVE  Abstract!Next
<1>1. /\ IInv /\ Known' = Known /\ Grown
      /\ \A s : Entered(s)' <=> Entered(s)
      /\ \A u \in Thread \ {t} : /\ Firing(u)' <=> Firing(u)
                                 /\ held'[u] = held[u]
                                 /\ CallsDue(u)' = CallsDue(u) /\ GoesBack(u)' = GoesBack(u)
  BY TryOthers
<1>3. calls' = calls  BY TryState DEF Firing
<1>4. \A s \in Known : state'[s] = "CONSUMED" <=> state[s] = "CONSUMED"  BY NoneConsumed DEF Firing
<1>5. \A s : s \in LiveSet' <=> s \in LiveSet  BY <1>1, <1>4, LiveIn
<1>6. LiveSet' = LiveSet  BY <1>5 DEF LiveSet
<1>7. CallsDue(t)' = CallsDue(t) /\ GoesBack(t)' = GoesBack(t)  BY <1>3, Unfired
<1> QED  BY <1>1, <1>6, <1>7, IdleShown

\* The body's calls were due since the rule fired.
LEMMA BodyShown ==
  ASSUME CInv, NEW t \in Thread, RunBody(t)
  PROVE  Abstract!Next
<1>1. Trying(t)  BY DEF Trying
<1>2. /\ IInv /\ IInv' /\ Known' = Known /\ Grown
      /\ \A s : Entered(s)' <=> Entered(s)
      /\ \A u \in Thread \ {t} : /\ Firing(u)' <=> Firing(u)
                                 /\ held'[u] = held[u]
                                 /\ CallsDue(u)' = CallsDue(u) /\ GoesBack(u)' = GoesBack(u)
  BY <1>1, TryOthers
<1>3. TypeOK /\ HoldInv(t)  BY <1>2 DEF IInv, CInv
<1>4. /\ pc[t] = "body" /\ UNCHANGED <<state, held>>
      /\ calls' = [calls EXCEPT ![t] = Body(list[t].rule, Ordered(list[t])) \o calls[t]]
      /\ Return(t, TRUE, mode = "OPTIMISTIC")
  BY DEF RunBody, store
<1>5. Firing(t) /\ ~Firing(t)'
  <2>1. pc'[t] \in {"check", "ready"}  BY <1>3, <1>4 DEF Return, Jump, TypeOK
  <2> QED  BY <1>4, <2>1 DEF Firing
<1>6. held[t] = {} /\ held'[t] = {}  BY <1>3, <1>4 DEF HoldInv
<1>7. \A s : s \in LiveSet' <=> s \in LiveSet  BY <1>2, <1>4, <1>6, LiveIn
<1>8. LiveSet' = LiveSet  BY <1>7 DEF LiveSet
<1>9. GoesBack(t)' = GoesBack(t)  BY <1>5, <1>6, Unfired DEF GoesBack
<1>10. CallsDue(t)' = CallsDue(t)
  <2>1. PICK q : q = CallsDue(t)  OBVIOUS
  <2>2. q = Body(list[t].rule, Ordered(list[t])) \o calls[t]  BY <1>5, <2>1 DEF CallsDue
  <2>3. calls'[t] = q  BY <1>3, <1>4, <2>2 DEF TypeOK
  <2>4. CallsDue(t)' = << >> \o q  BY <1>5, <2>3, Unfired
  <2>5. q \in Seq(Call)
    <3>1. calls'[t] \in Seq(Call)  BY <1>2 DEF IInv, TypeOK
    <3> QED  BY <2>3, <3>1
  <2> QED  BY <2>1, <2>4, <2>5, ConcatEmptySeq
<1> QED  BY <1>2, <1>8, <1>9, <1>10, IdleShown

LEMMA BagShift ==
  ASSUME NEW A, NEW B, NEW C, IsABag(A), IsABag(B), IsABag(C)
  PROVE  A (+) (B (+) C) = (A (+) B) (+) C
<1>1. /\ IsABag(A (+) B) /\ IsABag(B (+) C)
      /\ \A e : Copies(A (+) B, e) = Copies(A, e) + Copies(B, e)
      /\ \A e : Copies(B (+) C, e) = Copies(B, e) + Copies(C, e)
  BY BagUnionCopies
<1>2. PICK x, y : x = A (+) B /\ y = B (+) C  OBVIOUS
<1>3. /\ IsABag(x (+) C) /\ IsABag(A (+) y)
      /\ \A e : Copies(x (+) C, e) = Copies(x, e) + Copies(C, e)
      /\ \A e : Copies(A (+) y, e) = Copies(A, e) + Copies(y, e)
  BY <1>1, <1>2, BagUnionCopies
<1>4. \A e : Copies(A, e) \in Nat /\ Copies(B, e) \in Nat /\ Copies(C, e) \in Nat
  BY DEF IsABag, Copies
<1>5. \A e : Copies(x (+) C, e) = Copies(A (+) y, e)  BY <1>1, <1>2, <1>3, <1>4
<1>6. x (+) C = A (+) y  BY <1>3, <1>5, BagEqual
<1> QED  BY <1>2, <1>6

\* A kept constraint goes back: it is entered again.
LEMMA BackShown ==
  ASSUME IInv, IInv', con' = con, Due' = Due, NEW s \in Known, s \in Back, s \notin LiveSet,
         Back' = Back \ {s}, LiveSet' = LiveSet \cup {s}
  PROVE  Abstract!Next
<1>1. PICK A, B, D, q, c : /\ A = LiveSet /\ B = Back \ {s} /\ D = con /\ q = Due /\ c = con[s]  OBVIOUS
<1>2. IsFiniteSet(LiveSet) /\ IsFiniteSet(Back) /\ Due \in [Thread -> Seq(Call)] /\ IsABag(Owed')
  BY SightBags
<1>3. IsFiniteSet(A) /\ IsFiniteSet(B) /\ IsFiniteSet({s}) /\ q \in [Thread -> Seq(Call)]
  <2>1. B \in SUBSET Back  BY <1>1
  <2> QED  BY <1>1, <1>2, <2>1, FS_Subset, FS_Singleton
<1>4. Bagged({s}, D) = SetToBag({c})  BY <1>1, BaggedOne
<1>5. Live' = Live (+) SetToBag({c})
  <2>1. Live' = Bagged(A \cup {s}, D) /\ Live = Bagged(A, D)  BY <1>1, SightIs
  <2>2. A \cap {s} = {}  BY <1>1
  <2>3. Bagged(A \cup {s}, D) = Bagged(A, D) (+) Bagged({s}, D)  BY <1>3, <2>2, BaggedUnion
  <2> QED  BY <1>4, <2>1, <2>3
<1>6. Owed = Owed' (+) SetToBag({c})
  <2>1. PICK x, y, z : x = Tally(Thread, q) /\ y = Bagged(B, D) /\ z = SetToBag({c})  OBVIOUS
  <2>2. IsABag(x) /\ IsABag(y) /\ IsABag(z)
    BY <1>3, <2>1, TallyBag, SetBagCopies, BaggedCopies
  <2>3. Bagged(B \cup {s}, D) = y (+) z
    <3>1. B \cap {s} = {}  BY <1>1
    <3>2. Bagged(B \cup {s}, D) = Bagged(B, D) (+) Bagged({s}, D)  BY <1>3, <3>1, BaggedUnion
    <3> QED  BY <1>4, <2>1, <3>2
  <2>4. Back = B \cup {s}  BY <1>1
  <2>5. Owed = x (+) (y (+) z)  BY <1>1, <2>1, <2>3, <2>4, SightIs
  <2>6. Owed' = x (+) y  BY <1>1, <2>1, SightIs
  <2>7. x (+) (y (+) z) = (x (+) y) (+) z  BY <2>2, BagShift
  <2> QED  BY <2>1, <2>5, <2>6, <2>7
<1> QED  BY <1>2, <1>5, <1>6, DeliverShown

\* A consumption shows nothing; what is kept goes back to PENDING, and is live again.
LEMMA ConsumeShown ==
  ASSUME RInv, NEW t \in Thread, Consume(t)
  PROVE  Abstract!Next
<1>1. Trying(t) /\ CInv /\ EnterInv  BY DEF Trying, RInv
<1>2. /\ IInv /\ IInv' /\ con' = con /\ Known' = Known /\ Grown
      /\ \A x : Entered(x)' <=> Entered(x)
      /\ \A u \in Thread \ {t} : /\ Firing(u)' <=> Firing(u)
                                 /\ held'[u] = held[u]
                                 /\ CallsDue(u)' = CallsDue(u) /\ GoesBack(u)' = GoesBack(u)
  BY <1>1, TryOthers
<1>3. TypeOK /\ HoldInv(t) /\ HeldInv /\ PlaceInv(t) /\ Known \subseteq Status
  BY <1>1, <1>2, Stati DEF IInv, CInv
<1>4. PICK l, q, i, s : l = list[t] /\ q = Settled(l) /\ i = cur[t].at /\ s = q[i]  OBVIOUS
<1>5. pc[t] = "consume" /\ calls' = calls  BY DEF Consume
<1>6. Sound(l) /\ i \in DOMAIN q /\ s \in Known
  <2>1. Sound(l) /\ i \in DOMAIN q  BY <1>3, <1>4, <1>5 DEF PlaceInv, Listed
  <2>2. q \in Seq(Known)  BY <1>4, <2>1, Firsts
  <2> QED  BY <1>4, <2>1, <2>2, LenProperties, ElementOfSeq
<1>7. list'[t] = l /\ pc'[t] \in {"consume", "body"}
  <2>1. \E p \in {"consume", "body"} : \E c : Move(t, p, l, c)  BY <1>4 DEF Consume, Search
  <2> QED  BY <1>3, <2>1, Moved
<1>8. Firing(t) /\ Firing(t)'  BY <1>5, <1>7 DEF Firing
<1>9. \A u \in Thread : Firing(u)' <=> Firing(u)  BY <1>2, <1>8
<1>10. held'[t] = held[t] \ {s} /\ \A u \in Thread \ {t} : held'[u] = held[u]
  <2>1. held' = [held EXCEPT ![t] = @ \ {s}]  BY <1>4 DEF Consume
  <2> QED  BY <1>3, <2>1 DEF TypeOK
<1>11. CallsDue(t)' = CallsDue(t) /\ Due' = Due
  <2>1. Sound(l) /\ Complete(l.rule, l.m)  BY <1>3, <1>4, <1>5, <1>6 DEF PlaceInv
  <2>2. Ordered(l)' = Ordered(l)  BY <1>2, <2>1, OrderedStable
  <2>3. CallsDue(t) = Body(l.rule, Ordered(l)) \o calls[t]  BY <1>4, <1>8 DEF CallsDue
  <2>4. CallsDue(t)' = Body(l.rule, Ordered(l)') \o calls'[t]  BY <1>7, <1>8 DEF CallsDue
  <2>5. CallsDue(t)' = CallsDue(t)  BY <1>5, <2>2, <2>3, <2>4
  <2> QED  BY <1>2, <2>5 DEF Due
<1>12. /\ GoesBack(t) = IF Rules[l.rule].simpagation THEN held[t] \ In(l.eat) ELSE {}
       /\ GoesBack(t)' = IF Rules[l.rule].simpagation THEN (held[t] \ {s}) \ In(l.eat) ELSE {}
  <2>1. GoesBack(t)' = IF Rules[l.rule].simpagation THEN held'[t] \ In(l.eat) ELSE {}
    BY <1>7, <1>8 DEF GoesBack, In
  <2> QED  BY <1>4, <1>8, <1>10, <2>1 DEF GoesBack
<1>13. \A x : x \in Back' <=> x \in GoesBack(t)' \/ \E u \in Thread \ {t} : x \in GoesBack(u)
  <2>1. \A x : x \in Back' <=> \E u \in Thread : x \in GoesBack(u)'  BY DEF Back
  <2> QED  BY <1>2, <2>1
<1>14. \A x : x \in Back <=> x \in GoesBack(t) \/ \E u \in Thread \ {t} : x \in GoesBack(u)
  BY DEF Back
<1>15. CASE s \notin held[t]
  <2>1. state' = state
    <3>1. state[s] # "CLAIMED"
      <4>1. s \in held[t] \/ state[s] = "CONSUMED"
        <5>1. i \in Nat
          <6>1. q \in Seq(Known)  BY <1>4, <1>6, Firsts
          <6> QED  BY <1>6, <6>1, LenProperties
        <5>2. i >= i  BY <5>1
        <5> QED  BY <1>3, <1>4, <1>5, <1>6, <5>2 DEF HoldInv
      <4> QED  BY <1>15, <4>1
    <3> QED  BY <1>4, <3>1 DEF Consume
  <2>2. held'[t] = held[t] /\ GoesBack(t)' = GoesBack(t)  BY <1>10, <1>12, <1>15
  <2>3. \A u \in Thread : held'[u] = held[u]  BY <1>10, <2>2
  <2>4. \A x : x \in LiveSet' <=> x \in LiveSet  BY <1>2, <1>9, <2>1, <2>3, LiveIn
  <2>5. LiveSet' = LiveSet  BY <2>4 DEF LiveSet
  <2>6. \A u \in Thread : CallsDue(u)' = CallsDue(u) /\ GoesBack(u)' = GoesBack(u)
    BY <1>2, <1>11, <2>2
  <2> QED  BY <1>2, <2>5, <2>6, IdleShown
<1>16. CASE s \in held[t]
  <2>1. state[s] = "CLAIMED" /\ \A u \in Thread \ {t} : s \notin held[u]
    BY <1>3, <1>6, <1>16 DEF HeldInv
  <2>2. s \notin LiveSet  BY <1>8, <1>16, LiveIn
  <2>3. \A x \in Status : x # s => state'[x] = state[x]
    BY <1>3, <1>4 DEF Consume, Set, TypeOK
  <2>4. state'[s] = IF Consumes(l, i) THEN "CONSUMED" ELSE "PENDING"
    <3>1. Set(s, IF Consumes(l, i) THEN "CONSUMED" ELSE "PENDING")  BY <1>4, <2>1 DEF Consume
    <3>2. s \in Status  BY <1>3, <1>6
    <3> QED  BY <1>3, <3>1, <3>2 DEF Set, TypeOK
  <2>5. \A x : x # s => (x \in LiveSet' <=> x \in LiveSet)
    <3>1. \A x : x # s => \A u \in Thread : x \in held'[u] <=> x \in held[u]  BY <1>10
    <3>2. \A x \in Known : x # s => state'[x] = state[x]  BY <1>3, <2>3
    <3> QED  BY <1>2, <1>9, <3>1, <3>2, LiveIn
  <2>6. CASE Consumes(l, i)
    <3>1. s \notin LiveSet'  BY <2>4, <2>6, LiveIn
    <3>2. \A x : x \in LiveSet' <=> x \in LiveSet  BY <2>2, <2>5, <3>1
    <3>3. LiveSet' = LiveSet  BY <3>2 DEF LiveSet
    <3>4. Rules[l.rule].simpagation => s \in In(l.eat)
      <4> SUFFICES ASSUME Rules[l.rule].simpagation PROVE s \in In(l.eat)  OBVIOUS
      <4>1. l.eat \in Seq(Known) /\ l.used \in Seq(Known)  BY <1>6 DEF Sound, UseList
      <4>2. q = l.eat \o l.used /\ i <= Len(l.eat)  BY <1>4, <2>6 DEF Settled, Consumes
      <4>3. /\ DOMAIN q = 1..(Len(l.eat) + Len(l.used)) /\ Len(l.eat) \in Nat /\ Len(l.used) \in Nat
            /\ DOMAIN l.eat = 1..Len(l.eat)
        BY <4>1, <4>2, LenProperties, ConcatProperties
      <4>4. i \in DOMAIN l.eat  BY <1>6, <4>2, <4>3
      <4>5. q[i] = l.eat[i]
        <5>1. i \in 1..(Len(l.eat) + Len(l.used)) /\ i <= Len(l.eat)  BY <1>6, <4>2, <4>3
        <5> QED  BY <4>1, <4>2, <5>1, ConcatProperties
      <4> QED  BY <1>4, <4>4, <4>5 DEF In
    <3>5. GoesBack(t)' = GoesBack(t)  BY <1>12, <3>4
    <3>6. \A u \in Thread : CallsDue(u)' = CallsDue(u) /\ GoesBack(u)' = GoesBack(u)
      BY <1>2, <1>11, <3>5
    <3> QED  BY <1>2, <3>3, <3>6, IdleShown
  <2>7. CASE ~Consumes(l, i)
    <3>1. Rules[l.rule].simpagation /\ ~(i <= Len(l.eat))  BY <2>7 DEF Consumes
    <3>2. s \notin In(l.eat)
      <4> SUFFICES ASSUME s \in In(l.eat) PROVE FALSE  OBVIOUS
      <4>1. PICK j \in DOMAIN l.eat : j >= i  BY <1>3, <1>4, <1>5, <1>16, <3>1 DEF HoldInv
      <4>2. l.eat \in Seq(Known) /\ q \in Seq(Known)
        <5>1. l.eat \in Seq(Known)  BY <1>6 DEF Sound, UseList
        <5> QED  BY <1>4, <1>6, <5>1, Firsts
      <4>3. /\ DOMAIN l.eat = 1..Len(l.eat) /\ Len(l.eat) \in Nat /\ i \in Nat
        BY <1>6, <4>2, LenProperties
      <4> QED  BY <3>1, <4>1, <4>3
    <3>3. s \in GoesBack(t) /\ GoesBack(t)' = GoesBack(t) \ {s}  BY <1>12, <1>16, <3>1, <3>2
    <3>4. \A u \in Thread \ {t} : s \notin GoesBack(u)  BY <2>1 DEF GoesBack
    <3>5. \A x : x \in Back' <=> x \in Back /\ x # s  BY <1>13, <1>14, <3>3, <3>4
    <3>6. s \in Back /\ Back' = Back \ {s}
      <4>1. s \in Back  BY <1>14, <3>3
      <4> QED  BY <3>5, <4>1 DEF Back
    <3>7. s \in LiveSet'
      <4>1. Entered(s)  BY <1>1, <2>1 DEF EnterInv, Found, Entered
      <4>2. \A u \in Thread : s \notin held'[u]  BY <1>10, <2>1
      <4>3. state'[s] = "PENDING"  BY <2>4, <2>7
      <4> QED  BY <1>2, <1>6, <4>1, <4>2, <4>3, LiveIn
    <3>8. \A x : x \in LiveSet' <=> x \in LiveSet \/ x = s  BY <2>5, <3>7
    <3>9. LiveSet' = LiveSet \cup {s}  BY <3>8 DEF LiveSet
    <3> QED  BY <1>2, <1>6, <1>11, <2>2, <3>6, <3>9, BackShown
  <2> QED  BY <2>6, <2>7
<1> QED  BY <1>15, <1>16

(***************************************************************************)
(* A rule fires: what it claimed matches its heads, each once.             *)
(***************************************************************************)
Picture(f, H) == {f[h] : h \in H}
Reordered(H, p, m) == \A s : Cardinality(Fiber(H, p, s)) = Cardinality(Fiber(H, m, s))

LEMMA FiberOne ==
  ASSUME NEW H, IsFiniteSet(H), NEW m, Injective(m, H), NEW p, Reordered(H, p, m)
  PROVE  Injective(p, H) /\ Picture(p, H) = Picture(m, H)
<1>1. ASSUME NEW s PROVE IsFiniteSet(Fiber(H, p, s))
  <2>1. Fiber(H, p, s) \in SUBSET H  BY DEF Fiber
  <2> QED  BY <2>1, FS_Subset
<1>2. ASSUME NEW h \in H PROVE \E x : Fiber(H, p, m[h]) = {x}
  <2>1. PICK s : s = m[h]  OBVIOUS
  <2>2. Fiber(H, m, s) = {h}  BY <2>1 DEF Fiber, Injective
  <2>3. Cardinality(Fiber(H, p, s)) = 1  BY <2>2, FS_Singleton DEF Reordered
  <2>4. \E x : Fiber(H, p, s) = {x}  BY <1>1, <2>3, FS_Singleton
  <2> QED  BY <2>1, <2>4
<1>3. ASSUME NEW h \in H PROVE \E k \in H : p[h] = m[k]
  <2>1. PICK s : s = p[h]  OBVIOUS
  <2>2. SUFFICES ASSUME \A k \in H : s # m[k] PROVE FALSE  BY <2>1
  <2>3. Fiber(H, m, s) = {}  BY <2>2 DEF Fiber
  <2>4. Cardinality(Fiber(H, p, s)) = 0  BY <2>3, FS_EmptySet DEF Reordered
  <2>5. Fiber(H, p, s) = {}  BY <1>1, <2>4, FS_EmptySet
  <2> QED  BY <2>1, <2>5 DEF Fiber
<1>4. Picture(p, H) = Picture(m, H)
  <2>1. \A h \in H : \E x \in H : p[x] = m[h]  BY <1>2 DEF Fiber
  <2> QED  BY <1>3, <2>1 DEF Picture
<1>5. ASSUME NEW g \in H, NEW h \in H, p[g] = p[h] PROVE g = h
  <2>1. PICK k \in H : p[g] = m[k]  BY <1>3
  <2>2. PICK x : Fiber(H, p, m[k]) = {x}  BY <1>2
  <2>3. g \in Fiber(H, p, m[k]) /\ h \in Fiber(H, p, m[k])  BY <1>5, <2>1 DEF Fiber
  <2> QED  BY <2>2, <2>3
<1> QED  BY <1>4, <1>5 DEF Injective

\* What a list in use fires with: p is the order the body gets it in.
Fires(l, p) ==
  /\ l.rule \in RuleId /\ p \in [Heads(l.rule) -> Known] /\ Injective(p, Heads(l.rule))
  /\ {p[h] : h \in Heads(l.rule)} = In(l.used)
  /\ Ordered(l) = [h \in Heads(l.rule) |-> con[p[h]]]
  /\ Abstract!Matches(l.rule, Ordered(l))
  /\ Rules[l.rule].simpagation =>
       In(l.eat) = {p[h] : h \in {g \in Heads(l.rule) : g > Rules[l.rule].keep}}

\* Every head of a complete match has a constraint of its own.
LEMMA MatchOnce ==
  ASSUME RInv, NEW l, Sound(l), Exact(l), Complete(l.rule, l.m), Injective(l.used, DOMAIN l.used)
  PROVE  /\ Injective(l.m, Heads(l.rule))
         /\ {l.m[h] : h \in Heads(l.rule)} = In(l.used)
<1>1. PICK H, m, u, T : H = Heads(l.rule) /\ m = l.m /\ u = l.used /\ T = In(u)  OBVIOUS
<1>2. Matched(l.rule, l.m) = H  BY <1>1 DEF Complete
<1>3. IsFiniteSet(H)  BY <1>1, HeadNumbers DEF Sound
<1>4. T = {m[h] : h \in H}  BY <1>1, <1>2 DEF Sound
<1>5. u \in Seq(Known) /\ Len(u) = Cardinality(H)  BY <1>1, <1>2 DEF Sound, Exact, UseList
<1>6. DOMAIN u = 1..Len(u) /\ Len(u) \in Nat  BY <1>5, LenProperties
<1>7. IsFiniteSet(DOMAIN u) /\ Cardinality(DOMAIN u) = Len(u)
  <2>1. PICK n : n = Len(u)  OBVIOUS
  <2>2. 1 \in Int /\ n \in Int /\ n \in Nat  BY <1>6, <2>1
  <2>3. IsFiniteSet(1..n) /\ Cardinality(1..n) = IF 1 > n THEN 0 ELSE n - 1 + 1
    BY <2>2, FS_Interval
  <2>4. (IF 1 > n THEN 0 ELSE n - 1 + 1) = n  BY <2>2
  <2> QED  BY <1>6, <2>1, <2>3, <2>4
<1>8. IsFiniteSet(T) /\ Cardinality(T) = Cardinality(H)
  <2> DEFINE f == [i \in DOMAIN u |-> u[i]]
  <2>1. f \in [DOMAIN u -> T] /\ \A y \in T : \E x \in DOMAIN u : f[x] = y  BY <1>1 DEF In
  <2>2. \A x, y \in DOMAIN u : f[x] = f[y] => x = y  BY <1>1 DEF Injective
  <2> HIDE DEF f
  <2>3. IsFiniteSet(T) /\ Cardinality(DOMAIN u) = Cardinality(T)  BY <1>7, <2>1, <2>2, Paired
  <2> QED  BY <1>5, <1>7, <2>3
<1>9. Injective(m, H)
  <2> DEFINE g == [h \in H |-> m[h]]
  <2>1. g \in Surjection(H, T)  BY <1>4 DEF Surjection
  <2>2. (\A x, y \in H : g[x] = g[y] => x = y) => Injective(m, H)  BY DEF Injective
  <2> HIDE DEF g
  <2>3. g \in Injection(H, T)  BY <1>3, <1>8, <2>1, FS_Surjection
  <2> QED  BY <2>2, <2>3 DEF Injection, IsInjective
<1> QED  BY <1>1, <1>4, <1>9

LEMMA FiresExists ==
  ASSUME RInv, NEW l, Sound(l), Faithful(l), Complete(l.rule, l.m), Injective(l.used, DOMAIN l.used)
  PROVE  \E p : Fires(l, p)
<1>1. PICK r, m, p, H : r = l.rule /\ m = l.m /\ p = ById(r, m) /\ H = Heads(r)  OBVIOUS
<1>2. FaithfulRule(mode, r) /\ Exact(l)  BY <1>1, MatchExact
<1>3. Known \subseteq Nat \ {None} /\ Known \in SUBSET Nat  BY Stati DEF RInv, CInv, IInv
<1>4. r \in RuleId /\ m \in Match(r, Known) /\ Named(r, m) /\ Complete(r, m)  BY <1>1 DEF Sound
<1>5. p \in Match(r, Known) /\ Named(r, p) /\ Complete(r, p)  BY <1>1, <1>3, <1>4, ByIdMatch
<1>6. p \in [H -> Known]  BY <1>1, <1>5 DEF Match, Complete, Matched
<1>7. Injective(m, H) /\ {m[h] : h \in H} = In(l.used)  BY <1>1, <1>2, MatchOnce
<1>8. IsFiniteSet(H)  BY <1>1, <1>4, HeadNumbers
<1>9. Injective(p, H) /\ {p[h] : h \in H} = In(l.used)
  <2>1. Reordered(H, p, m)  BY <1>1, <1>3, <1>4, ByIdPermutes DEF Reordered
  <2>2. Injective(m, H)  BY <1>7
  <2>3. Injective(p, H) /\ Picture(p, H) = Picture(m, H)  BY <1>8, <2>1, <2>2, FiberOne
  <2> QED  BY <1>7, <2>3 DEF Picture
<1>10. DistinctNames(r) => p = m  BY <1>1, <1>3, <1>4, ByIdDistinct
<1>11. Consistent(r, p)
  <2>1. CASE DistinctNames(r)  BY <1>1, <1>2, <1>10, <2>1 DEF Exact
  <2>2. CASE ~DistinctNames(r)
    <3>1. Rules[r].ignore \/ Separate(r)  BY <1>2, <2>2 DEF FaithfulRule
    <3>2. Separate(r) => Agree(r, p)  BY <1>4, Variables DEF Separate, Agree, Matched
    <3> QED  BY <1>4, <3>1, <3>2, ConsistentIs
  <2> QED  BY <2>1, <2>2
<1>12. PICK cs : cs = [h \in H |-> con[p[h]]]  OBVIOUS
<1>13. Ordered(l) = cs  BY <1>1, <1>12 DEF Ordered
<1>14. Abstract!Matches(r, cs)
  <2>1. p \in [Heads(r) -> Known] /\ cs = [h \in Heads(r) |-> con[p[h]]]  BY <1>1, <1>6, <1>12
  <2> QED  BY <1>3, <1>4, <1>5, <1>11, <2>1, FireMatches
<1>15. Rules[r].simpagation => In(l.eat) = {p[h] : h \in {g \in H : g > Rules[r].keep}}
  <2> SUFFICES ASSUME Rules[r].simpagation
               PROVE  In(l.eat) = {p[h] : h \in {g \in H : g > Rules[r].keep}}
    OBVIOUS
  <2>1. /\ DistinctNames(r)
        /\ In(l.eat) = {m[h] : h \in {g \in Matched(r, m) : g > Rules[r].keep}}
    BY <1>1, <1>2 DEF Exact
  <2>2. Matched(r, m) = H  BY <1>1, <1>4 DEF Complete
  <2> QED  BY <1>10, <2>1, <2>2
<1>16. Fires(l, p)
  BY <1>1, <1>4, <1>6, <1>9, <1>12, <1>13, <1>14, <1>15 DEF Fires
<1> QED  BY <1>16

WellFired ==
  \A t \in Thread : pc[t] = "consume" => \E p : Fires(list[t], p)

LEMMA WellNow == RInv => WellFired
<1> SUFFICES ASSUME RInv, NEW t \in Thread, pc[t] = "consume" PROVE \E p : Fires(list[t], p)
  BY DEF WellFired
<1>1. PICK l : l = list[t]  OBVIOUS
<1>2. PlaceInv(t) /\ HoldInv(t)  BY DEF RInv, CInv, IInv
<1>3. Sound(l) /\ Faithful(l) /\ Complete(l.rule, l.m)  BY <1>1, <1>2 DEF PlaceInv, Listed
<1>4. Injective(l.used, DOMAIN l.used)  BY <1>1, <1>2 DEF HoldInv
<1>5. \E p : Fires(l, p)  BY <1>3, <1>4, FiresExists
<1> QED  BY <1>1, <1>5

LEMMA WellNext == RInv' => WellFired'
BY WellNow, PTL

\* A match that fires: its objects, its kept objects and what its body calls.
Firsthand(t, l, p) ==
  /\ pc'[t] = "consume" /\ list'[t] = l
  /\ l.rule \in RuleId /\ p \in [Heads(l.rule) -> Known] /\ Injective(p, Heads(l.rule))
  /\ held'[t] = {p[h] : h \in Heads(l.rule)}
  /\ GoesBack(t)' = {p[h] : h \in KeptHeads(l.rule)}
  /\ Ordered(l)' = [h \in Heads(l.rule) |-> con[p[h]]]
  /\ Abstract!Matches(l.rule, Ordered(l)')

LEMMA FireBegins ==
  ASSUME RInv, RInv', NEW t \in Thread, Trying(t), ~Firing(t), Firing(t)'
  PROVE  \E l, p : Firsthand(t, l, p)
<1>1. CInv /\ CInv'  BY DEF RInv
<1>2. Nearby(t) /\ con' = con /\ Known' = Known  BY <1>1, TryOthers
<1>3. pc'[t] = "consume" /\ cur'[t].at = 1  BY <1>2 DEF Nearby, Firing
<1>4. PICK l : l = list'[t]  OBVIOUS
<1>5. \E p : Fires(l, p)'  BY <1>3, <1>4, WellNext DEF WellFired
<1>6. PICK p : Fires(l, p)'  BY <1>5
<1>7. held'[t] = In(l.used)
  <2>1. HoldInv(t)'  BY <1>1 DEF CInv
  <2> QED  BY <1>3, <1>4, <2>1 DEF HoldInv, In
<1>8. /\ l.rule \in RuleId /\ p \in [Heads(l.rule) -> Known] /\ Injective(p, Heads(l.rule))
      /\ {p[h] : h \in Heads(l.rule)} = In(l.used)
      /\ Ordered(l)' = [h \in Heads(l.rule) |-> con[p[h]]]
      /\ Rules[l.rule].simpagation =>
           In(l.eat) = {p[h] : h \in {g \in Heads(l.rule) : g > Rules[l.rule].keep}}
  BY <1>2, <1>6 DEF Fires, In, Injective
<1>9. Abstract!Matches(l.rule, Ordered(l)')  BY <1>6 DEF Fires
<1>10. GoesBack(t)' = IF Rules[l.rule].simpagation THEN held'[t] \ In(l.eat) ELSE {}
  BY <1>4 DEF GoesBack, In
<1>11. GoesBack(t)' = {p[h] : h \in KeptHeads(l.rule)}
  <2>1. /\ KeptHeads(l.rule) \in SUBSET Heads(l.rule)
        /\ ~Rules[l.rule].simpagation => KeptHeads(l.rule) = {}
        /\ \A h \in Heads(l.rule) : h \in KeptHeads(l.rule) <=> ~(h > Rules[l.rule].keep)
    BY <1>8, KeptHeadNumbers
  <2>2. CASE ~Rules[l.rule].simpagation  BY <1>10, <2>1, <2>2
  <2>3. CASE Rules[l.rule].simpagation
    <3>1. GoesBack(t)' = {p[h] : h \in Heads(l.rule)}
                           \ {p[h] : h \in {g \in Heads(l.rule) : g > Rules[l.rule].keep}}
      BY <1>7, <1>8, <1>10, <2>3
    <3>2. {g \in Heads(l.rule) : g > Rules[l.rule].keep} = Heads(l.rule) \ KeptHeads(l.rule)  BY <2>1
    <3> QED  BY <1>8, <2>1, <3>1, <3>2 DEF Injective
  <2> QED  BY <2>2, <2>3
<1>12. Firsthand(t, l, p)  BY <1>3, <1>4, <1>7, <1>8, <1>9, <1>11 DEF Firsthand
<1> QED  BY <1>12

\* The objects it takes were live, and those it keeps are to go back.
LEMMA FireObjects ==
  ASSUME RInv, RInv', NEW t \in Thread, Trying(t), ~Firing(t), Firing(t)'
  PROVE  /\ LiveSet = LiveSet' \cup held'[t] /\ LiveSet' \cap held'[t] = {}
         /\ Back' = Back \cup GoesBack(t)' /\ Back \cap GoesBack(t)' = {}
<1>1. CInv /\ EnterInv' /\ HeldInv' /\ IInv'  BY DEF RInv, CInv
<1>2. /\ con' = con /\ Known' = Known
      /\ \A s : Entered(s)' <=> Entered(s)
      /\ \A u \in Thread \ {t} : /\ Firing(u)' <=> Firing(u)
                                 /\ held'[u] = held[u] /\ GoesBack(u)' = GoesBack(u)
  BY <1>1, TryOthers
<1>3. \A s \in Known : state'[s] = "CONSUMED" <=> state[s] = "CONSUMED"
  BY <1>1, NoneConsumed DEF Firing
<1>4. held'[t] \in SUBSET Known  BY <1>1, <1>2 DEF IInv, TypeOK
<1>5. \A s \in held'[t] : state'[s] = "CLAIMED" /\ \A u \in Thread \ {t} : s \notin held'[u]
  BY <1>1, <1>2, <1>4 DEF HeldInv
<1>6. ASSUME NEW s \in held'[t] PROVE s \in LiveSet /\ s \notin LiveSet'
  <2>1. s \in Known /\ state'[s] = "CLAIMED" /\ state[s] # "CONSUMED"  BY <1>3, <1>4, <1>5
  <2>2. Found(s)'  BY <2>1 DEF Found
  <2>3. Entered(s)'  BY <1>1, <2>2 DEF EnterInv, Entered, Found
  <2>4. \A u \in Thread : Firing(u) => s \notin held[u]  BY <1>2, <1>5
  <2> QED  BY <1>2, <2>1, <2>3, <2>4, LiveIn
<1>7. ASSUME NEW s, s \notin held'[t] PROVE s \in LiveSet' <=> s \in LiveSet
  BY <1>2, <1>3, <1>7, LiveIn
<1>8. LiveSet = LiveSet' \cup held'[t] /\ LiveSet' \cap held'[t] = {}
  <2>1. PICK A, B, C : A = LiveSet /\ B = LiveSet' /\ C = held'[t]  OBVIOUS
  <2>2. \A s : (s \in C => s \in A /\ s \notin B) /\ (s \notin C => (s \in B <=> s \in A))
    BY <1>6, <1>7, <2>1
  <2>3. A = B \cup C /\ B \cap C = {}  BY <2>1, <2>2 DEF LiveSet
  <2> QED  BY <2>1, <2>3
<1>9. GoesBack(t) = {}  BY Unfired
<1>10. \A u \in Thread : GoesBack(u) \subseteq held[u] /\ GoesBack(u)' \subseteq held'[u]  BY DEF GoesBack
<1>11. ASSUME NEW s \in Back PROVE s \notin GoesBack(t)' /\ s \in Back'
  <2>1. PICK u \in Thread : s \in GoesBack(u)  BY <1>11 DEF Back
  <2>2. u # t /\ s \in held'[u] /\ s \in GoesBack(u)'  BY <1>2, <1>9, <1>10, <2>1
  <2> QED  BY <1>5, <1>10, <2>2 DEF Back
<1>12. ASSUME NEW s \in Back' PROVE s \in Back \/ s \in GoesBack(t)'
  <2>1. PICK u \in Thread : s \in GoesBack(u)'  BY <1>12 DEF Back
  <2> QED  BY <1>2, <2>1 DEF Back
<1>13. \A s \in GoesBack(t)' : s \in Back'  BY DEF Back
<1> QED  BY <1>8, <1>11, <1>12, <1>13

\* Its body's calls are due.
LEMMA FireDue ==
  ASSUME RInv, RInv', NEW t \in Thread, Trying(t), ~Firing(t), Firing(t)',
         NEW l, NEW p, Firsthand(t, l, p), NEW b, b = Body(l.rule, Ordered(l)')
  PROVE  /\ Due \in [Thread -> Seq(Call)] /\ Due' \in [Thread -> Seq(Call)] /\ b \in Seq(Call)
         /\ OnlyOf(Due, Due', t) /\ Due'[t] = b \o Due[t]
<1>1. CInv /\ IInv /\ IInv'  BY DEF RInv, CInv
<1>2. \A u \in Thread \ {t} : CallsDue(u)' = CallsDue(u)  BY <1>1, TryOthers
<1>3. OnlyOf(Due, Due', t)  BY <1>2 DEF OnlyOf, OnlyAt, Due
<1>4. calls' = calls  BY <1>1, TryState DEF Firing
<1>5. Due[t] = calls[t]
  <2>1. CallsDue(t) = << >> \o calls[t]  BY Unfired
  <2>2. calls[t] \in Seq(Call)  BY <1>1 DEF IInv, TypeOK
  <2> QED  BY <2>1, <2>2, ConcatEmptySeq DEF Due
<1>6. Due'[t] = b \o calls[t]
  <2>1. CallsDue(t)' = Body(l.rule, Ordered(l)') \o calls'[t]  BY DEF CallsDue, Firsthand
  <2> QED  BY <1>4, <2>1 DEF Due
<1>7. b \in Seq(Call)
  <2>1. PICK cs : cs = Ordered(l)'  OBVIOUS
  <2>2. /\ l.rule \in RuleId /\ p \in [Heads(l.rule) -> Known]
        /\ cs = [h \in Heads(l.rule) |-> con[p[h]]] /\ Abstract!Matches(l.rule, cs)
    BY <2>1 DEF Firsthand
  <2>3. con \in [Known -> Con]
    <3>1. con \in Seq(Con)  BY <1>1 DEF IInv, TypeOK
    <3> QED  BY <3>1, LenProperties DEF Known
  <2>4. cs \in [Heads(l.rule) -> Con]  BY <2>2, <2>3
  <2>5. \A h \in Heads(l.rule) : cs[h].name = HeadName(l.rule, h)
    BY <2>2 DEF Abstract!Matches, Heads, HeadName
  <2>6. Body(l.rule, cs) \in Seq({k \in Call : k.op # "sync"})
    BY <2>2, <2>4, <2>5, UncountedAssumption
  <2>7. {k \in Call : k.op # "sync"} \subseteq Call  BY DEF Call
  <2> QED  BY <2>1, <2>6, <2>7, SeqMonotonic
<1>8. Due \in [Thread -> Seq(Call)] /\ Due' \in [Thread -> Seq(Call)]
  BY <1>1, SightTypesNow, SightTypesNext DEF SightTypes
<1> QED  BY <1>3, <1>5, <1>6, <1>7, <1>8

\* The constraints of the kept heads.
LEMMA KeptFirst ==
  ASSUME NEW r \in RuleId, NEW cs, DOMAIN cs = Heads(r)
  PROVE  SubSeq(cs, 1, Rules[r].keep) = [h \in KeptHeads(r) |-> cs[h]]
<1>1. PICK n, w : n = Rules[r].keep /\ w = SubSeq(cs, 1, n)  OBVIOUS
<1>2. n \in Nat /\ KeptHeads(r) = 1..n /\ KeptHeads(r) \in SUBSET Heads(r)
  BY <1>1, KeptHeadNumbers DEF KeptHeads
<1>3. \A i \in 1..n : cs[i] \in Range(cs)  BY <1>2 DEF Range
<1>4. 1 \in Int /\ n \in Int  BY <1>2
<1>5. /\ w \in Seq(Range(cs))
      /\ Len(w) = (IF 1 <= n THEN n - 1 + 1 ELSE 0)
      /\ \A i \in 1..(n - 1 + 1) : w[i] = cs[1 + i - 1]
  BY <1>1, <1>3, <1>4, SubSeqProperties
<1>6. Len(w) = n  BY <1>2, <1>5
<1>7. n - 1 + 1 = n /\ \A i \in 1..n : 1 + i - 1 = i  BY <1>2
<1>8. w \in [1..n -> Range(cs)] /\ \A i \in 1..n : w[i] = cs[i]  BY <1>5, <1>6, <1>7, LenProperties
<1>9. w = [h \in 1..n |-> w[h]]  BY <1>8
<1> QED  BY <1>1, <1>2, <1>8, <1>9

\* So a match fires in one step of the rewriting: when it is found complete and claimed.
LEMMA FireShown ==
  ASSUME RInv, RInv', NEW t \in Thread, Trying(t), ~Firing(t), Firing(t)'
  PROVE  Abstract!Next
<1>1. CInv /\ IInv /\ IInv' /\ con' = con  BY TryOthers DEF RInv, CInv
<1>2. PICK l, p : Firsthand(t, l, p)  BY FireBegins
<1>3. PICK r, cs, b : r = l.rule /\ cs = Ordered(l)' /\ b = Body(r, cs)  OBVIOUS
<1>4. PICK A, B, K, G, D, q, d : /\ A = LiveSet' /\ B = held'[t] /\ K = Back /\ G = GoesBack(t)'
                                 /\ D = con /\ q = Due /\ d = Due'
  OBVIOUS
<1>5. /\ r \in RuleId /\ p \in [Heads(r) -> Known] /\ Injective(p, Heads(r))
      /\ B = {p[h] : h \in Heads(r)} /\ G = {p[h] : h \in KeptHeads(r)}
      /\ cs = [h \in Heads(r) |-> D[p[h]]] /\ Abstract!Matches(r, cs)
  BY <1>2, <1>3, <1>4 DEF Firsthand
<1>6. /\ LiveSet = A \cup B /\ A \cap B = {} /\ Back' = K \cup G /\ K \cap G = {}
  BY <1>4, FireObjects
<1>7. /\ q \in [Thread -> Seq(Call)] /\ d \in [Thread -> Seq(Call)] /\ b \in Seq(Call)
      /\ OnlyOf(q, d, t) /\ d[t] = b \o q[t]
  BY <1>2, <1>3, <1>4, FireDue
<1>8. IsFiniteSet(A) /\ IsFiniteSet(K) /\ IsFiniteSet(Heads(r))
  BY <1>1, <1>4, <1>5, SightBags, HeadNumbers
<1>9. KeptHeads(r) \in SUBSET Heads(r) /\ IsFiniteSet(KeptHeads(r))
  <2>1. KeptHeads(r) \in SUBSET Heads(r)  BY <1>5, KeptHeadNumbers
  <2> QED  BY <1>8, <2>1, FS_Subset
<1>10. BagOf(cs) = Bagged(B, D) /\ IsFiniteSet(B)  BY <1>5, <1>8, BaggedHeads
<1>11. PICK w : w = SubSeq(cs, 1, Rules[r].keep)  OBVIOUS
<1>12. BagOf(w) = Bagged(G, D) /\ IsFiniteSet(G)
  <2>1. w = [h \in KeptHeads(r) |-> D[p[h]]]  BY <1>5, <1>9, <1>11, KeptFirst
  <2>2. Injective(p, KeptHeads(r))  BY <1>5, <1>9 DEF Injective
  <2> QED  BY <1>5, <1>9, <2>1, <2>2, BaggedHeads
<1>13. PICK x, y : x = Bagged(A, D) /\ y = Bagged(B, D)  OBVIOUS
<1>14. IsABag(x) /\ IsABag(y)  BY <1>8, <1>10, <1>13, BaggedCopies
<1>15. Live = x (+) y /\ Live' = x
  <2>1. Live = Bagged(A \cup B, D) /\ Live' = Bagged(A, D)  BY <1>1, <1>4, <1>6, SightIs
  <2>2. Bagged(A \cup B, D) = Bagged(A, D) (+) Bagged(B, D)  BY <1>6, <1>8, <1>10, BaggedUnion
  <2> QED  BY <1>13, <2>1, <2>2
<1>16. BagOf(cs) \sqsubseteq Live /\ Live' = Live (-) BagOf(cs) /\ DOMAIN BagOf(cs) \subseteq DOMAIN Live
  <2>1. (x (+) y) (-) y = x /\ y \sqsubseteq (x (+) y) /\ DOMAIN y \subseteq DOMAIN (x (+) y)
    BY <1>14, BagTaken
  <2> QED  BY <1>10, <1>13, <1>15, <2>1
<1>17. cs \in [Heads(r) -> DOMAIN Live]
  <2>1. DOMAIN cs = Heads(r)  BY <1>5
  <2>2. DOMAIN BagOf(cs) = {cs[h] : h \in Heads(r)}  BY <2>1, BagOfIs
  <2>3. \A h \in Heads(r) : cs[h] \in DOMAIN Live  BY <1>16, <2>2
  <2> QED  BY <1>5, <2>3
<1>18. PICK T, F, Y, Z : /\ T = Tally(Thread, q) /\ F = BagOf([i \in DOMAIN b |-> b[i].con])
                         /\ Y = Bagged(K, D) /\ Z = Bagged(G, D)
  OBVIOUS
<1>19. Tally(Thread, d) = T (+) F /\ IsABag(F)  BY <1>7, <1>18, TallyConcat
<1>20. IsABag(T) /\ IsABag(Y) /\ IsABag(Z)  BY <1>7, <1>8, <1>12, <1>18, TallyBag, BaggedCopies
<1>21. Owed' = (T (+) F) (+) (Y (+) Z)
  <2>1. Owed' = Tally(Thread, d) (+) Bagged(K \cup G, D)  BY <1>1, <1>4, <1>6, SightIs
  <2>2. Bagged(K \cup G, D) = Bagged(K, D) (+) Bagged(G, D)  BY <1>6, <1>8, <1>12, BaggedUnion
  <2> QED  BY <1>18, <1>19, <2>1, <2>2
<1>22. Owed = T (+) Y  BY <1>4, <1>18, SightIs
<1>23. Owed' = (Owed (+) F) (+) BagOf(w)
  <2>1. IsABag(T (+) F)  BY <1>19, <1>20, BagUnionCopies
  <2>2. (T (+) F) (+) (Y (+) Z) = ((T (+) F) (+) Y) (+) Z  BY <1>20, <2>1, BagShift
  <2>3. (T (+) F) (+) Y = (T (+) Y) (+) F  BY <1>19, <1>20, BagSwap
  <2> QED  BY <1>12, <1>18, <1>21, <1>22, <2>2, <2>3
<1>24. Owed' = (Owed (+) BagOf([i \in DOMAIN Body(r, cs) |-> Body(r, cs)[i].con]))
                 (+) BagOf(SubSeq(cs, 1, Rules[r].keep))
  BY <1>3, <1>11, <1>18, <1>23
<1> QED  BY <1>5, <1>16, <1>17, <1>24, FireIs

(***************************************************************************)
(* Together: the engine implements the rewriting.                          *)
(***************************************************************************)
LEMMA TryingShown ==
  ASSUME RInv, RInv', NEW t \in Thread, Trying(t)
  PROVE  Abstract!Next
<1>1. CInv /\ CInv'  BY DEF RInv
<1>2. CASE pc[t] = "consume"  BY <1>2, TryPlace, ConsumeShown
<1>3. CASE pc[t] = "body"  BY <1>1, <1>3, TryPlace, BodyShown
<1>4. CASE pc[t] \notin {"consume", "body"}
  <2>1. ~Firing(t)  BY <1>4 DEF Firing
  <2> QED  BY <1>1, <2>1, FireShown, SearchShown
<1> QED  BY <1>2, <1>3, <1>4

LEMMA StutterShown ==
  ASSUME IInv, UNCHANGED vars PROVE Abstract!Next
<1>1. UNCHANGED <<con, state, pc, calls, new, list, held>>
  BY DEF vars, store, local, search
<1>2. Known' = Known /\ Grown  BY <1>1, SameTypes
<1>3. \A u \in Thread : Firing(u)' <=> Firing(u)  BY <1>1 DEF Firing
<1>4. \A s : Entered(s)' <=> Entered(s)  BY <1>1 DEF Entered
<1>5. \A s : s \in LiveSet' <=> s \in LiveSet  BY <1>1, <1>2, <1>3, <1>4, LiveIn
<1>6. LiveSet' = LiveSet  BY <1>5 DEF LiveSet
<1>7. \A u \in Thread : CallsDue(u)' = CallsDue(u) /\ GoesBack(u)' = GoesBack(u)
  <2> SUFFICES ASSUME NEW u \in Thread PROVE CallsDue(u)' = CallsDue(u) /\ GoesBack(u)' = GoesBack(u)
    OBVIOUS
  <2> QED  BY <1>1, <1>2, <1>3, ShownStable
<1> QED  BY <1>2, <1>6, <1>7, IdleShown

LEMMA NextShown ==
  ASSUME RInv, RInv', [Next]_vars
  PROVE  Abstract!Next
<1>1. CInv /\ IInv /\ IInv'  BY DEF RInv, CInv
<1>2. ASSUME NEW t \in Thread, Adding(t) \/ Looping(t) \/ Driving(t) PROVE Abstract!Next
  BY <1>1, <1>2, CreateShown, InsertShown, CalmShown
<1>3. CASE Terminated \/ UNCHANGED vars  BY <1>1, <1>3, StutterShown DEF Terminated
<1> QED  BY <1>2, <1>3, TryingShown DEF Next, Step

LEMMA NoBag ==
  ASSUME NEW A, IsABag(A), NEW c
  PROVE  A (+) Bagged({}, c) = A /\ Bagged({}, c) = EmptyBag
<1>1. PICK z : z = Bagged({}, c)  OBVIOUS
<1>2. IsFiniteSet({}) /\ Cardinality({}) = 0  BY FS_EmptySet
<1>3. IsABag(z) /\ \A e : Copies(z, e) = 0
  <2>1. \A e : {s \in {} : c[s] = e} = {}  OBVIOUS
  <2> QED  BY <1>1, <1>2, <2>1, BaggedCopies
<1>4. IsABag(A (+) z) /\ \A e : Copies(A (+) z, e) = Copies(A, e) + Copies(z, e)
  BY <1>3, BagUnionCopies
<1>5. \A e : Copies(A, e) \in Nat  BY DEF IsABag, Copies
<1>6. \A e : Copies(A (+) z, e) = Copies(A, e)  BY <1>3, <1>4, <1>5
<1>7. A (+) z = A  BY <1>4, <1>6, BagEqual
<1>8. z = EmptyBag
  <2>1. PICK f : f = [s \in {} |-> c[s]]  OBVIOUS
  <2>2. z = BagOf(f) /\ DOMAIN f = {}  BY <1>1, <2>1 DEF Bagged
  <2>3. BagOf(f) = [v \in {f[i] : i \in DOMAIN f} |-> Cardinality(Where(f, v))]  BY BagOfIs
  <2>4. BagOf(f) = [v \in {} |-> 1] /\ EmptyBag = [v \in {} |-> 1]
    BY <2>2, <2>3 DEF EmptyBag, SetToBag
  <2> QED  BY <2>2, <2>4
<1> QED  BY <1>1, <1>7, <1>8

LEMMA InitRewrites == ASSUME Init PROVE Abstract!Init
<1>1. PICK x \in Setups :
        calls = [t \in Thread |-> IF t \in Client THEN x.script[t] ELSE << >>]
  BY DEF Init
<1>2. PICK script : script = x.script  OBVIOUS
<1>3. calls = [t \in Thread |-> IF t \in Client THEN script[t] ELSE << >>]  BY <1>1, <1>2
<1>4. script \in [Client -> Seq(Call)] /\ script \in {y.script : y \in Setups}
  BY <1>2, UncountedAssumption
<1>5. \A t \in Thread : ~Firing(t) /\ GoesBack(t) = {}
  <2>1. \A t \in Thread : ~Firing(t)  BY DEF Init, Firing
  <2> QED  BY <2>1, Unfired
<1>6. LiveSet = {} /\ Back = {}
  <2>1. con = << >> /\ Len(con) = 0  BY EmptySeq DEF Init
  <2>2. Known = {}  BY <2>1 DEF Known
  <2> QED  BY <1>5, <2>2 DEF LiveSet, Back
<1>7. \A t \in Thread : Due[t] = IF t \in Client THEN script[t] ELSE << >>
  <2> SUFFICES ASSUME NEW t \in Thread PROVE Due[t] = IF t \in Client THEN script[t] ELSE << >>
    OBVIOUS
  <2>1. calls[t] = IF t \in Client THEN script[t] ELSE << >>  BY <1>3
  <2>2. t \in Client => script[t] \in Seq(Call)  BY <1>4
  <2>3. calls[t] \in Seq(Call)  BY <2>1, <2>2, EmptySeq
  <2>4. << >> \o calls[t] = calls[t]  BY <2>3, ConcatEmptySeq
  <2>5. CallsDue(t) = << >> \o calls[t]  BY <1>5, Unfired
  <2> QED  BY <2>1, <2>4, <2>5 DEF Due
<1>8. PICK d : d = Due  OBVIOUS
<1>9. IsABag(Tally(Thread, d))
  <2>1. d \in [Thread -> Seq(Call)]  BY <1>4, <1>7, <1>8, EmptySeq DEF Due
  <2> QED  BY <2>1, TallyBag
<1>10. PICK c : c = con  OBVIOUS
<1>11. Live = EmptyBag /\ Owed = Tally(Thread, d)
  <2>1. Live = Bagged({}, c) /\ Owed = Tally(Thread, d) (+) Bagged({}, c)
    BY <1>6, <1>8, <1>10, SightIs
  <2> QED  BY <1>9, <2>1, NoBag
<1> DEFINE C == UNION {{k} \X DOMAIN script[k] : k \in Client}
           q == [p \in C |-> script[p[1]][p[2]]]
<1>12. Owed = BagOf([p \in DOMAIN q |-> q[p].con])
  <2>1. \A p : p \in Items(Thread, d) <=> \E t \in Thread : \E i \in DOMAIN d[t] : p = <<t, i>>
    BY DEF Items
  <2>2. \A p : p \in C <=> \E t \in Client : \E i \in DOMAIN script[t] : p = <<t, i>>
    OBVIOUS
  <2>3. DOMAIN << >> = {}  OBVIOUS
  <2>4. \A t \in Client : t \in Thread /\ d[t] = script[t]  BY <1>7, <1>8 DEF Thread
  <2>5. \A p : p \in Items(Thread, d) <=> p \in C
    <3> HIDE DEF C
    <3>1. \A t \in Thread : t \in Client \/ DOMAIN d[t] = {}  BY <1>7, <1>8, <2>3
    <3> QED  BY <2>1, <2>2, <2>4, <3>1
  <2>6. Items(Thread, d) = C  BY <2>5 DEF Items
  <2>7. \A p \in C : d[p[1]][p[2]].con = q[p].con
    <3>1. ASSUME NEW p \in C PROVE d[p[1]] = script[p[1]]
      <4>1. PICK t \in Client : \E i \in DOMAIN script[t] : p = <<t, i>>  BY <2>2
      <4>2. p[1] = t  BY <4>1
      <4> QED  BY <2>4, <4>2
    <3> HIDE DEF C
    <3> QED  BY <3>1
  <2>8. DOMAIN q = C  OBVIOUS
  <2> HIDE DEF q, C
  <2>9. [p \in Items(Thread, d) |-> d[p[1]][p[2]].con] = [p \in DOMAIN q |-> q[p].con]
    BY <2>6, <2>7, <2>8
  <2> QED  BY <1>11, <2>9 DEF Tally
<1>13. Owed = Abstract!AddedBy(q)
  <2> HIDE DEF q
  <2> QED  BY <1>12, SameBagOf DEF Abstract!AddedBy
<1> QED  BY <1>4, <1>11, <1>13, SameBags DEF Abstract!Init

\* The bags that CHR is shown are rewritten one rule at a time: no constraint is lost
\* while it is entered, taken by two matches, or consumed by a match that keeps it,
\* however the threads' claims, rollbacks and consumptions interleave, and what a
\* body is called with matches the heads of its rule.  It holds of the programs whose
\* rules' checklists say the truth (FaithfulProgram) and, if they are run with the
\* pessimistic strategy, whose constraints have one rule each (OneRuleProgram).
THEOREM Rewriting == Spec /\ OneRuleProgram /\ FaithfulProgram => MultisetRewriting
<1>1. Init /\ OneRuleProgram /\ FaithfulProgram => RInv /\ Abstract!Init
  BY StartFaithful, InitRewrites
<1>2. RInv /\ [Next]_vars => RInv'  BY NextFaithful
<1>3. RInv /\ RInv' /\ [Next]_vars => Abstract!Next  BY NextShown
<1>4. RInv /\ [Next]_vars => [Abstract!Next]_<<Live, Owed>>  BY <1>2, <1>3
<1> QED  BY <1>1, <1>2, <1>4, PTL DEF Spec, MultisetRewriting, Abstract!Spec
==============================================================================
