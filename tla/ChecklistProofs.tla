---------------------------- MODULE ChecklistProofs --------------------------
(***************************************************************************)
(* Proofs about multisets, and about the checklist: what adding to a match,*)
(* taking back and reordering it preserve, for any rules and constraints.  *)
(***************************************************************************)
EXTENDS Checklist, Bags, FiniteSetTheorems, SequenceTheorems, TLAPS

(***************************************************************************)
(* Counting: how often a value occurs in a function or a sequence, and the *)
(* bag of its values.                                                      *)
(***************************************************************************)
One(b) == IF b THEN 1 ELSE 0
Copies(B, v) == IF v \in DOMAIN B THEN B[v] ELSE 0
Where(f, v) == {i \in DOMAIN f : f[i] = v}

\* The positions of a sequence where there is an element of V.
Pick(q, V) == {i \in DOMAIN q : q[i] \in V}
Number(q, V) == Cardinality(Pick(q, V))

\* The elements of I that g takes to s.
Fiber(I, g, s) == {i \in I : g[i] = s}

\* Sets whose elements are paired off have as many elements.
LEMMA Paired ==
  ASSUME NEW A, NEW B, IsFiniteSet(A), NEW f \in [A -> B],
         \A x, y \in A : f[x] = f[y] => x = y,
         \A y \in B : \E x \in A : f[x] = y
  PROVE  IsFiniteSet(B) /\ Cardinality(A) = Cardinality(B)
<1>1. f \in Bijection(A, B)  BY DEF Bijection, Injection, Surjection, IsInjective
<1>2. ExistsBijection(A, B)  BY <1>1 DEF ExistsBijection
<1> QED  BY <1>2, FS_Bijection

\* Sets with as many elements over every point of S have as many elements.
LEMMA Fibers ==
  ASSUME NEW A, NEW B, IsFiniteSet(A), IsFiniteSet(B), NEW S,
         NEW f \in [A -> S], NEW g \in [B -> S],
         \A s \in S : Cardinality(Fiber(A, f, s)) = Cardinality(Fiber(B, g, s))
  PROVE  Cardinality(A) = Cardinality(B)
<1> DEFINE F(s) == Fiber(A, f, s)
           G(s) == Fiber(B, g, s)
           pair(s) == CHOOSE p : p \in Bijection(F(s), G(s))
           h == [a \in A |-> pair(f[a])[a]]
<1>1. ASSUME NEW s \in S PROVE pair(s) \in Bijection(F(s), G(s))
  <2>1. IsFiniteSet(F(s)) /\ IsFiniteSet(G(s))
    <3>1. F(s) \in SUBSET A /\ G(s) \in SUBSET B  BY DEF Fiber
    <3> QED  BY <3>1, FS_Subset
  <2>2. Cardinality(F(s)) = Cardinality(G(s))  OBVIOUS
  <2> HIDE DEF F, G
  <2>3. ExistsBijection(F(s), G(s))  BY <2>1, <2>2, FS_SameCardinalityBij
  <2> QED  BY <2>3 DEF ExistsBijection
<1>2. ASSUME NEW s \in S
      PROVE  /\ pair(s) \in [F(s) -> G(s)]
             /\ \A x, y \in F(s) : pair(s)[x] = pair(s)[y] => x = y
             /\ \A y \in G(s) : \E x \in F(s) : pair(s)[x] = y
  <2> HIDE DEF pair, F, G
  <2> QED  BY <1>1 DEF Bijection, Injection, Surjection, IsInjective
<1>3. \A a \in A : h[a] = pair(f[a])[a]  OBVIOUS
<1> HIDE DEF pair, h
<1>4. ASSUME NEW a \in A PROVE a \in F(f[a]) /\ h[a] \in G(f[a])
  <2>1. f[a] \in S /\ a \in F(f[a])  BY DEF Fiber
  <2> HIDE DEF F, G
  <2>2. pair(f[a])[a] \in G(f[a])  BY <1>2, <2>1
  <2> QED  BY <1>3, <2>1, <2>2
<1>5. \A a \in A : h[a] \in B /\ g[h[a]] = f[a]  BY <1>4 DEF Fiber
<1>6. h \in [A -> B]  BY <1>5 DEF h
<1>7. ASSUME NEW x \in A, NEW y \in A, h[x] = h[y] PROVE x = y
  <2>1. f[x] = f[y] /\ f[x] \in S  BY <1>5, <1>7
  <2>2. x \in F(f[x]) /\ y \in F(f[x])  BY <1>4, <2>1
  <2>3. pair(f[x])[x] = pair(f[x])[y]  BY <1>3, <1>7, <2>1
  <2> HIDE DEF F, G
  <2> QED  BY <1>2, <2>1, <2>2, <2>3
<1>8. ASSUME NEW y \in B PROVE \E x \in A : h[x] = y
  <2>1. g[y] \in S /\ y \in G(g[y])  BY DEF Fiber
  <2> HIDE DEF G
  <2>2. PICK x \in F(g[y]) : pair(g[y])[x] = y  BY <1>2, <2>1
  <2>3. x \in A /\ f[x] = g[y]  BY <2>2 DEF Fiber
  <2> QED  BY <1>3, <2>2, <2>3
<1> QED  BY <1>6, <1>7, <1>8, Paired

(***************************************************************************)
(* Counting in sequences.                                                  *)
(***************************************************************************)
LEMMA PickFinite ==
  ASSUME NEW S, NEW q \in Seq(S), NEW V
  PROVE  IsFiniteSet(Pick(q, V)) /\ Number(q, V) \in Nat
<1>1. DOMAIN q = 1..Len(q) /\ Len(q) \in Nat  BY LenProperties
<1>2. IsFiniteSet(1..Len(q))
  <2>1. 1 \in Int /\ Len(q) \in Int  BY <1>1
  <2> QED  BY <2>1, FS_Interval
<1>3. Pick(q, V) \in SUBSET (1..Len(q))  BY <1>1 DEF Pick
<1> QED  BY <1>2, <1>3, FS_Subset, FS_CardinalityType DEF Number

LEMMA NumberEmpty == ASSUME NEW V PROVE Number(<< >>, V) = 0
<1>1. Pick(<< >>, V) = {}  BY DEF Pick
<1> QED  BY <1>1, FS_EmptySet DEF Number

LEMMA NumberConcat ==
  ASSUME NEW S, NEW a \in Seq(S), NEW b \in Seq(S), NEW V
  PROVE  Number(a \o b, V) = Number(a, V) + Number(b, V)
<1> DEFINE n == Len(a)
           A == Pick(a, V)
           B == Pick(b, V)
           T == {i \in (n + 1)..(n + Len(b)) : i - n \in B}
           f == [i \in B |-> n + i]
<1>1. /\ DOMAIN a = 1..n /\ DOMAIN b = 1..Len(b) /\ n \in Nat /\ Len(b) \in Nat
      /\ DOMAIN (a \o b) = 1..(n + Len(b))
      /\ \A i \in 1..(n + Len(b)) : (a \o b)[i] = IF i <= n THEN a[i] ELSE b[i - n]
  BY LenProperties, ConcatProperties
<1>2. IsFiniteSet(A) /\ IsFiniteSet(B)  BY PickFinite
<1>3. Pick(a \o b, V) = A \cup T
  <2>1. ASSUME NEW i PROVE i \in Pick(a \o b, V) <=> i \in A \cup T
    <3> HIDE DEF n
    <3>1. i \in Pick(a \o b, V) <=> i \in 1..(n + Len(b)) /\ (IF i <= n THEN a[i] ELSE b[i - n]) \in V
      BY <1>1 DEF Pick
    <3>2. i \in A <=> i \in 1..n /\ a[i] \in V  BY <1>1 DEF Pick
    <3>3. i \in T <=> i \in (n + 1)..(n + Len(b)) /\ i - n \in 1..Len(b) /\ b[i - n] \in V
      BY <1>1 DEF Pick
    <3> HIDE DEF A, T
    <3> QED  BY <1>1, <3>1, <3>2, <3>3
  <2> QED  BY <2>1
<1>4. A \cap T = {}
  <2>1. A \subseteq 1..n  BY <1>1 DEF Pick
  <2> QED  BY <1>1, <2>1
<1>5. IsFiniteSet(T) /\ Cardinality(B) = Cardinality(T)
  <2>1. B \subseteq 1..Len(b)  BY <1>1 DEF Pick
  <2> HIDE DEF B, n
  <2>2. f \in [B -> T]  BY <1>1, <2>1
  <2>3. \A x, y \in B : f[x] = f[y] => x = y  BY <1>1, <2>1
  <2>4. ASSUME NEW y \in T PROVE \E x \in B : f[x] = y
    <3>1. y - n \in B /\ f[y - n] = y  BY <1>1, <2>1
    <3> QED  BY <3>1
  <2> HIDE DEF f, T
  <2> QED  BY <1>2, <2>2, <2>3, <2>4, Paired
<1>6. Cardinality(A \cup T) = Cardinality(A) + Cardinality(T) - Cardinality(A \cap T)
  <2> HIDE DEF A, T
  <2> QED  BY <1>2, <1>5, FS_Union
<1>7. Cardinality(A \cap T) = 0  BY <1>4, FS_EmptySet
<1>8. Cardinality(A) \in Nat /\ Cardinality(B) \in Nat  BY PickFinite DEF Number
<1> QED  BY <1>3, <1>5, <1>6, <1>7, <1>8 DEF Number

LEMMA NumberSingle == ASSUME NEW e, NEW V PROVE Number(<<e>>, V) = One(e \in V)
<1>1. DOMAIN <<e>> = {1} /\ <<e>>[1] = e  OBVIOUS
<1>2. CASE e \in V
  <2>1. Pick(<<e>>, V) = {1}  BY <1>1, <1>2 DEF Pick
  <2> QED  BY <1>2, <2>1, FS_Singleton DEF Number, One
<1>3. CASE e \notin V
  <2>1. Pick(<<e>>, V) = {}  BY <1>1, <1>3 DEF Pick
  <2> QED  BY <1>3, <2>1, FS_EmptySet DEF Number, One
<1> QED  BY <1>2, <1>3

LEMMA NumberAppend ==
  ASSUME NEW S, NEW q \in Seq(S), NEW e \in S, NEW V
  PROVE  Number(Append(q, e), V) = Number(q, V) + One(e \in V)
<1>1. Append(q, e) = q \o <<e>>  BY AppendIsConcat
<1>2. <<e>> \in Seq(S)  OBVIOUS
<1>3. Number(q \o <<e>>, V) = Number(q, V) + Number(<<e>>, V)  BY <1>2, NumberConcat
<1>4. Number(<<e>>, V) = One(e \in V)  BY NumberSingle
<1> QED  BY <1>1, <1>3, <1>4

LEMMA NumberTail ==
  ASSUME NEW S, NEW q \in Seq(S), q # << >>, NEW V
  PROVE  Number(q, V) = Number(Tail(q), V) + One(Head(q) \in V)
<1>1. <<Head(q)>> \in Seq(S) /\ Tail(q) \in Seq(S)  BY HeadTailProperties
<1>2. q = <<Head(q)>> \o Tail(q)
  <2>1. Len(q) \in Nat \ {0}  BY EmptySeq
  <2>2. /\ Len(<<Head(q)>> \o Tail(q)) = Len(q)
        /\ <<Head(q)>> \o Tail(q) \in Seq(S)
        /\ \A i \in 1..Len(q) : (<<Head(q)>> \o Tail(q))[i] = IF i <= 1 THEN Head(q) ELSE Tail(q)[i - 1]
    BY <1>1, <2>1, HeadTailProperties, ConcatProperties
  <2>3. \A i \in 1..Len(q) : i > 1 => Tail(q)[i - 1] = q[i]
    BY <2>1, HeadTailProperties
  <2>4. Head(q) = q[1]  OBVIOUS
  <2>5. \A i \in 1..Len(q) : q[i] = (<<Head(q)>> \o Tail(q))[i]  BY <2>1, <2>2, <2>3, <2>4
  <2> QED  BY <2>2, <2>5, SeqEqual
<1>3. Number(<<Head(q)>> \o Tail(q), V) = Number(<<Head(q)>>, V) + Number(Tail(q), V)
  BY <1>1, NumberConcat
<1>4. Number(<<Head(q)>>, V) = One(Head(q) \in V)  BY NumberSingle
<1>5. Number(Tail(q), V) \in Nat /\ Number(<<Head(q)>>, V) \in Nat
  BY <1>1, PickFinite
<1>6. Number(q, V) = Number(<<Head(q)>>, V) + Number(Tail(q), V)  BY <1>2, <1>3, Zenon
<1>7. Number(q, V) = Number(Tail(q), V) + Number(<<Head(q)>>, V)  BY <1>5, <1>6
<1> QED  BY <1>4, <1>7

\* An element left out.
LEMMA NumberWithout ==
  ASSUME NEW S, NEW q \in Seq(S), NEW i \in DOMAIN q, NEW V
  PROVE  Number(q, V) =
         Number(SubSeq(q, 1, i - 1) \o SubSeq(q, i + 1, Len(q)), V) + One(q[i] \in V)
<1> DEFINE n == Len(q)
           a == SubSeq(q, 1, i - 1)
           b == SubSeq(q, i + 1, n)
<1>1. n \in Nat /\ i \in 1..n /\ \A j \in 1..n : q[j] \in S  BY LenProperties, ElementOfSeq
<1>2. a \in Seq(S) /\ b \in Seq(S) /\ <<q[i]>> \in Seq(S)
  <2>1. 1 \in Int /\ i - 1 \in Int /\ i + 1 \in Int /\ n \in Int
        /\ (\A j \in 1..(i - 1) : q[j] \in S) /\ (\A j \in (i + 1)..n : q[j] \in S) /\ q[i] \in S
    BY <1>1
  <2> HIDE DEF n
  <2> QED  BY <2>1, SubSeqProperties
<1>3. q = a \o (<<q[i]>> \o b)
  <2>1. SubSeq(q, 1, n) = q  BY SubSeqFull
  <2>2. SubSeq(q, i, n) = <<q[i]>> \o b
    <3>1. i \in 1..Len(q) /\ n \in i..Len(q)  BY <1>1
    <3> QED  BY <3>1, SubSeqRecursiveFirst
  <2>3. a \o SubSeq(q, (i - 1) + 1, n) = SubSeq(q, 1, n)
    <3>1. 1 \in 1..Len(q) + 1 /\ i - 1 \in 1 - 1..Len(q) /\ n \in i - 1..Len(q)  BY <1>1
    <3> QED  BY <3>1, ConcatAdjacentSubSeq
  <2>4. (i - 1) + 1 = i  BY <1>1
  <2> QED  BY <2>1, <2>2, <2>3, <2>4
<1> HIDE DEF a, b, n
<1>4. Number(a \o (<<q[i]>> \o b), V) = Number(a, V) + Number(<<q[i]>> \o b, V)
  <2>1. PICK d : d = <<q[i]>> \o b  OBVIOUS
  <2>2. d \in Seq(S)  BY <1>2, <2>1, ConcatProperties
  <2>3. Number(a \o d, V) = Number(a, V) + Number(d, V)  BY <1>2, <2>2, NumberConcat
  <2> QED  BY <2>1, <2>3
<1>5. Number(<<q[i]>> \o b, V) = Number(<<q[i]>>, V) + Number(b, V)  BY <1>2, NumberConcat
<1>6. Number(<<q[i]>>, V) = One(q[i] \in V)  BY NumberSingle
<1>7. Number(a \o b, V) = Number(a, V) + Number(b, V)  BY <1>2, NumberConcat
<1>8. Number(a, V) \in Nat /\ Number(b, V) \in Nat /\ Number(<<q[i]>>, V) \in Nat
  BY <1>2, PickFinite
<1>9. Number(q, V) = Number(a \o (<<q[i]>> \o b), V)  BY <1>3, Zenon
<1>10. Number(q, V) = Number(a \o b, V) + Number(<<q[i]>>, V)
  BY <1>4, <1>5, <1>7, <1>8, <1>9
<1> QED  BY <1>6, <1>10 DEF a, b, n

(***************************************************************************)
(* Bags, by the number of copies.                                          *)
(***************************************************************************)
LEMMA BagEqual ==
  ASSUME NEW A, NEW B, IsABag(A), IsABag(B), \A e : Copies(A, e) = Copies(B, e)
  PROVE  A = B
<1>1. DOMAIN A = DOMAIN B  BY DEF IsABag, Copies
<1>2. \A e \in DOMAIN A : A[e] = B[e]  BY <1>1 DEF Copies
<1> QED  BY <1>1, <1>2 DEF IsABag

LEMMA BagUnionCopies ==
  ASSUME NEW A, NEW B, IsABag(A), IsABag(B)
  PROVE  IsABag(A (+) B) /\ \A e : Copies(A (+) B, e) = Copies(A, e) + Copies(B, e)
BY DEF IsABag, Copies, (+)

LEMMA BagMinusCopies ==
  ASSUME NEW A, NEW B, IsABag(A), IsABag(B), \A e : Copies(B, e) <= Copies(A, e)
  PROVE  IsABag(A (-) B) /\ \A e : Copies(A (-) B, e) = Copies(A, e) - Copies(B, e)
BY DEF IsABag, Copies, (-)

LEMMA SubBagCopies ==
  ASSUME NEW A, NEW B, IsABag(A), IsABag(B), \A e : Copies(A, e) <= Copies(B, e)
  PROVE  A \sqsubseteq B
BY DEF IsABag, Copies, \sqsubseteq

LEMMA SetBagCopies ==
  ASSUME NEW c
  PROVE  IsABag(SetToBag({c})) /\ \A e : Copies(SetToBag({c}), e) = One(e = c)
BY DEF IsABag, Copies, SetToBag, One

LEMMA BagOfIs ==
  ASSUME NEW f
  PROVE  BagOf(f) = [v \in {f[i] : i \in DOMAIN f} |-> Cardinality(Where(f, v))]
<1> DEFINE B(g) == [v \in {g[i] : i \in DOMAIN g} |-> Cardinality({i \in DOMAIN g : g[i] = v})]
<1>1. {B(g) : g \in {f}} = {B(f)}  OBVIOUS
<1>2. BagOf(f) = CHOOSE b \in {B(g) : g \in {f}} : TRUE  BY DEF BagOf
<1> HIDE DEF B
<1>3. BagOf(f) = B(f)  BY <1>1, <1>2
<1> QED  BY <1>3 DEF Where, B

LEMMA BagOfCopies ==
  ASSUME NEW f, IsFiniteSet(DOMAIN f)
  PROVE  /\ IsABag(BagOf(f))
         /\ \A v : Copies(BagOf(f), v) = Cardinality(Where(f, v)) /\ Copies(BagOf(f), v) \in Nat
<1>1. ASSUME NEW v PROVE IsFiniteSet(Where(f, v)) /\ Cardinality(Where(f, v)) \in Nat
  <2>1. Where(f, v) \in SUBSET DOMAIN f  BY DEF Where
  <2> QED  BY <2>1, FS_Subset, FS_CardinalityType
<1>2. ASSUME NEW v, v \in {f[i] : i \in DOMAIN f} PROVE Cardinality(Where(f, v)) > 0
  <2>1. Where(f, v) # {}  BY <1>2 DEF Where
  <2>2. Cardinality(Where(f, v)) # 0  BY <1>1, <2>1, FS_EmptySet
  <2> QED  BY <1>1, <2>2
<1>3. ASSUME NEW v, v \notin {f[i] : i \in DOMAIN f} PROVE Cardinality(Where(f, v)) = 0
  <2>1. Where(f, v) = {}  BY <1>3 DEF Where
  <2> QED  BY <2>1, FS_EmptySet
<1>4. IsABag(BagOf(f))  BY BagOfIs, <1>1, <1>2 DEF IsABag
<1>5. ASSUME NEW v PROVE Copies(BagOf(f), v) = Cardinality(Where(f, v))
  BY BagOfIs, <1>3 DEF Copies
<1> QED  BY <1>1, <1>4, <1>5

(***************************************************************************)
(* A heap has n[s] things over every s of S, each with the value c[s].     *)
(***************************************************************************)
Cells(S, n) == UNION {{s} \X (1..n[s]) : s \in S}
Heap(S, n, c) == BagOf([p \in Cells(S, n) |-> c[p[1]]])

LEMMA CellsFinite ==
  ASSUME NEW S, IsFiniteSet(S), NEW n \in [S -> Nat]
  PROVE  IsFiniteSet(Cells(S, n))
<1> DEFINE row(s) == {s} \X (1..n[s])
           rows == {row(s) : s \in S}
           f == [s \in S |-> row(s)]
<1>1. \A s \in S : IsFiniteSet(row(s))
  <2> SUFFICES ASSUME NEW s \in S PROVE IsFiniteSet(row(s))  OBVIOUS
  <2>1. 1 \in Int /\ n[s] \in Int  OBVIOUS
  <2>2. IsFiniteSet(1..n[s]) /\ IsFiniteSet({s})  BY <2>1, FS_Interval, FS_Singleton
  <2> QED  BY <2>2, FS_Product
<1>2. f \in Surjection(S, rows)  BY DEF Surjection
<1>3. IsFiniteSet(rows)
  <2> HIDE DEF f, rows
  <2> QED  BY <1>2, FS_Surjection
<1>4. \A T \in rows : IsFiniteSet(T)  BY <1>1
<1>5. Cells(S, n) = UNION rows  BY DEF Cells
<1> HIDE DEF rows
<1> QED  BY <1>3, <1>4, <1>5, FS_UNION

LEMMA CellIs ==
  ASSUME NEW S, NEW n, NEW p
  PROVE  p \in Cells(S, n) <=> \E s \in S : \E i \in 1..n[s] : p = <<s, i>>
BY DEF Cells

LEMMA HeapCopies ==
  ASSUME NEW S, IsFiniteSet(S), NEW n \in [S -> Nat], NEW c, NEW e
  PROVE  /\ IsABag(Heap(S, n, c))
         /\ Copies(Heap(S, n, c), e) = Cardinality({p \in Cells(S, n) : c[p[1]] = e})
<1> DEFINE f == [p \in Cells(S, n) |-> c[p[1]]]
<1>1. IsFiniteSet(DOMAIN f)  BY CellsFinite
<1>2. Where(f, e) = {p \in Cells(S, n) : c[p[1]] = e}  BY DEF Where
<1> HIDE DEF f
<1> QED  BY <1>1, <1>2, BagOfCopies DEF Heap, f

\* One heap is higher than another by what I puts onto it.
LEMMA Piles ==
  ASSUME NEW S, IsFiniteSet(S), NEW n \in [S -> Nat], NEW k \in [S -> Nat], NEW c,
         NEW I, IsFiniteSet(I), NEW g \in [I -> S],
         \A s \in S : n[s] = k[s] + Cardinality(Fiber(I, g, s)), NEW e
  PROVE  Copies(Heap(S, n, c), e) =
         Copies(Heap(S, k, c), e) + Cardinality({i \in I : c[g[i]] = e})
<1> DEFINE A == {p \in Cells(S, n) : c[p[1]] = e}
           B == {p \in Cells(S, k) : c[p[1]] = e}
           J == {i \in I : c[g[i]] = e}
           C == A \ B
<1>1. IsFiniteSet(A) /\ IsFiniteSet(B) /\ IsFiniteSet(J) /\ IsFiniteSet(C)
  <2>1. A \in SUBSET Cells(S, n) /\ B \in SUBSET Cells(S, k) /\ J \in SUBSET I  OBVIOUS
  <2>2. IsFiniteSet(A) /\ IsFiniteSet(B) /\ IsFiniteSet(J)  BY <2>1, CellsFinite, FS_Subset
  <2> HIDE DEF A, B
  <2> QED  BY <2>2, FS_Difference
<1>2. ASSUME NEW s \in S
      PROVE  /\ IsFiniteSet(Fiber(I, g, s)) /\ Cardinality(Fiber(I, g, s)) \in Nat /\ k[s] \in Nat
             /\ n[s] = k[s] + Cardinality(Fiber(I, g, s))
  <2>1. Fiber(I, g, s) \in SUBSET I  BY DEF Fiber
  <2> QED  BY <2>1, FS_Subset, FS_CardinalityType
<1>3. B \subseteq A  BY <1>2, CellIs
<1>4. Cardinality(A) = Cardinality(B) + Cardinality(C)
  <2>1. A \cap B = B  BY <1>3
  <2>2. Cardinality(C) = Cardinality(A) - Cardinality(B)
    <3> HIDE DEF A, B
    <3>1. Cardinality(A \ B) = Cardinality(A) - Cardinality(A \cap B)  BY <1>1, FS_Difference
    <3> QED  BY <2>1, <3>1
  <2>3. Cardinality(A) \in Nat /\ Cardinality(B) \in Nat  BY <1>1, FS_CardinalityType
  <2> QED  BY <2>2, <2>3
<1>5. Cardinality(C) = Cardinality(J)
  <2> DEFINE D == {s \in S : c[s] = e}
             p1 == [p \in C |-> p[1]]
             gJ == [i \in J |-> g[i]]
  <2>1. p1 \in [C -> D] /\ gJ \in [J -> D]  BY CellIs
  <2>2. ASSUME NEW s \in D
        PROVE  Cardinality(Fiber(C, p1, s)) = Cardinality(Fiber(J, gJ, s))
    <3> DEFINE row == Fiber(C, p1, s)
               col == (k[s] + 1)..n[s]
               f == [j \in col |-> <<s, j>>]
    <3>1. Fiber(J, gJ, s) = Fiber(I, g, s)  BY DEF Fiber
    <3>2. \A p : p \in row <=> \E j \in 1..n[s] : j \notin 1..k[s] /\ p = <<s, j>>
      BY CellIs DEF Fiber
    <3>3. \A j : j \in col <=> j \in 1..n[s] /\ j \notin 1..k[s]  BY <1>2
    <3>4. f \in [col -> row]  BY <3>2, <3>3
    <3>5. \A x, y \in col : f[x] = f[y] => x = y  OBVIOUS
    <3>6. \A y \in row : \E x \in col : f[x] = y  BY <3>2, <3>3
    <3>7. IsFiniteSet(col) /\ Cardinality(col) = n[s] - k[s]
      <4>1. k[s] + 1 \in Int /\ n[s] \in Int  BY <1>2
      <4>2. IsFiniteSet(col) /\ Cardinality(col) = IF k[s] + 1 > n[s] THEN 0 ELSE n[s] - (k[s] + 1) + 1
        BY <4>1, FS_Interval
      <4> HIDE DEF col
      <4> QED  BY <1>2, <4>2
    <3> HIDE DEF row, col, f
    <3>8. Cardinality(row) = n[s] - k[s]  BY <3>4, <3>5, <3>6, <3>7, Paired
    <3>9. Cardinality(row) = Cardinality(Fiber(I, g, s))  BY <1>2, <3>8
    <3> QED  BY <3>1, <3>9 DEF row
  <2> HIDE DEF C, J, D, p1, gJ
  <2> QED  BY <1>1, <2>1, <2>2, Fibers
<1>6. /\ Copies(Heap(S, n, c), e) = Cardinality(A)
      /\ Copies(Heap(S, k, c), e) = Cardinality(B)
  BY HeapCopies
<1> QED  BY <1>4, <1>5, <1>6

(***************************************************************************)
(* What sequences of records q[t], one for every t of T, hold in their     *)
(* field con.                                                              *)
(***************************************************************************)
Items(T, q) == UNION {{t} \X DOMAIN q[t] : t \in T}
Tally(T, q) == BagOf([p \in Items(T, q) |-> q[p[1]][p[2]].con])
With(K, e) == {k \in K : k.con = e}
Others(T, q, t, e) == {p \in Items(T, q) : p[1] # t /\ q[p[1]][p[2]].con = e}

\* How often e is in all the sequences: what the others hold and what q[t] holds.
TallySplit(T, K, q, t, e) ==
  /\ IsABag(Tally(T, q))
  /\ Cardinality(Others(T, q, t, e)) \in Nat
  /\ Copies(Tally(T, q), e) = Cardinality(Others(T, q, t, e)) + Number(q[t], With(K, e))

LEMMA TallyParts ==
  ASSUME NEW T, IsFiniteSet(T), NEW K, NEW q \in [T -> Seq(K)], NEW t \in T, NEW e
  PROVE  TallySplit(T, K, q, t, e)
<1> DEFINE W == {p \in Items(T, q) : q[p[1]][p[2]].con = e}
           O == Others(T, q, t, e)
           M == W \ O
           P == Pick(q[t], With(K, e))
           n == [u \in T |-> Len(q[u])]
           f == [p \in Items(T, q) |-> q[p[1]][p[2]].con]
           pair == [i \in P |-> <<t, i>>]
<1>1. \A u \in T : /\ DOMAIN q[u] = 1..Len(q[u]) /\ Len(q[u]) \in Nat
                   /\ \A i \in DOMAIN q[u] : q[u][i] \in K
  BY LenProperties, ElementOfSeq
<1>2. IsFiniteSet(Items(T, q))
  <2>1. n \in [T -> Nat]  BY <1>1
  <2>2. Items(T, q) = Cells(T, n)  BY <1>1 DEF Items, Cells
  <2> HIDE DEF n
  <2> QED  BY <2>1, <2>2, CellsFinite
<1>3. IsABag(Tally(T, q)) /\ Copies(Tally(T, q), e) = Cardinality(W)
  <2>1. IsFiniteSet(DOMAIN f) /\ Where(f, e) = W  BY <1>2 DEF Where
  <2> HIDE DEF f, W
  <2> QED  BY <2>1, BagOfCopies DEF Tally, f
<1>4. IsFiniteSet(W) /\ IsFiniteSet(O) /\ IsFiniteSet(M)
  <2>1. W \in SUBSET Items(T, q) /\ O \in SUBSET Items(T, q) /\ M \in SUBSET Items(T, q)
    BY DEF Others
  <2> HIDE DEF W, O, M
  <2> QED  BY <1>2, <2>1, FS_Subset
<1>5. Cardinality(W) = Cardinality(O) + Cardinality(M)
  <2>1. W \cap O = O  BY DEF Others
  <2>2. Cardinality(M) = Cardinality(W) - Cardinality(O)
    <3> HIDE DEF W, O
    <3>1. Cardinality(W \ O) = Cardinality(W) - Cardinality(W \cap O)  BY <1>4, FS_Difference
    <3> QED  BY <2>1, <3>1
  <2>3. Cardinality(W) \in Nat /\ Cardinality(O) \in Nat  BY <1>4, FS_CardinalityType
  <2> HIDE DEF W, O, M
  <2> QED  BY <2>2, <2>3
<1>6. Cardinality(P) = Cardinality(M)
  <2>1. \A p : p \in Items(T, q) <=> \E u \in T : \E i \in DOMAIN q[u] : p = <<u, i>>
    BY DEF Items
  <2>2. \A p : p \in M <=> \E i \in DOMAIN q[t] : q[t][i].con = e /\ p = <<t, i>>
    BY <2>1 DEF Others
  <2>3. \A i : i \in P <=> i \in DOMAIN q[t] /\ q[t][i].con = e  BY <1>1 DEF Pick, With
  <2>4. pair \in [P -> M]  BY <2>2, <2>3
  <2>5. \A x, y \in P : pair[x] = pair[y] => x = y  OBVIOUS
  <2>6. \A y \in M : \E x \in P : pair[x] = y  BY <2>2, <2>3
  <2>7. IsFiniteSet(P)  BY PickFinite
  <2> HIDE DEF P, M, pair
  <2> QED  BY <2>4, <2>5, <2>6, <2>7, Paired
<1>7. Cardinality(O) \in Nat  BY <1>4, FS_CardinalityType
<1> QED  BY <1>3, <1>5, <1>6, <1>7 DEF Number, TallySplit

\* When one of the sequences changes, the sum changes as that one does.
OnlyAt(T, q, r, t) == \A u \in T \ {t} : r[u] = q[u]
TallyShift(T, K, q, r, t, e) ==
  Copies(Tally(T, r), e) + Number(q[t], With(K, e)) =
  Copies(Tally(T, q), e) + Number(r[t], With(K, e))

LEMMA TallyChange ==
  ASSUME NEW T, IsFiniteSet(T), NEW K, NEW q \in [T -> Seq(K)], NEW r \in [T -> Seq(K)],
         NEW t \in T, OnlyAt(T, q, r, t), NEW e
  PROVE  TallyShift(T, K, q, r, t, e)
<1>1. Others(T, r, t, e) = Others(T, q, t, e)
  <2>1. \A p : p \in Items(T, q) <=> \E u \in T : \E i \in DOMAIN q[u] : p = <<u, i>>
    BY DEF Items
  <2>2. \A p : p \in Items(T, r) <=> \E u \in T : \E i \in DOMAIN r[u] : p = <<u, i>>
    BY DEF Items
  <2> QED  BY <2>1, <2>2 DEF Others, OnlyAt
<1>2. TallySplit(T, K, q, t, e) /\ TallySplit(T, K, r, t, e)  BY TallyParts
<1>3. /\ Copies(Tally(T, q), e) = Cardinality(Others(T, q, t, e)) + Number(q[t], With(K, e))
      /\ Copies(Tally(T, r), e) = Cardinality(Others(T, r, t, e)) + Number(r[t], With(K, e))
      /\ Cardinality(Others(T, q, t, e)) \in Nat
  BY <1>2 DEF TallySplit
<1>4. Number(q[t], With(K, e)) \in Nat /\ Number(r[t], With(K, e)) \in Nat  BY PickFinite
<1> QED  BY <1>1, <1>3, <1>4 DEF TallyShift

(***************************************************************************)
(* Matches and checklists.                                                 *)
(***************************************************************************)
\* A match of rule r by stati of S, in which every constraint has its head's name.
Match(r, S) == [Heads(r) -> S \cup {None}]
Named(r, m) == \A h \in Heads(r) : m[h] # None => con[m[h]].name = HeadName(r, h)

LEMMA LeastIn ==
  ASSUME NEW S \in SUBSET Nat, S # {}
  PROVE  Least(S) \in S /\ \A k \in S : Least(S) <= k
<1>1. PICK n \in S : \A k \in S : ~ (<<k, n>> \in OpToRel(<, Nat))
  BY NatLessThanWellFounded, WFMin
<1>2. \A k \in S : n <= k
  <2> SUFFICES ASSUME NEW k \in S PROVE n <= k  OBVIOUS
  <2>1. k \in Nat /\ n \in Nat  OBVIOUS
  <2>2. ~ (k < n)  BY <1>1, <2>1 DEF OpToRel
  <2> QED  BY <2>1, <2>2
<1> QED  BY <1>2 DEF Least

\* The heads of a rule are numbered from one, and there are finitely many.
LEMMA HeadNumbers ==
  ASSUME NEW r \in RuleId
  PROVE  /\ r \in Nat /\ Heads(r) \subseteq Nat /\ IsFiniteSet(Heads(r))
         /\ Heads(r) = 1..Len(Rules[r].heads) /\ Len(Rules[r].heads) \in Nat
<1> DEFINE H == [name : {c.name : c \in Con}, vars : Seq(STRING)]
           RuleSet == [heads : Seq(H), keep : Nat, simpagation : BOOLEAN, ignore : BOOLEAN]
<1>1. Rules \in Seq(RuleSet)  BY RulesAssumption
<1> HIDE DEF H, RuleSet
<1>2. r \in 1..Len(Rules) /\ Len(Rules) \in Nat  BY <1>1, LenProperties DEF RuleId
<1>3. Rules[r] \in RuleSet  BY <1>1, <1>2, ElementOfSeq
<1>4. Rules[r].heads \in Seq(H)  BY <1>3 DEF RuleSet
<1>5. Len(Rules[r].heads) \in Nat /\ Heads(r) = 1..Len(Rules[r].heads)
  BY <1>4, LenProperties DEF Heads
<1> DEFINE n == Len(Rules[r].heads)
<1>6. n \in Int /\ 1 \in Int  BY <1>5
<1>7. IsFiniteSet(1..n)  BY <1>6, FS_Interval
<1>8. 1..n \subseteq Nat  BY <1>5
<1> QED  BY <1>2, <1>5, <1>7, <1>8

Ahead(N, R, h) == {g \in N : <<g, h>> \in R}

\* An order of finitely many things has an element at every place: the places are
\* the numbers of the elements that come sooner.
LEMMA Places ==
  ASSUME NEW N, IsFiniteSet(N), NEW R,
         \A g, h \in N : g # h => <<g, h>> \in R \/ <<h, g>> \in R,
         \A g \in N : <<g, g>> \notin R,
         \A f, g, h \in N : <<f, g>> \in R /\ <<g, h>> \in R => <<f, h>> \in R,
         NEW i \in Nat, i < Cardinality(N)
  PROVE  \E h \in N : Cardinality(Ahead(N, R, h)) = i
<1> DEFINE before(h) == {g \in N : <<g, h>> \in R}
           place == [h \in N |-> Cardinality(before(h))]
           p == Cardinality(N)
<1>1. p \in Nat  BY FS_CardinalityType
<1>2. ASSUME NEW h \in N PROVE IsFiniteSet(before(h)) /\ Cardinality(before(h)) \in Nat
  <2>1. before(h) \in SUBSET N  OBVIOUS
  <2>2. IsFiniteSet(before(h))  BY <2>1, FS_Subset
  <2> QED  BY <2>2, FS_CardinalityType
<1>3. ASSUME NEW h \in N PROVE Cardinality(before(h)) \in 0..(p - 1)
  <2>1. before(h) \in SUBSET (N \ {h})  OBVIOUS
  <2>2. IsFiniteSet(N \ {h}) /\ Cardinality(N \ {h}) = p - 1  BY FS_RemoveElement
  <2>3. Cardinality(before(h)) <= Cardinality(N \ {h})  BY <2>1, <2>2, FS_Subset
  <2> HIDE DEF before, p
  <2> QED  BY <1>1, <1>2, <2>2, <2>3
<1>4. ASSUME NEW g \in N, NEW h \in N, <<g, h>> \in R
      PROVE  Cardinality(before(g)) # Cardinality(before(h))
  <2>1. before(g) \subseteq before(h)  BY <1>4
  <2>2. before(g) # before(h)  BY <1>4
  <2> QED  BY <1>2, <2>1, <2>2, FS_Subset
<1>5. place \in Injection(N, 0..(p - 1))
  <2>1. place \in [N -> 0..(p - 1)]  BY <1>3
  <2>2. ASSUME NEW g \in N, NEW h \in N, place[g] = place[h] PROVE g = h
    <3>1. Cardinality(before(g)) = Cardinality(before(h))  BY <2>2
    <3> HIDE DEF before, place
    <3> QED  BY <1>4, <3>1
  <2> QED  BY <2>1, <2>2 DEF Injection, IsInjective
<1>6. IsFiniteSet(0..(p - 1)) /\ Cardinality(0..(p - 1)) = p
  <2>1. 0 \in Int /\ p - 1 \in Int /\ p >= 0  BY <1>1
  <2> HIDE DEF p
  <2>2. /\ IsFiniteSet(0..(p - 1))
        /\ Cardinality(0..(p - 1)) = IF 0 > p - 1 THEN 0 ELSE (p - 1) - 0 + 1
    BY <2>1, FS_Interval
  <2>3. p \in Nat  BY <1>1
  <2> QED  BY <2>2, <2>3
<1>7. place \in Surjection(N, 0..(p - 1))  BY <1>5, <1>6, FS_Injection
<1>8. i \in 0..(p - 1)  BY <1>1
<1>9. PICK h \in N : place[h] = i
  <2> HIDE DEF place, p
  <2> QED  BY <1>7, <1>8 DEF Surjection
<1> QED  BY <1>9 DEF Ahead

(***************************************************************************)
(* Reordering by id.  In a complete match every head k gets the constraint *)
(* of the one head of its name that has as many sooner ones as k has heads *)
(* of its name before it.                                                  *)
(***************************************************************************)
Peers(r, k) == {g \in Heads(r) : HeadName(r, g) = HeadName(r, k)}
PlaceOf(r, m, k, h) ==
  Cardinality({g \in Matched(r, m) : HeadName(r, g) = HeadName(r, k) /\ Sooner(m, g, h)})
Rank(r, k) == Cardinality({g \in Heads(r) : g < k /\ HeadName(r, g) = HeadName(r, k)})
Mine(r, m, k) ==
  {h \in Matched(r, m) : HeadName(r, h) = HeadName(r, k) /\ PlaceOf(r, m, k, h) = Rank(r, k)}

LEMMA ByIdIs ==
  ASSUME NEW r, NEW m
  PROVE  ById(r, m) = [k \in Heads(r) |-> IF Mine(r, m, k) = {} THEN None ELSE m[Least(Mine(r, m, k))]]
BY DEF ById, Mine, PlaceOf, Rank

LEMMA MineLeast ==
  ASSUME NEW r \in RuleId, NEW m, NEW k, Mine(r, m, k) # {}
  PROVE  Least(Mine(r, m, k)) \in Mine(r, m, k)
<1>1. Mine(r, m, k) \in SUBSET Nat  BY HeadNumbers DEF Mine, Matched
<1> QED  BY <1>1, LeastIn

LEMMA MineExists ==
  ASSUME NEW r \in RuleId, NEW S \in SUBSET Nat, NEW m \in Match(r, S), Complete(r, m),
         NEW k \in Heads(r)
  PROVE  Mine(r, m, k) # {}
<1> DEFINE P == Peers(r, k)
           R == {o \in P \X P : Sooner(m, o[1], o[2])}
<1>1. IsFiniteSet(P)  BY HeadNumbers, FS_Subset DEF Peers
<1>2. Matched(r, m) = Heads(r)  BY DEF Complete
<1>3. ASSUME NEW h \in Heads(r) PROVE m[h] \in Nat /\ h \in Nat
  <2>1. m[h] \in S \cup {None}  BY DEF Match
  <2>2. h \in Nat  BY HeadNumbers
  <2>3. S \cup {None} \subseteq Nat  BY DEF None
  <2> QED  BY <2>1, <2>2, <2>3
<1>4. /\ \A g, h \in P : g # h => <<g, h>> \in R \/ <<h, g>> \in R
      /\ \A g \in P : <<g, g>> \notin R
      /\ \A f, g, h \in P : <<f, g>> \in R /\ <<g, h>> \in R => <<f, h>> \in R
  BY <1>3 DEF Sooner, Peers
<1>5. Rank(r, k) \in Nat /\ Rank(r, k) < Cardinality(P)
  <2> DEFINE lower == {g \in Heads(r) : g < k /\ HeadName(r, g) = HeadName(r, k)}
  <2>1. lower \subseteq P \ {k} /\ k \in P  BY <1>3 DEF Peers
  <2>2. IsFiniteSet(P \ {k}) /\ Cardinality(P \ {k}) = Cardinality(P) - 1
    BY <1>1, <2>1, FS_RemoveElement
  <2>3. IsFiniteSet(lower) /\ Cardinality(lower) <= Cardinality(P) - 1
    BY <2>1, <2>2, FS_Subset
  <2>4. Cardinality(lower) \in Nat /\ Cardinality(P) \in Nat
    BY <1>1, <2>3, FS_CardinalityType
  <2> QED  BY <2>3, <2>4 DEF Rank
<1>6. PICK h \in P : Cardinality(Ahead(P, R, h)) = Rank(r, k)
  <2> HIDE DEF P, R
  <2> QED  BY <1>1, <1>4, <1>5, Places
<1>7. Ahead(P, R, h) =
      {g \in Matched(r, m) : HeadName(r, g) = HeadName(r, k) /\ Sooner(m, g, h)}
  BY <1>2 DEF Ahead, Peers
<1>8. h \in Matched(r, m) /\ HeadName(r, h) = HeadName(r, k)  BY <1>2, <1>6 DEF Peers
<1>9. PlaceOf(r, m, k, h) = Rank(r, k)  BY <1>6, <1>7 DEF PlaceOf
<1> QED  BY <1>8, <1>9 DEF Mine

\* get_rule_ordered and the replay keep the names right, and lose no constraint of
\* a complete match: every head gets one of its own name.
LEMMA ByIdMatch ==
  ASSUME NEW r \in RuleId, NEW S \in SUBSET Nat, NEW m \in Match(r, S), Named(r, m)
  PROVE  /\ ById(r, m) \in Match(r, S) /\ Named(r, ById(r, m))
         /\ Complete(r, m) => Complete(r, ById(r, m))
<1>1. ASSUME NEW k \in Heads(r), Mine(r, m, k) # {}
      PROVE  /\ m[Least(Mine(r, m, k))] \in S \ {None}
             /\ con[m[Least(Mine(r, m, k))]].name = HeadName(r, k)
  <2>1. Least(Mine(r, m, k)) \in Mine(r, m, k)  BY <1>1, MineLeast
  <2> QED  BY <2>1 DEF Mine, Matched, Match, Named
<1>2. ById(r, m) \in Match(r, S)  BY <1>1, ByIdIs DEF Match
<1>3. Named(r, ById(r, m))  BY <1>1, ByIdIs DEF Named
<1>4. Complete(r, m) => Complete(r, ById(r, m))
  BY <1>1, ByIdIs, MineExists DEF Complete, Matched
<1> QED  BY <1>2, <1>3, <1>4

\* It uses every constraint of a complete match once.
LEMMA ByIdPermutes ==
  ASSUME NEW r \in RuleId, NEW S \in SUBSET Nat, NEW m \in Match(r, S), Complete(r, m), NEW s
  PROVE  Cardinality(Fiber(Heads(r), ById(r, m), s)) = Cardinality(Fiber(Heads(r), m, s))
<1> DEFINE H == Heads(r)
           f == [k \in H |-> Least(Mine(r, m, k))]
           A == Fiber(H, ById(r, m), s)
           B == Fiber(H, m, s)
           fA == [k \in A |-> f[k]]
<1>1. \A k \in H : f[k] \in Mine(r, m, k)  BY MineExists, MineLeast
<1>2. \A k \in H : f[k] \in H /\ HeadName(r, f[k]) = HeadName(r, k) /\ ById(r, m)[k] = m[f[k]]
  BY <1>1, ByIdIs DEF Mine, Matched
<1>3. ASSUME NEW j \in H, NEW k \in H, j < k, HeadName(r, j) = HeadName(r, k)
      PROVE  Rank(r, j) # Rank(r, k)
  <2> DEFINE lower(i) == {g \in H : g < i /\ HeadName(r, g) = HeadName(r, i)}
  <2>1. lower(j) \in SUBSET lower(k) /\ j \in lower(k) /\ j \notin lower(j)
    BY <1>3, HeadNumbers
  <2>2. IsFiniteSet(lower(k))  BY HeadNumbers, FS_Subset
  <2>3. Rank(r, j) = Cardinality(lower(j)) /\ Rank(r, k) = Cardinality(lower(k))  BY DEF Rank
  <2> HIDE DEF lower
  <2> QED  BY <2>1, <2>2, <2>3, FS_Subset
<1>4. ASSUME NEW j \in H, NEW k \in H, f[j] = f[k] PROVE j = k
  <2>1. HeadName(r, j) = HeadName(r, k)  BY <1>2, <1>4
  <2>2. PlaceOf(r, m, j, f[j]) = Rank(r, j) /\ PlaceOf(r, m, k, f[k]) = Rank(r, k)
    BY <1>1 DEF Mine
  <2>3. PlaceOf(r, m, j, f[j]) = PlaceOf(r, m, k, f[k])  BY <1>4, <2>1 DEF PlaceOf
  <2>4. j \in Nat /\ k \in Nat  BY HeadNumbers
  <2>5. Rank(r, j) = Rank(r, k)  BY <2>2, <2>3
  <2> HIDE DEF f, H
  <2>6. ~(j < k)  BY <1>3, <2>1, <2>5
  <2>7. ~(k < j)  BY <1>3, <2>1, <2>5
  <2> QED  BY <2>4, <2>6, <2>7
<1> HIDE DEF f
<1>5. f \in Injection(H, H)  BY <1>2, <1>4 DEF Injection, IsInjective, f
<1>6. f \in Surjection(H, H)  BY <1>5, HeadNumbers, FS_Injection
<1>7. IsFiniteSet(A)
  <2>1. A \in SUBSET H  BY DEF Fiber
  <2> QED  BY <2>1, HeadNumbers, FS_Subset
<1>8. fA \in [A -> B]  BY <1>2 DEF Fiber
<1>9. \A x, y \in A : fA[x] = fA[y] => x = y  BY <1>4 DEF Fiber
<1>10. ASSUME NEW y \in B PROVE \E x \in A : fA[x] = y
  <2>1. y \in H /\ m[y] = s  BY DEF Fiber
  <2>2. PICK x \in H : f[x] = y  BY <1>6, <2>1 DEF Surjection
  <2>3. x \in A  BY <1>2, <2>1, <2>2 DEF Fiber
  <2> QED  BY <2>2, <2>3
<1> HIDE DEF A, B, fA
<1>11. Cardinality(A) = Cardinality(B)  BY <1>7, <1>8, <1>9, <1>10, Paired
<1> QED  BY <1>11 DEF A, B

\* It changes nothing where each head has a name of its own.
LEMMA ByIdDistinct ==
  ASSUME NEW r \in RuleId, DistinctNames(r), NEW S \in SUBSET Nat, NEW m \in Match(r, S)
  PROVE  ById(r, m) = m
<1>1. ASSUME NEW k \in Heads(r) PROVE ById(r, m)[k] = m[k]
  <2>1. \A h \in Heads(r) : HeadName(r, h) = HeadName(r, k) => h = k  BY DEF DistinctNames
  <2>2. k \in Nat /\ m[k] \in Nat
    <3>1. m[k] \in S \cup {None} /\ S \cup {None} \subseteq Nat  BY DEF Match, None
    <3> QED  BY <3>1, HeadNumbers
  <2>3. {g \in Heads(r) : g < k /\ HeadName(r, g) = HeadName(r, k)} = {}
    <3>1. \A g \in Heads(r) : ~ (g < k /\ HeadName(r, g) = HeadName(r, k))  BY <2>1, <2>2
    <3> QED  BY <3>1
  <2>4. {g \in Matched(r, m) : HeadName(r, g) = HeadName(r, k) /\ Sooner(m, g, k)} = {}
    <3>1. \A g \in Heads(r) : ~ (HeadName(r, g) = HeadName(r, k) /\ Sooner(m, g, k))
      BY <2>1, <2>2 DEF Sooner
    <3> QED  BY <3>1 DEF Matched
  <2>5. Rank(r, k) = 0 /\ PlaceOf(r, m, k, k) = 0  BY <2>3, <2>4, FS_EmptySet DEF Rank, PlaceOf
  <2>6. Mine(r, m, k) = IF m[k] = None THEN {} ELSE {k}
    BY <2>1, <2>5 DEF Mine, Matched
  <2>7. CASE m[k] = None  BY <2>6, <2>7, ByIdIs
  <2>8. CASE m[k] # None
    <3>1. Least(Mine(r, m, k)) = k  BY <2>6, <2>8, MineLeast
    <3> QED  BY <2>6, <2>8, <3>1, ByIdIs
  <2> QED  BY <2>7, <2>8
<1>2. m = [k \in Heads(r) |-> m[k]]  BY DEF Match
<1>3. ById(r, m) = [k \in Heads(r) |-> ById(r, m)[k]]  BY ByIdIs
<1> QED  BY <1>1, <1>2, <1>3

(***************************************************************************)
(* A checklist in use: typed, for a rule of the program, with every head   *)
(* that has a constraint having one of its own name.                       *)
(***************************************************************************)
GoodList(l) ==
  /\ l \in List /\ l.rule \in RuleId
  /\ l.m \in Match(l.rule, Known) /\ Named(l.rule, l.m)

LEMMA MatchIsSeq ==
  ASSUME NEW r \in RuleId, NEW m \in Match(r, Known)
  PROVE  m \in Seq(Maybe)
<1>1. Heads(r) = 1..Len(Rules[r].heads) /\ Len(Rules[r].heads) \in Nat  BY HeadNumbers
<1>2. m \in [1..Len(Rules[r].heads) -> Maybe]  BY <1>1 DEF Match, Maybe
<1> QED  BY <1>1, <1>2, SeqDef

\* A new checklist has all its heads free.
LEMMA NewChecklistGood ==
  ASSUME NEW r \in RuleId
  PROVE  /\ GoodList(NewChecklist(r)) /\ NewChecklist(r).rule = r
         /\ \A s : Accepts(r, s) => FreeHeads(r, NewChecklist(r).m, s) # {}
<1> DEFINE l == NewChecklist(r)
<1>1. l.rule = r /\ l.m = [h \in Heads(r) |-> None] /\ l.used = << >> /\ l.keep = << >>
  BY DEF NewChecklist
<1>2. l.m \in Match(r, Known) /\ Named(r, l.m)  BY <1>1 DEF Match, Named
<1>3. l.m \in Seq(Maybe)  BY <1>2, MatchIsSeq
<1>4. l.spare \in SUBSET Nat  BY HeadNumbers DEF NewChecklist
<1>5. l \in List
  <2>1. r \in Nat  BY HeadNumbers
  <2>2. << >> \in Seq(Known)  BY EmptySeq
  <2> QED  BY <1>3, <1>4, <2>1, <2>2 DEF List, NewChecklist
<1>6. \A s : Accepts(r, s) => FreeHeads(r, l.m, s) # {}
  BY <1>1 DEF Accepts, FreeHeads, Matched
<1> QED  BY <1>1, <1>2, <1>5, <1>6 DEF GoodList

\* Adding a constraint that has a free head.
LEMMA AddGood ==
  ASSUME NEW l, GoodList(l), NEW s \in Known, Known \subseteq Nat,
         FreeHeads(l.rule, l.m, s) # {}
  PROVE  /\ GoodList(Add(l, s)) /\ Add(l, s).rule = l.rule
         /\ Add(l, s).used = Append(l.used, s)
<1> DEFINE h == Least(FreeHeads(l.rule, l.m, s))
           a == Add(l, s)
           same == {g \in l.spare : HeadName(l.rule, g) = con[s].name}
<1>1. h \in Heads(l.rule) /\ con[s].name = HeadName(l.rule, h)
  <2>1. FreeHeads(l.rule, l.m, s) \in SUBSET Nat  BY HeadNumbers DEF GoodList, FreeHeads
  <2>2. h \in FreeHeads(l.rule, l.m, s)  BY <2>1, LeastIn
  <2> QED  BY <2>2 DEF FreeHeads
<1> HIDE DEF h
<1>2. l \in [rule : Nat, m : Seq(Maybe), used : Seq(Known), keep : Seq(Known), spare : SUBSET Nat]
  BY DEF GoodList, List
<1> DEFINE m == [l.m EXCEPT ![h] = s]
           u == Append(l.used, s)
           p == IF same = {} THEN l.spare ELSE l.spare \ {Least(same)}
           k == IF Rules[l.rule].simpagation /\ same = {} THEN Append(l.keep, s) ELSE l.keep
<1>3. a = [l EXCEPT !.m = m, !.used = u, !.spare = p, !.keep = k]  BY DEF Add, h
<1>4. m \in Match(l.rule, Known)  BY DEF GoodList, Match
<1>5. Named(l.rule, m)  BY <1>1 DEF GoodList, Match, Named
<1>6. m \in Seq(Maybe)  BY <1>4, MatchIsSeq DEF GoodList
<1>7. u \in Seq(Known) /\ k \in Seq(Known)  BY <1>2, AppendProperties
<1>8. p \in SUBSET Nat  BY <1>2
<1> HIDE DEF m, u, p, k, a
<1>9. a \in List  BY <1>2, <1>3, <1>6, <1>7, <1>8 DEF List
<1>10. a.rule = l.rule /\ a.m = m /\ a.used = u  BY <1>2, <1>3
<1> QED  BY <1>4, <1>5, <1>9, <1>10 DEF GoodList, a, u

\* The replay of remove_constraint keeps only what reordering gives.
LEMMA ReplayMatch ==
  ASSUME NEW r \in RuleId, NEW S \in SUBSET Nat, NEW m \in Match(r, S), Named(r, m)
  PROVE  Replay(r, m) \in Match(r, S) /\ Named(r, Replay(r, m))
<1> DEFINE p == ById(r, m)
           none == [h \in Heads(r) |-> None]
<1>1. p \in Match(r, S) /\ Named(r, p)  BY ByIdMatch
<1>2. none \in Match(r, S) /\ Named(r, none)  BY DEF Match, Named
<1>3. ASSUME NEW h PROVE UpTo(r, p, h) \in Match(r, S) /\ Named(r, UpTo(r, p, h))
  <2> HIDE DEF p
  <2> QED  BY <1>1 DEF Match, Named, UpTo
<1>4. \/ Replay(r, m) = p \/ Replay(r, m) = none
      \/ \E h : Replay(r, m) = UpTo(r, p, h)
  BY DEF Replay, Agreeing
<1> QED  BY <1>1, <1>2, <1>3, <1>4

LEMMA DropAtSeq ==
  ASSUME NEW S, NEW q \in Seq(S), NEW i \in DOMAIN q
  PROVE  DropAt(q, i) \in Seq(S)
<1>1. Len(q) \in Nat /\ i \in 1..Len(q)  BY LenProperties
<1>2. \A j \in 1..(i - 1) : q[j] \in S  BY <1>1, ElementOfSeq
<1>3. \A j \in (i + 1)..Len(q) : q[j] \in S  BY <1>1, ElementOfSeq
<1>4. SubSeq(q, 1, i - 1) \in Seq(S)  BY <1>1, <1>2, SubSeqProperties
<1>5. SubSeq(q, i + 1, Len(q)) \in Seq(S)  BY <1>1, <1>3, SubSeqProperties
<1> QED  BY <1>4, <1>5, ConcatProperties DEF DropAt

\* Taking a constraint back, whether the replay succeeds or not.
LEMMA RemoveGood ==
  ASSUME NEW l, GoodList(l), NEW s, Known \subseteq Nat
  PROVE  GoodList(Remove(l, s)) /\ Remove(l, s).rule = l.rule
<1> DEFINE a == Remove(l, s)
           rest == Without(l.rule, l.m, s)
           m == Replay(l.rule, rest)
           twin == {i \in DOMAIN l.used : con[l.used[i]] = con[s]}
           u == IF Consistent(l.rule, ById(l.rule, rest)) /\ twin # {}
                THEN DropAt(l.used, Least(twin)) ELSE l.used
<1>1. l \in [rule : Nat, m : Seq(Maybe), used : Seq(Known), keep : Seq(Known), spare : SUBSET Nat]
  BY DEF GoodList, List
<1>2. a = [l EXCEPT !.m = m, !.used = u]  BY DEF Remove
<1>3. rest \in Match(l.rule, Known) /\ Named(l.rule, rest)
  BY DEF GoodList, Without, Match, Named
<1>4. m \in Match(l.rule, Known) /\ Named(l.rule, m)  BY <1>3, ReplayMatch DEF GoodList
<1>5. m \in Seq(Maybe)  BY <1>4, MatchIsSeq DEF GoodList
<1>6. u \in Seq(Known)
  <2>1. CASE twin = {}  BY <1>1, <2>1
  <2>2. CASE twin # {}
    <3>1. DOMAIN l.used \subseteq Nat  BY <1>1, LenProperties
    <3>2. Least(twin) \in DOMAIN l.used  BY <2>2, <3>1, LeastIn
    <3>3. DropAt(l.used, Least(twin)) \in Seq(Known)  BY <1>1, <3>2, DropAtSeq
    <3> QED  BY <1>1, <3>3
  <2> QED  BY <2>1, <2>2
<1> HIDE DEF m, u, a
<1>7. a \in List  BY <1>1, <1>2, <1>5, <1>6 DEF List
<1>8. a.rule = l.rule /\ a.m = m  BY <1>1, <1>2
<1> QED  BY <1>4, <1>7, <1>8 DEF GoodList, a

\* get_rule_ordered: the body of a rule is called with a constraint for every
\* head, of the name the head asks for.
LEMMA RuleOrderedNames ==
  ASSUME NEW l, GoodList(l), Complete(l.rule, l.m), con \in Seq(Con)
  PROVE  /\ RuleOrdered(l) \in [Heads(l.rule) -> Con]
         /\ \A h \in Heads(l.rule) : RuleOrdered(l)[h].name = HeadName(l.rule, h)
<1> DEFINE p == ById(l.rule, l.m)
<1>1. Known \in SUBSET Nat  BY LenProperties DEF Known
<1>2. p \in Match(l.rule, Known) /\ Named(l.rule, p) /\ Complete(l.rule, p)
  BY <1>1, ByIdMatch DEF GoodList
<1> HIDE DEF p
<1>3. ASSUME NEW h \in Heads(l.rule)
      PROVE  con[p[h]] \in Con /\ con[p[h]].name = HeadName(l.rule, h)
  <2>1. p[h] # None /\ p[h] \in Known  BY <1>2 DEF Complete, Matched, Match
  <2>2. con[p[h]] \in Con  BY <2>1, LenProperties, ElementOfSeq DEF Known
  <2> QED  BY <1>2, <2>1, <2>2 DEF Named
<1>4. RuleOrdered(l) = [h \in Heads(l.rule) |-> con[p[h]]]  BY DEF RuleOrdered, p
<1> QED  BY <1>3, <1>4

(***************************************************************************)
(* Matches that agree: no variable or placeholder has two values.          *)
(***************************************************************************)
Agree(r, m) ==
  \A g, h \in Matched(r, m) : \A i \in DOMAIN HeadVars(r, g), j \in DOMAIN HeadVars(r, h) :
    HeadVars(r, g)[i] = HeadVars(r, h)[j] => con[m[g]].args[i] = con[m[h]].args[j]

LEMMA Variables ==
  ASSUME NEW r \in RuleId, NEW h \in Heads(r)
  PROVE  /\ DOMAIN HeadVars(r, h) \subseteq 1..4
         /\ \A i, j \in DOMAIN HeadVars(r, h) : HeadVars(r, h)[i] = HeadVars(r, h)[j] => i = j
<1> DEFINE H == [name : {c.name : c \in Con}, vars : Seq(STRING)]
           RuleSet == [heads : Seq(H), keep : Nat, simpagation : BOOLEAN, ignore : BOOLEAN]
<1>1. Rules \in Seq(RuleSet)  BY RulesAssumption
<1> HIDE DEF H, RuleSet
<1>2. r \in 1..Len(Rules) /\ Len(Rules) \in Nat  BY <1>1, LenProperties DEF RuleId
<1>3. Rules[r] \in RuleSet  BY <1>1, <1>2, ElementOfSeq
<1>4. Rules[r].heads \in Seq(H)  BY <1>3 DEF RuleSet
<1>5. Rules[r].heads[h] \in H
  <2>1. h \in 1..Len(Rules[r].heads)  BY HeadNumbers
  <2> QED  BY <1>4, <2>1, ElementOfSeq
<1>6. HeadVars(r, h) \in Seq(STRING)  BY <1>5 DEF H, HeadVars
<1>7. DOMAIN HeadVars(r, h) = 1..Len(HeadVars(r, h)) /\ Len(HeadVars(r, h)) \in Nat
  BY <1>6, LenProperties
<1>8. /\ Len(HeadVars(r, h)) <= 4
      /\ \A i, j \in DOMAIN HeadVars(r, h) : HeadVars(r, h)[i] = HeadVars(r, h)[j] => i = j
  BY RulesAssumption DEF HeadVars
<1> QED  BY <1>7, <1>8

LEMMA BoundIs ==
  ASSUME NEW r \in RuleId, NEW m, NEW v, NEW x
  PROVE  x \in Bound(r, m, v) <=>
           \E g \in Matched(r, m) : \E i \in DOMAIN HeadVars(r, g) :
             HeadVars(r, g)[i] = v /\ x = con[m[g]].args[i]
<1> DEFINE P == {q \in Matched(r, m) \X (1..4) :
                   q[2] \in DOMAIN HeadVars(r, q[1]) /\ HeadVars(r, q[1])[q[2]] = v}
<1>1. \A g \in Matched(r, m) : DOMAIN HeadVars(r, g) \subseteq 1..4
  BY Variables DEF Matched
<1>2. \A p : p \in P <=> \E g \in Matched(r, m) : \E i \in DOMAIN HeadVars(r, g) :
                           HeadVars(r, g)[i] = v /\ p = <<g, i>>
  BY <1>1
<1>3. Bound(r, m, v) = {con[m[p[1]]].args[p[2]] : p \in P}  BY DEF Bound
<1> HIDE DEF P
<1>4. x \in Bound(r, m, v) <=> \E p \in P : x = con[m[p[1]]].args[p[2]]  BY <1>3
<1>5. ASSUME NEW p \in P, x = con[m[p[1]]].args[p[2]]
      PROVE  \E g \in Matched(r, m) : \E i \in DOMAIN HeadVars(r, g) :
               HeadVars(r, g)[i] = v /\ x = con[m[g]].args[i]
  <2>1. PICK g \in Matched(r, m) : \E i \in DOMAIN HeadVars(r, g) : HeadVars(r, g)[i] = v /\ p = <<g, i>>
    BY <1>2
  <2>2. PICK i \in DOMAIN HeadVars(r, g) : HeadVars(r, g)[i] = v /\ p = <<g, i>>  BY <2>1
  <2>3. p[1] = g /\ p[2] = i  BY <2>2
  <2>4. x = con[m[g]].args[i]  BY <1>5, <2>3
  <2> QED  BY <2>2, <2>4
<1>6. ASSUME NEW g \in Matched(r, m), NEW i \in DOMAIN HeadVars(r, g),
             HeadVars(r, g)[i] = v, x = con[m[g]].args[i]
      PROVE  \E p \in P : x = con[m[p[1]]].args[p[2]]
  <2>1. <<g, i>> \in P  BY <1>2, <1>6
  <2>2. <<g, i>>[1] = g /\ <<g, i>>[2] = i  OBVIOUS
  <2>3. x = con[m[<<g, i>>[1]]].args[<<g, i>>[2]]  BY <1>6, <2>2
  <2> QED  BY <2>1, <2>3
<1> QED  BY <1>4, <1>5, <1>6

LEMMA ConsistentIs ==
  ASSUME NEW r \in RuleId, NEW m
  PROVE  Consistent(r, m) <=> Rules[r].ignore \/ Agree(r, m)
<1>1. ASSUME NEW h \in Matched(r, m), NEW i \in DOMAIN HeadVars(r, h)
      PROVE  Bound(r, m, HeadVars(r, h)[i]) = {con[m[h]].args[i]} <=>
             \A g \in Matched(r, m) : \A j \in DOMAIN HeadVars(r, g) :
               HeadVars(r, g)[j] = HeadVars(r, h)[i] => con[m[g]].args[j] = con[m[h]].args[i]
  <2> DEFINE x == con[m[h]].args[i]
             B == Bound(r, m, HeadVars(r, h)[i])
  <2>1. x \in B  BY BoundIs
  <2>2. B = {x} <=> \A y \in B : y = x  BY <2>1
  <2>3. ASSUME \A y \in B : y = x, NEW g \in Matched(r, m), NEW j \in DOMAIN HeadVars(r, g),
               HeadVars(r, g)[j] = HeadVars(r, h)[i]
        PROVE  con[m[g]].args[j] = x
    <3>1. con[m[g]].args[j] \in B  BY <2>3, BoundIs
    <3> QED  BY <2>3, <3>1
  <2>4. ASSUME \A g \in Matched(r, m) : \A j \in DOMAIN HeadVars(r, g) :
                 HeadVars(r, g)[j] = HeadVars(r, h)[i] => con[m[g]].args[j] = x,
               NEW y \in B
        PROVE  y = x
    <3>1. \E g \in Matched(r, m) : \E j \in DOMAIN HeadVars(r, g) :
            HeadVars(r, g)[j] = HeadVars(r, h)[i] /\ y = con[m[g]].args[j]
      BY BoundIs
    <3> HIDE DEF x, B
    <3> QED  BY <2>4, <3>1
  <2> HIDE DEF x, B
  <2>5. (\A y \in B : y = x) <=>
        \A g \in Matched(r, m) : \A j \in DOMAIN HeadVars(r, g) :
          HeadVars(r, g)[j] = HeadVars(r, h)[i] => con[m[g]].args[j] = x
    BY <2>3, <2>4
  <2> QED  BY <2>2, <2>5 DEF x, B
<1> QED  BY <1>1 DEF Consistent, Agree

\* A convenient constraint goes with the match.
LEMMA ConvenientConsistent ==
  ASSUME NEW r \in RuleId, NEW m \in Match(r, Known), Consistent(r, m),
         NEW s, s # None, Convenient(r, m, s)
  PROVE  Consistent(r, [m EXCEPT ![Least(FreeHeads(r, m, s))] = s])
<1> DEFINE h == Least(FreeHeads(r, m, s))
           n == [m EXCEPT ![h] = s]
<1>1. h \in Heads(r) \ Matched(r, m)
  <2>1. FreeHeads(r, m, s) \in SUBSET Nat /\ FreeHeads(r, m, s) # {}
    BY HeadNumbers DEF FreeHeads, Convenient
  <2>2. h \in FreeHeads(r, m, s)  BY <2>1, LeastIn
  <2> QED  BY <2>2 DEF FreeHeads
<1>2. CASE Rules[r].ignore  BY <1>2, ConsistentIs
<1>3. CASE ~Rules[r].ignore
  <2>1. \A i \in DOMAIN HeadVars(r, h) : Bound(r, m, HeadVars(r, h)[i]) \subseteq {con[s].args[i]}
    BY <1>3 DEF Convenient
  <2> HIDE DEF h
  <2>2. ASSUME NEW g \in Matched(r, m), NEW i \in DOMAIN HeadVars(r, h), NEW j \in DOMAIN HeadVars(r, g),
               HeadVars(r, h)[i] = HeadVars(r, g)[j]
        PROVE  con[m[g]].args[j] = con[s].args[i]
    <3>1. con[m[g]].args[j] \in Bound(r, m, HeadVars(r, h)[i])  BY <2>2, BoundIs
    <3> QED  BY <2>1, <3>1
  <2>3. Agree(r, m)  BY <1>3, ConsistentIs
  <2>4. n[h] = s /\ \A g \in Heads(r) \ {h} : n[g] = m[g]  BY <1>1 DEF Match
  <2>5. Matched(r, n) = Matched(r, m) \cup {h}  BY <1>1, <2>4 DEF Matched
  <2>6. \A g \in Matched(r, m) : g # h /\ n[g] = m[g]  BY <1>1, <2>4 DEF Matched
  <2>7. \A i, j \in DOMAIN HeadVars(r, h) : HeadVars(r, h)[i] = HeadVars(r, h)[j] => i = j
    BY <1>1, Variables
  <2> HIDE DEF n
  <2>8. Agree(r, n)
    <3> SUFFICES ASSUME NEW f \in Matched(r, n), NEW g \in Matched(r, n),
                        NEW i \in DOMAIN HeadVars(r, f), NEW j \in DOMAIN HeadVars(r, g),
                        HeadVars(r, f)[i] = HeadVars(r, g)[j]
                 PROVE  con[n[f]].args[i] = con[n[g]].args[j]
      BY DEF Agree
    <3>1. CASE f = h /\ g = h  BY <2>7, <3>1
    <3>2. CASE f = h /\ g # h  BY <2>2, <2>4, <2>5, <2>6, <3>2
    <3>3. CASE f # h /\ g = h  BY <2>2, <2>4, <2>5, <2>6, <3>3
    <3>4. CASE f # h /\ g # h  BY <2>3, <2>5, <2>6, <3>4 DEF Agree
    <3> QED  BY <3>1, <3>2, <3>3, <3>4
  <2>9. Consistent(r, n)  BY <2>8, ConsistentIs
  <2> QED  BY <2>9 DEF n, h
<1> QED  BY <1>2, <1>3

\* So does what is left of a match when a constraint is taken from it.
LEMMA ConsistentWithout ==
  ASSUME NEW r \in RuleId, NEW m, Consistent(r, m), NEW s
  PROVE  Consistent(r, Without(r, m, s))
<1> DEFINE n == Without(r, m, s)
<1>1. \A g \in Matched(r, n) : g \in Matched(r, m) /\ n[g] = m[g]  BY DEF Matched, Without
<1>2. Agree(r, m) => Agree(r, n)  BY <1>1 DEF Agree
<1> QED  BY <1>2, ConsistentIs

\* Constraints are created, and stay what they are: no match is less consistent, and
\* what was convenient for it still is.
Grown == Known \subseteq Known' /\ \A s \in Known : con'[s] = con[s]

LEMMA BoundStable ==
  ASSUME NEW r \in RuleId, NEW m \in Match(r, Known), Grown
  PROVE  /\ \A v : Bound(r, m, v)' = Bound(r, m, v)
         /\ Consistent(r, m)' <=> Consistent(r, m)
<1>1. \A g \in Matched(r, m) : con'[m[g]] = con[m[g]]  BY DEF Match, Matched, Grown
<1>2. ASSUME NEW v PROVE Bound(r, m, v)' = Bound(r, m, v)
  <2> DEFINE P == {q \in Matched(r, m) \X (1..4) :
                     q[2] \in DOMAIN HeadVars(r, q[1]) /\ HeadVars(r, q[1])[q[2]] = v}
  <2>1. Bound(r, m, v) = {con[m[p[1]]].args[p[2]] : p \in P}  BY DEF Bound
  <2>2. Bound(r, m, v)' = {con'[m[p[1]]].args[p[2]] : p \in P}
    BY DEF Bound, Matched, HeadVars
  <2>3. \A p \in P : con'[m[p[1]]] = con[m[p[1]]]  BY <1>1
  <2> HIDE DEF P
  <2> QED  BY <2>1, <2>2, <2>3
<1>3. \A v : Bound(r, m, v)' = Bound(r, m, v)  BY <1>2
<1>4. Consistent(r, m)' <=>
        (~Rules[r].ignore => \A h \in Matched(r, m) : \A i \in DOMAIN HeadVars(r, h) :
           Bound(r, m, HeadVars(r, h)[i])' = {con'[m[h]].args[i]})
  BY DEF Consistent, Matched, HeadVars
<1>5. Consistent(r, m)' <=> Consistent(r, m)  BY <1>1, <1>3, <1>4 DEF Consistent
<1> QED  BY <1>3, <1>5

LEMMA ConvenientStable ==
  ASSUME NEW r \in RuleId, NEW m \in Match(r, Known), NEW s \in Known, Convenient(r, m, s), Grown
  PROVE  Convenient(r, m, s)'
<1>1. con'[s] = con[s]  BY DEF Grown
<1>2. FreeHeads(r, m, s)' = FreeHeads(r, m, s)  BY <1>1 DEF FreeHeads, Matched
<1>3. \A v : Bound(r, m, v)' = Bound(r, m, v)  BY BoundStable
<1>4. Convenient(r, m, s)' <=>
        /\ FreeHeads(r, m, s)' # {}
        /\ ~Rules[r].ignore =>
             \E h \in {Least(FreeHeads(r, m, s)')} : \A i \in DOMAIN HeadVars(r, h) :
               Bound(r, m, HeadVars(r, h)[i])' \subseteq {con'[s].args[i]}
  BY DEF Convenient, HeadVars, Least
<1> QED  BY <1>1, <1>2, <1>3, <1>4 DEF Convenient

(***************************************************************************)
(* A checklist that says the truth: used_stati_ holds every status as      *)
(* often as the match uses it, keep_stati_ as often as a kept head does,   *)
(* and spare the consumable heads that are free.                           *)
(***************************************************************************)
KeptHeads(r) == 1..Rules[r].keep

Tidy(l) ==
  /\ Consistent(l.rule, l.m)
  /\ \A s \in Status : Number(l.used, {s}) = Cardinality(Fiber(Heads(l.rule), l.m, s))
  /\ \A s \in Status : Number(l.keep, {s}) = Cardinality(Fiber(KeptHeads(l.rule), l.m, s))
  /\ Rules[l.rule].simpagation =>
       l.spare = {h \in Heads(l.rule) : h > Rules[l.rule].keep /\ l.m[h] = None}

LEMMA KeptHeadNumbers ==
  ASSUME NEW r \in RuleId
  PROVE  /\ Rules[r].keep \in Nat /\ KeptHeads(r) \in SUBSET Heads(r)
         /\ ~Rules[r].simpagation => KeptHeads(r) = {}
         /\ \A h \in Heads(r) : h \in KeptHeads(r) <=> ~(h > Rules[r].keep)
<1> DEFINE H == [name : {c.name : c \in Con}, vars : Seq(STRING)]
           RuleSet == [heads : Seq(H), keep : Nat, simpagation : BOOLEAN, ignore : BOOLEAN]
<1>1. Rules \in Seq(RuleSet)  BY RulesAssumption
<1> HIDE DEF H, RuleSet
<1>2. r \in 1..Len(Rules)  BY <1>1, LenProperties DEF RuleId
<1>3. Rules[r] \in RuleSet  BY <1>1, <1>2, ElementOfSeq
<1>4. Rules[r].keep \in Nat  BY <1>3 DEF RuleSet
<1>5. Rules[r].keep < Len(Rules[r].heads) /\ (~Rules[r].simpagation => Rules[r].keep = 0)
  BY RulesAssumption
<1>6. Heads(r) = 1..Len(Rules[r].heads) /\ Len(Rules[r].heads) \in Nat  BY HeadNumbers
<1> QED  BY <1>4, <1>5, <1>6 DEF KeptHeads

LEMMA NoneNoStatus == \A s \in Status : s # None
BY DEF Status, None

LEMMA OverPart ==
  ASSUME NEW r \in RuleId, NEW I \in SUBSET Heads(r), NEW m, NEW u
  PROVE  IsFiniteSet(Fiber(I, m, u)) /\ Cardinality(Fiber(I, m, u)) \in Nat
<1>1. Fiber(I, m, u) \in SUBSET Heads(r)  BY DEF Fiber
<1> QED  BY <1>1, HeadNumbers, FS_Subset, FS_CardinalityType

\* Filling the free head h of a match.
LEMMA OverFill ==
  ASSUME NEW r \in RuleId, NEW I \in SUBSET Heads(r), NEW m, NEW n, NEW h \in Heads(r),
         NEW s \in Status, m[h] = None, n[h] = s, \A g \in Heads(r) \ {h} : n[g] = m[g],
         NEW u \in Status
  PROVE  Cardinality(Fiber(I, n, u)) =
         Cardinality(Fiber(I, m, u)) + (IF h \in I /\ u = s THEN 1 ELSE 0)
<1>2. h \notin Fiber(I, m, u)  BY NoneNoStatus DEF Fiber
<1>3. IsFiniteSet(Fiber(I, m, u)) /\ Cardinality(Fiber(I, m, u)) \in Nat  BY OverPart
<1>4. CASE h \in I /\ u = s
  <2>1. Fiber(I, n, u) = Fiber(I, m, u) \cup {h}  BY <1>4 DEF Fiber
  <2>2. Cardinality(Fiber(I, m, u) \cup {h}) = Cardinality(Fiber(I, m, u)) + 1
    BY <1>2, <1>3, FS_AddElement
  <2> QED  BY <1>4, <2>1, <2>2
<1>5. CASE ~(h \in I /\ u = s)
  <2>1. Fiber(I, n, u) = Fiber(I, m, u)  BY <1>2, <1>5 DEF Fiber
  <2> QED  BY <1>3, <1>5, <2>1
<1> QED  BY <1>4, <1>5

LEMMA NewTidy ==
  ASSUME NEW r \in RuleId
  PROVE  /\ Tidy(NewChecklist(r))
         /\ \A s : Accepts(r, s) => Convenient(r, NewChecklist(r).m, s)
<1> DEFINE l == NewChecklist(r)
<1>1. /\ l.rule = r /\ l.m = [h \in Heads(r) |-> None] /\ l.used = << >> /\ l.keep = << >>
      /\ l.spare = IF Rules[r].simpagation THEN {h \in Heads(r) : h > Rules[r].keep} ELSE {}
  BY DEF NewChecklist
<1> HIDE DEF l
<1>2. Matched(r, l.m) = {}  BY <1>1 DEF Matched
<1>3. Consistent(r, l.m)  BY <1>2 DEF Consistent
<1>4. ASSUME NEW I \in SUBSET Heads(r), NEW s \in Status PROVE Cardinality(Fiber(I, l.m, s)) = 0
  <2>1. Fiber(I, l.m, s) = {}  BY <1>1, NoneNoStatus DEF Fiber
  <2> QED  BY <2>1, FS_EmptySet
<1>5. \A s \in Status : Number(<< >>, {s}) = 0  BY NumberEmpty
<1>6. Heads(r) \in SUBSET Heads(r) /\ KeptHeads(r) \in SUBSET Heads(r)  BY KeptHeadNumbers
<1>7. Tidy(l)  BY <1>1, <1>3, <1>4, <1>5, <1>6 DEF Tidy
<1>8. ASSUME NEW s, Accepts(r, s) PROVE Convenient(r, l.m, s)
  <2>1. FreeHeads(r, l.m, s) # {}  BY <1>8, <1>2 DEF Accepts, FreeHeads
  <2>2. \A v : Bound(r, l.m, v) = {}  BY <1>2, BoundIs
  <2> QED  BY <2>1, <2>2 DEF Convenient
<1> QED  BY <1>7, <1>8 DEF l

\* Adding a convenient constraint; a rule that keeps heads needs a name for each.
LEMMA AddTidy ==
  ASSUME NEW l, GoodList(l), Tidy(l), Known \subseteq Status, NEW s \in Known,
         Convenient(l.rule, l.m, s), DistinctNames(l.rule) \/ ~Rules[l.rule].simpagation
  PROVE  /\ Tidy(Add(l, s))
         /\ \A h \in Heads(l.rule) : l.m[h] # None => Add(l, s).m[h] = l.m[h]
         /\ \E h \in Heads(l.rule) : l.m[h] = None /\ Add(l, s).m[h] = s
<1> DEFINE r == l.rule
           F == FreeHeads(r, l.m, s)
           h == Least(F)
           n == [l.m EXCEPT ![h] = s]
           same == {g \in l.spare : HeadName(r, g) = con[s].name}
           spare == IF same = {} THEN l.spare ELSE l.spare \ {Least(same)}
           keep == IF Rules[r].simpagation /\ same = {} THEN Append(l.keep, s) ELSE l.keep
           a == Add(l, s)
<1>1. r \in RuleId /\ l.m \in Match(r, Known) /\ l \in List  BY DEF GoodList
<1>2. l.used \in Seq(Known) /\ l.keep \in Seq(Known)  BY <1>1 DEF List
<1>3. a.rule = r /\ a.m = n /\ a.used = Append(l.used, s) /\ a.spare = spare /\ a.keep = keep
  BY <1>1 DEF Add, List
<1>4. h \in Heads(r) /\ l.m[h] = None /\ HeadName(r, h) = con[s].name
  <2>1. F \in SUBSET Nat /\ F # {}  BY <1>1, HeadNumbers DEF FreeHeads, Convenient
  <2>2. h \in F  BY <2>1, LeastIn
  <2> QED  BY <2>2 DEF FreeHeads, Matched
<1>5. s \in Status /\ s # None  BY NoneNoStatus
<1>6. Consistent(r, n)  BY <1>1, <1>5, ConvenientConsistent DEF Tidy
<1> HIDE DEF h
<1>7. n[h] = s /\ \A g \in Heads(r) \ {h} : n[g] = l.m[g]  BY <1>1, <1>4 DEF Match
<1>8. \A u \in Status : Number(a.used, {u}) = Cardinality(Fiber(Heads(r), n, u))
  <2> SUFFICES ASSUME NEW u \in Status
               PROVE  Number(a.used, {u}) = Cardinality(Fiber(Heads(r), n, u))
    OBVIOUS
  <2>1. Number(Append(l.used, s), {u}) = Number(l.used, {u}) + One(s \in {u})
    BY <1>2, NumberAppend
  <2> HIDE DEF n
  <2>2. Heads(r) \in SUBSET Heads(r)  OBVIOUS
  <2>3. Cardinality(Fiber(Heads(r), n, u)) =
        Cardinality(Fiber(Heads(r), l.m, u)) + (IF h \in Heads(r) /\ u = s THEN 1 ELSE 0)
    BY <1>1, <1>4, <1>5, <1>7, <2>2, OverFill
  <2>4. One(s \in {u}) = (IF h \in Heads(r) /\ u = s THEN 1 ELSE 0)  BY <1>4 DEF One
  <2> QED  BY <1>3, <2>1, <2>3, <2>4 DEF Tidy
<1>9. Rules[r].simpagation => same = {g \in {h} : h > Rules[r].keep}
  BY <1>1, <1>4 DEF Tidy, DistinctNames
<1>10. Rules[r].simpagation =>
         spare = {g \in Heads(r) : g > Rules[r].keep /\ n[g] = None}
  <2> SUFFICES ASSUME Rules[r].simpagation
               PROVE  spare = {g \in Heads(r) : g > Rules[r].keep /\ n[g] = None}
    OBVIOUS
  <2>1. l.spare = {g \in Heads(r) : g > Rules[r].keep /\ l.m[g] = None}  BY DEF Tidy
  <2>2. CASE h > Rules[r].keep
    <3>1. same = {h}  BY <1>9, <2>2
    <3>2. Least(same) = h
      <4>1. h \in Nat  BY <1>1, <1>4, HeadNumbers
      <4> HIDE DEF same
      <4> QED  BY <3>1, <4>1, LeastIn
    <3>3. spare = l.spare \ {h}  BY <3>1, <3>2
    <3> HIDE DEF spare, n
    <3> QED  BY <1>5, <1>7, <2>1, <3>3
  <2>3. CASE ~(h > Rules[r].keep)
    <3>1. same = {}  BY <1>9, <2>3
    <3>2. spare = l.spare  BY <3>1
    <3> HIDE DEF spare, n
    <3> QED  BY <1>7, <2>1, <2>3, <3>2
  <2> QED  BY <2>2, <2>3
<1>11. \A u \in Status : Number(keep, {u}) = Cardinality(Fiber(KeptHeads(r), n, u))
  <2> SUFFICES ASSUME NEW u \in Status
               PROVE  Number(keep, {u}) = Cardinality(Fiber(KeptHeads(r), n, u))
    OBVIOUS
  <2>1. KeptHeads(r) \in SUBSET Heads(r) /\ (h \in KeptHeads(r) <=> ~(h > Rules[r].keep))
        /\ (~Rules[r].simpagation => KeptHeads(r) = {})
    BY <1>1, <1>4, KeptHeadNumbers
  <2>2. Number(l.keep, {u}) = Cardinality(Fiber(KeptHeads(r), l.m, u))  BY DEF Tidy
  <2> HIDE DEF n
  <2>3. Cardinality(Fiber(KeptHeads(r), n, u)) =
        Cardinality(Fiber(KeptHeads(r), l.m, u)) + (IF h \in KeptHeads(r) /\ u = s THEN 1 ELSE 0)
    BY <1>1, <1>4, <1>5, <1>7, <2>1, OverFill
  <2>4. Number(l.keep, {u}) \in Nat  BY <1>2, PickFinite
  <2>5. CASE Rules[r].simpagation /\ h \in KeptHeads(r)
    <3>1. keep = Append(l.keep, s)  BY <1>9, <2>1, <2>5
    <3>2. Number(Append(l.keep, s), {u}) = Number(l.keep, {u}) + One(s \in {u})
      BY <1>2, NumberAppend
    <3>3. One(s \in {u}) = (IF h \in KeptHeads(r) /\ u = s THEN 1 ELSE 0)  BY <2>5 DEF One
    <3> QED  BY <2>2, <2>3, <3>1, <3>2, <3>3
  <2>6. CASE ~(Rules[r].simpagation /\ h \in KeptHeads(r))
    <3>1. keep = l.keep  BY <1>9, <2>1, <2>6
    <3>2. ~(h \in KeptHeads(r) /\ u = s)  BY <2>1, <2>6
    <3> HIDE DEF keep
    <3> QED  BY <2>2, <2>3, <2>4, <3>1, <3>2
  <2> QED  BY <2>5, <2>6
<1> HIDE DEF n, spare, keep, a
<1>12. Tidy(a)  BY <1>3, <1>6, <1>8, <1>10, <1>11 DEF Tidy
<1>13. \A g \in Heads(r) : l.m[g] # None => a.m[g] = l.m[g]  BY <1>3, <1>4, <1>7
<1>14. l.m[h] = None /\ a.m[h] = s  BY <1>3, <1>4, <1>7
<1> QED  BY <1>4, <1>12, <1>13, <1>14 DEF a

\* Taking a constraint back when each head has a name of its own: the one entry of
\* equal value in used_stati_ is the right one, and it goes.
LEMMA RemoveTidy ==
  ASSUME NEW l, GoodList(l), Tidy(l), Known \subseteq Status, DistinctNames(l.rule),
         ~Rules[l.rule].simpagation, NEW s \in Known, NEW h \in Heads(l.rule), l.m[h] = s
  PROVE  /\ Tidy(Remove(l, s))
         /\ \A g \in Heads(l.rule) : l.m[g] # s => Remove(l, s).m[g] = l.m[g]
         /\ \E i \in DOMAIN l.used : /\ {j \in DOMAIN l.used : con[l.used[j]] = con[s]} = {i}
                                     /\ l.used[i] = s /\ Remove(l, s).used = DropAt(l.used, i)
<1> DEFINE r == l.rule
           n == Without(r, l.m, s)
           twin == {i \in DOMAIN l.used : con[l.used[i]] = con[s]}
           i == Least(twin)
           a == Remove(l, s)
<1>1. /\ r \in RuleId /\ l.m \in Match(r, Known) /\ Named(r, l.m)
      /\ l.used \in Seq(Known) /\ l \in List /\ s \in Status /\ s # None
  BY NoneNoStatus DEF GoodList, List
<1>2. n \in Match(r, Known) /\ \A g \in Heads(r) : n[g] = IF l.m[g] = s THEN None ELSE l.m[g]
  BY <1>1 DEF Without, Match
<1>3. \A g \in Heads(r) : l.m[g] = s => g = h
  BY <1>1 DEF Named, DistinctNames
<1>4. ById(r, n) = n /\ Consistent(r, n)
  <2>1. Known \in SUBSET Nat  BY DEF Status
  <2>2. Consistent(r, n)  BY <1>1, ConsistentWithout DEF Tidy
  <2> HIDE DEF n
  <2> QED  BY <1>1, <1>2, <2>1, <2>2, ByIdDistinct
<1>5. \A j \in DOMAIN l.used : l.used[j] \in Known  BY <1>1, LenProperties, ElementOfSeq
<1>6. ASSUME NEW j \in DOMAIN l.used PROVE \E g \in Heads(r) : l.m[g] = l.used[j]
  <2> DEFINE u == l.used[j]
  <2>1. u \in Status  BY <1>5
  <2>2. j \in Pick(l.used, {u})  BY DEF Pick
  <2> HIDE DEF u
  <2>3. IsFiniteSet(Pick(l.used, {u})) /\ Number(l.used, {u}) # 0
    BY <1>1, <2>2, PickFinite, FS_EmptySet DEF Number
  <2>4. Cardinality(Fiber(Heads(r), l.m, u)) # 0  BY <2>1, <2>3 DEF Tidy
  <2>5. Fiber(Heads(r), l.m, u) # {}  BY <2>4, FS_EmptySet
  <2> QED  BY <2>5 DEF Fiber, u
<1>7. \A j \in twin : l.used[j] = s
  <2> SUFFICES ASSUME NEW j \in twin PROVE l.used[j] = s  OBVIOUS
  <2>1. PICK g \in Heads(r) : l.m[g] = l.used[j]  BY <1>6
  <2>2. l.used[j] # None /\ con[l.used[j]] = con[s]  BY <1>5, NoneNoStatus
  <2>3. HeadName(r, g) = HeadName(r, h)  BY <1>1, <2>1, <2>2 DEF Named
  <2> QED  BY <2>1, <2>3 DEF DistinctNames
<1>8. i \in twin /\ i \in DOMAIN l.used
  <2>1. h \in Fiber(Heads(r), l.m, s)  BY DEF Fiber
  <2>2. Cardinality(Fiber(Heads(r), l.m, s)) # 0
    <3>1. Heads(r) \in SUBSET Heads(r)  OBVIOUS
    <3> QED  BY <1>1, <2>1, <3>1, OverPart, FS_EmptySet
  <2>3. Number(l.used, {s}) # 0  BY <1>1, <2>2 DEF Tidy
  <2>4. Pick(l.used, {s}) # {}  BY <2>3, FS_EmptySet DEF Number
  <2>5. twin # {}  BY <2>4 DEF Pick
  <2>6. twin \in SUBSET Nat  BY <1>1, LenProperties
  <2> HIDE DEF twin
  <2>7. i \in twin  BY <2>5, <2>6, LeastIn
  <2> QED  BY <2>7 DEF twin
<1>9. Replay(r, n) = n  BY <1>4 DEF Replay, Agreeing
<1>10. a = [l EXCEPT !.m = n, !.used = DropAt(@, i)]  BY <1>4, <1>8, <1>9 DEF Remove
<1> HIDE DEF n, i, twin
<1>11. a.rule = r /\ a.m = n /\ a.used = DropAt(l.used, i) /\ a.keep = l.keep
  BY <1>1, <1>10 DEF List
<1>12. l.used[i] = s  BY <1>7, <1>8
<1>13. ASSUME NEW u \in Status
       PROVE  Number(a.used, {u}) = Cardinality(Fiber(Heads(r), n, u))
  <2>1. Number(l.used, {u}) = Number(DropAt(l.used, i), {u}) + One(l.used[i] \in {u})
    BY <1>1, <1>8, NumberWithout DEF DropAt
  <2>2. Number(l.used, {u}) = Cardinality(Fiber(Heads(r), l.m, u))  BY DEF Tidy
  <2>3. Number(DropAt(l.used, i), {u}) \in Nat  BY <1>1, <1>8, DropAtSeq, PickFinite
  <2>4. n[h] = None /\ l.m[h] = s /\ \A g \in Heads(r) \ {h} : l.m[g] = n[g]
    BY <1>1, <1>2, <1>3
  <2> HIDE DEF a
  <2>5. Cardinality(Fiber(Heads(r), l.m, u)) =
        Cardinality(Fiber(Heads(r), n, u)) + (IF h \in Heads(r) /\ u = s THEN 1 ELSE 0)
    <3>1. Heads(r) \in SUBSET Heads(r) /\ h \in Heads(r)  OBVIOUS
    <3>2. PICK m : m = l.m  OBVIOUS
    <3>3. n[h] = None /\ m[h] = s /\ \A g \in Heads(r) \ {h} : m[g] = n[g]  BY <2>4, <3>2
    <3> HIDE DEF r
    <3>4. r \in RuleId /\ s \in Status  BY <1>1
    <3>5. Cardinality(Fiber(Heads(r), m, u)) =
          Cardinality(Fiber(Heads(r), n, u)) + (IF h \in Heads(r) /\ u = s THEN 1 ELSE 0)
      BY <3>1, <3>3, <3>4, OverFill
    <3> QED  BY <3>2, <3>5
  <2>6. Cardinality(Fiber(Heads(r), n, u)) \in Nat
    <3>1. Heads(r) \in SUBSET Heads(r)  OBVIOUS
    <3> QED  BY <1>1, <3>1, OverPart
  <2>7. One(l.used[i] \in {u}) = IF h \in Heads(r) /\ u = s THEN 1 ELSE 0
    BY <1>12 DEF One
  <2> QED  BY <1>11, <2>1, <2>2, <2>3, <2>5, <2>6, <2>7
<1>14. ASSUME NEW u \in Status
       PROVE  Number(a.keep, {u}) = Cardinality(Fiber(KeptHeads(r), n, u))
  <2>1. Fiber(KeptHeads(r), n, u) = {} /\ Fiber(KeptHeads(r), l.m, u) = {}
    BY <1>1, KeptHeadNumbers DEF Fiber
  <2> QED  BY <1>11, <2>1 DEF Tidy
<1>15. Tidy(a)  BY <1>4, <1>11, <1>13, <1>14 DEF Tidy
<1> HIDE DEF a
<1>16. \A g \in Heads(r) : l.m[g] # s => a.m[g] = l.m[g]  BY <1>2, <1>11
<1>17. twin = {i}
  <2>1. Fiber(Heads(r), l.m, s) = {h}  BY <1>3 DEF Fiber
  <2>2. Number(l.used, {s}) = 1
    <3>1. Cardinality({h}) = 1  BY FS_Singleton
    <3> QED  BY <1>1, <2>1, <3>1 DEF Tidy
  <2>3. PICK x : Pick(l.used, {s}) = {x}
    <3>1. IsFiniteSet(Pick(l.used, {s}))  BY <1>1, PickFinite
    <3> QED  BY <2>2, <3>1, FS_Singleton DEF Number
  <2>4. twin \subseteq Pick(l.used, {s})  BY <1>7 DEF Pick, twin
  <2> QED  BY <1>8, <2>3, <2>4
<1> QED  BY <1>8, <1>11, <1>12, <1>15, <1>16, <1>17 DEF a, twin

\* What an orderly rule fires with: the constraints it claimed, as many times, in
\* an order that matches its heads, the kept ones first.
LEMMA TidyFires ==
  ASSUME NEW l, GoodList(l), Tidy(l), Complete(l.rule, l.m), OrderlyRule(l.rule),
         Known \subseteq Status
  PROVE  /\ ById(l.rule, l.m) \in [Heads(l.rule) -> Known]
         /\ Named(l.rule, ById(l.rule, l.m)) /\ Consistent(l.rule, ById(l.rule, l.m))
         /\ \A s \in Status :
              /\ Number(l.used, {s}) = Cardinality(Fiber(Heads(l.rule), ById(l.rule, l.m), s))
              /\ Number(l.keep, {s}) = Cardinality(Fiber(KeptHeads(l.rule), ById(l.rule, l.m), s))
<1> DEFINE r == l.rule
           p == ById(r, l.m)
<1>1. r \in RuleId /\ l.m \in Match(r, Known) /\ Named(r, l.m) /\ Known \in SUBSET Nat
  BY DEF GoodList, Status
<1>2. p \in Match(r, Known) /\ Named(r, p) /\ Complete(r, p)  BY <1>1, ByIdMatch
<1>3. \A s : Cardinality(Fiber(Heads(r), p, s)) = Cardinality(Fiber(Heads(r), l.m, s))
  BY <1>1, ByIdPermutes
<1> HIDE DEF p
<1>4. p \in [Heads(r) -> Known]  BY <1>2 DEF Match, Complete, Matched
<1>5. CASE DistinctNames(r)
  <2>1. p = l.m  BY <1>1, <1>5, ByIdDistinct DEF p
  <2> QED  BY <1>2, <1>4, <2>1 DEF Tidy, p
<1>6. CASE ~DistinctNames(r)
  <2>1. ~Rules[r].simpagation /\ (Rules[r].ignore \/ Separate(r))
    BY <1>6 DEF OrderlyRule
  <2>2. \A s : Fiber(KeptHeads(r), p, s) = {} /\ Fiber(KeptHeads(r), l.m, s) = {}
    BY <1>1, <2>1, KeptHeadNumbers DEF Fiber
  <2>3. Separate(r) => Agree(r, p)
    BY <1>1, Variables DEF Separate, Agree, Matched
  <2>4. Consistent(r, p)  BY <1>1, <2>1, <2>3, ConsistentIs
  <2> QED  BY <1>2, <1>3, <1>4, <2>2, <2>4 DEF Tidy, p
<1> QED  BY <1>5, <1>6
==============================================================================
