--------------------------------- MODULE CHR ---------------------------------
(***************************************************************************)
(* What the engine promises: concurrent multiset rewriting.  A constraint  *)
(* is owed until the call that adds it has entered it, and live until a    *)
(* rule takes it.  Firing a rule takes the constraints of all its heads at *)
(* once; the body's constraints and the kept ones are owed from then on.   *)
(***************************************************************************)
EXTENDS Integers, Sequences, Bags, Multiset

CONSTANTS Rules, Client, Scripts, Body(_, _)

VARIABLES live, owed     \* bags of constraints

\* What calls add, for a sequence of calls or a family of them.
AddedBy(q) == BagOf([i \in DOMAIN q |-> q[i].con])

Init ==
  /\ live = EmptyBag
  /\ \E script \in Scripts :
       owed = AddedBy([p \in UNION {{k} \X DOMAIN script[k] : k \in Client} |-> script[p[1]][p[2]]])

Deliver(c) ==
  /\ live' = live (+) SetToBag({c})
  /\ owed' = owed (-) SetToBag({c})

\* The constraints cs match the heads of rule r.
Matches(r, cs) ==
  LET h == Rules[r].heads IN
  /\ \A i \in DOMAIN h : cs[i].name = h[i].name
  /\ Rules[r].ignore \/
       \A i, j \in DOMAIN h : \A a \in DOMAIN h[i].vars, b \in DOMAIN h[j].vars :
          h[i].vars[a] = h[j].vars[b] => cs[i].args[a] = cs[j].args[b]

Fire(r, cs) ==
  /\ Matches(r, cs) /\ BagOf(cs) \sqsubseteq live
  /\ live' = live (-) BagOf(cs)
  /\ owed' = owed (+) AddedBy(Body(r, cs)) (+) BagOf(SubSeq(cs, 1, Rules[r].keep))

\* Searching, claiming and indexing show nothing here.
Idle == UNCHANGED <<live, owed>>

Next ==
  \/ Idle
  \/ \E c \in BagToSet(owed) : Deliver(c)
  \/ \E r \in DOMAIN Rules : \E cs \in [DOMAIN Rules[r].heads -> BagToSet(live)] : Fire(r, cs)

Spec == Init /\ [][Next]_<<live, owed>>
==============================================================================
