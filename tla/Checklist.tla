------------------------------ MODULE Checklist ------------------------------
(***************************************************************************)
(* The matching of constraints against the heads of a rule: MatchChecklist *)
(* of Match_Checklist.h, and the keys under which Store.cpp indexes a      *)
(* constraint.  A search for partners keeps one checklist; everything here *)
(* is local to the searching thread and is therefore an operator.          *)
(***************************************************************************)
EXTENDS Integers, Sequences, FiniteSets, Multiset

CONSTANTS
  Con,        \* the constraints [name, args] the program can create
  Rules,      \* the sequence rules_: [heads, keep, simpagation, ignore], the
              \* heads [name, vars], the first keep of them kept
  MaxStatus   \* bound on the stati (distinct constraints) of one execution

RuleId == DOMAIN Rules
Heads(r) == DOMAIN Rules[r].heads
Status == 1..MaxStatus      \* a status is named by the id of its constraint
None == 0

\* Constraint heads repeat no variable and have at most four, only a simpagation
\* rule keeps a head, a rule that ignores its placeholders has at most two heads,
\* and at least one head of a rule is consumed: true of the rules the repository
\* builds, but for primefilter (real_tests.h), which is built with no head to
\* consume.
ASSUME RulesAssumption ==
  /\ MaxStatus \in Nat \ {0}
  /\ \A c \in Con : c.args \in Seq(Nat) /\ Len(c.args) \in 1..4
  /\ Rules \in Seq([heads : Seq([name : {c.name : c \in Con}, vars : Seq(STRING)]),
                    keep : Nat, simpagation : BOOLEAN, ignore : BOOLEAN])
  /\ \A r \in RuleId : /\ Rules[r].keep < Len(Rules[r].heads)
                       /\ ~Rules[r].simpagation => Rules[r].keep = 0
                       /\ Rules[r].ignore => Len(Rules[r].heads) <= 2
                       /\ \A h \in Heads(r) : LET v == Rules[r].heads[h].vars IN
                            /\ Len(v) <= 4
                            /\ \A i, j \in DOMAIN v : v[i] = v[j] => i = j

VARIABLE con                \* the constraint of every status allocated so far

\* The stati allocated so far; a head or a thread may also have none.
Known == DOMAIN con
Maybe == Known \cup {None}

Least(S) == CHOOSE n \in S : \A k \in S : n <= k

(***************************************************************************)
(* A match maps every head of the rule to a status or None: constraints_   *)
(* with its flags.  placeholder_values_ is what the match binds.           *)
(***************************************************************************)
HeadName(r, h) == Rules[r].heads[h].name
HeadVars(r, h) == Rules[r].heads[h].vars
Matched(r, m) == {h \in Heads(r) : m[h] # None}
Complete(r, m) == Matched(r, m) = Heads(r)

Bound(r, m, v) ==           \* the values variable v has in match m
  {con[m[p[1]]].args[p[2]] : p \in {q \in Matched(r, m) \X (1..4) :
       q[2] \in DOMAIN HeadVars(r, q[1]) /\ HeadVars(r, q[1])[q[2]] = v}}

FreeHeads(r, m, s) == {h \in Heads(r) \ Matched(r, m) : HeadName(r, h) = con[s].name}

Accepts(r, s) == \E h \in Heads(r) : HeadName(r, h) = con[s].name

\* Only the first free head of that name is tried.
Convenient(r, m, s) ==
  /\ FreeHeads(r, m, s) # {}
  /\ ~Rules[r].ignore =>
       \E h \in {Least(FreeHeads(r, m, s))} : \A i \in DOMAIN HeadVars(r, h) :
         Bound(r, m, HeadVars(r, h)[i]) \subseteq {con[s].args[i]}

Consistent(r, m) ==
  ~Rules[r].ignore => \A h \in Matched(r, m) : \A i \in DOMAIN HeadVars(r, h) :
                        Bound(r, m, HeadVars(r, h)[i]) = {con[m[h]].args[i]}

(***************************************************************************)
(* arg_hashmap_ and name_hashmap_: a key is the sum of the hashes of some  *)
(* of the arguments, that is the bag of their values; the empty bag is the *)
(* entry of name_hashmap_.  Hash collisions are left out.                  *)
(***************************************************************************)
Key(c, S) == [name |-> c.name, vals |-> BagOf([i \in S |-> c.args[i]])]
NameKey(c) == Key(c, {})
FirstArgKey(c) == Key(c, {1})

\* add_constraint is called for the non-empty sets of argument positions (there
\* are at most four), in lexicographic order.
ArgSets(c) == (SUBSET DOMAIN c.args) \ {{}}
Before(S, T) ==
  \E i \in (S \ T) \cup (T \ S) :
    /\ \A j \in (S \ T) \cup (T \ S) : i <= j
    /\ IF i \in S THEN \E k \in T : k > i ELSE ~ \E k \in S : k > i

Buckets == UNION {{Key(c, S) : S \in ArgSets(c) \cup {{}}} : c \in Con}

\* get_hint: the first free head with a bound variable, else the first free
\* head, and the bucket to search for it.
HintHead(r, m) ==
  LET free == Heads(r) \ Matched(r, m)
      tied == {h \in free : \E i \in DOMAIN HeadVars(r, h) : Bound(r, m, HeadVars(r, h)[i]) # {}}
  IN  Least(IF tied = {} THEN free ELSE tied)

Hint(r, m) ==
  LET v == HeadVars(r, HintHead(r, m))
      B == {i \in DOMAIN v : ~Rules[r].ignore /\ Bound(r, m, v[i]) # {}}
  IN  [name |-> HeadName(r, HintHead(r, m)),
       vals |-> BagOf([i \in B |-> CHOOSE x \in Bound(r, m, v[i]) : TRUE])]

(***************************************************************************)
(* Both the replay of remove_constraint and get_rule_ordered run through   *)
(* the used constraints in the order of their ids and give each the first  *)
(* free head of its name: the one of rank k goes to the k-th such head.    *)
(***************************************************************************)
Sooner(m, g, h) == m[g] < m[h] \/ (m[g] = m[h] /\ g < h)

ById(r, m) ==
  [k \in Heads(r) |->
     LET place(h) == Cardinality({g \in Matched(r, m) : HeadName(r, g) = HeadName(r, k) /\ Sooner(m, g, h)})
         mine == {h \in Matched(r, m) : /\ HeadName(r, h) = HeadName(r, k)
                                        /\ place(h) = Cardinality({g \in Heads(r) : g < k /\ HeadName(r, g) = HeadName(r, k)})}
     IN  IF mine = {} THEN None ELSE m[Least(mine)]]

\* The replay stops at the first constraint that no longer agrees.
UpTo(r, p, h) ==
  [k \in Heads(r) |-> IF p[k] # None /\ (k = h \/ Sooner(p, k, h)) THEN p[k] ELSE None]

Agreeing(r, p) ==
  LET good == {h \in Matched(r, p) : Consistent(r, UpTo(r, p, h))}
  IN  IF Consistent(r, p) THEN p
      ELSE IF good = {} THEN [h \in Heads(r) |-> None]
      ELSE UpTo(r, p, CHOOSE h \in good : \A k \in good : k = h \/ Sooner(p, k, h))

Replay(r, m) == Agreeing(r, ById(r, m))

Without(r, m, s) == [h \in Heads(r) |-> IF m[h] = s THEN None ELSE m[h]]

(***************************************************************************)
(* The counted checklist: the match, used_stati_ in the order of adding,   *)
(* and for a simpagation rule the consumable heads not yet used up (spare, *)
(* consumable_stati_placeholder_) and keep_stati_.                         *)
(***************************************************************************)
List == [rule : Nat, m : Seq(Maybe), used : Seq(Known), keep : Seq(Known), spare : SUBSET Nat]

\* A variant with the last kept head among the consumable ones.
GreedyChecklist(r) ==
  [rule |-> r, m |-> [h \in Heads(r) |-> None], used |-> << >>, keep |-> << >>,
   spare |-> IF Rules[r].simpagation THEN {h \in Heads(r) : h >= Rules[r].keep} ELSE {}]

NewChecklist(r) ==
  [rule |-> r, m |-> [h \in Heads(r) |-> None], used |-> << >>, keep |-> << >>,
   spare |-> IF Rules[r].simpagation THEN {h \in Heads(r) : h > Rules[r].keep} ELSE {}]

Add(l, s) ==
  LET same == {h \in l.spare : HeadName(l.rule, h) = con[s].name}
  IN  [l EXCEPT !.m = [@ EXCEPT ![Least(FreeHeads(l.rule, l.m, s))] = s],
                !.used = Append(@, s),
                !.spare = IF same = {} THEN @ ELSE @ \ {Least(same)},
                !.keep = IF Rules[l.rule].simpagation /\ same = {} THEN Append(@, s) ELSE @]

DropAt(q, i) == SubSeq(q, 1, i - 1) \o SubSeq(q, i + 1, Len(q))

\* A variant that takes the constraint out of the match alone.
Unmatch(l, s) == [l EXCEPT !.m = Replay(l.rule, Without(l.rule, l.m, s))]

\* remove_constraint: every use of the constraint leaves the match, one of
\* equal value leaves used_stati_ when the replay succeeds, and what Add did
\* to spare and keep stays as it is.
Remove(l, s) ==
  LET rest == Without(l.rule, l.m, s)
      m == Replay(l.rule, rest)
      twin == {i \in DOMAIN l.used : con[l.used[i]] = con[s]}
  IN  [l EXCEPT !.m = m,
                !.used = IF Consistent(l.rule, ById(l.rule, rest)) /\ twin # {}
                         THEN DropAt(@, Least(twin)) ELSE @]

\* get_rule_ordered: the constraints the body is called with.
RuleOrdered(l) == [h \in Heads(l.rule) |-> con[ById(l.rule, l.m)[h]]]

(***************************************************************************)
(* Rules whose checklists say the truth in any order: either each head has *)
(* a name of its own, and a rule that keeps heads has two at most, or the  *)
(* rule has two heads at most, keeps none and lets no variable or          *)
(* placeholder relate them.  Of other rules the body may get constraints   *)
(* that do not match its heads, and keep_stati_ one that was taken back.   *)
(***************************************************************************)
DistinctNames(r) == \A g, h \in Heads(r) : HeadName(r, g) = HeadName(r, h) => g = h
Separate(r) ==
  \A g, h \in Heads(r) : g # h =>
    \A i \in DOMAIN HeadVars(r, g), j \in DOMAIN HeadVars(r, h) :
      HeadVars(r, g)[i] # HeadVars(r, h)[j]

OrderlyRule(r) ==
  \/ DistinctNames(r) /\ (Rules[r].simpagation => Len(Rules[r].heads) <= 2)
  \/ /\ Len(Rules[r].heads) <= 2 /\ ~Rules[r].simpagation
     /\ Rules[r].ignore \/ Separate(r)

Orderly == \A r \in RuleId : OrderlyRule(r)

\* A partial restart needs more: each head has a name of its own and none is kept.
\* Else a status that left the match may stay in used_stati_, and is claimed and
\* consumed with a match it is not in.
Apart(r) == DistinctNames(r) /\ ~Rules[r].simpagation
Plain == \A r \in RuleId : Apart(r)
==============================================================================
