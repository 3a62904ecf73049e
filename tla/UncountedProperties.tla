-------------------------- MODULE UncountedProperties ------------------------
(***************************************************************************)
(* What the uncounted engine must do, whatever the strategy.               *)
(***************************************************************************)
EXTENDS UncountedSearch, Bags

(***************************************************************************)
(* The refinement mapping to CHR.  A match takes effect with its last      *)
(* claim.  Until it is consumed or back to PENDING, what it has claimed is *)
(* no longer live; what it keeps is owed, like a constraint that is being  *)
(* added but not yet entered under its name.                               *)
(***************************************************************************)
Firing(t) == pc[t] \in {"consume", "body"}
Taken == UNION {held[t] : t \in {u \in Thread : Firing(u)}}
Entered(s) == ~ \E t \in Thread : pc[t] = "insert" /\ new[t].goal = s
GoesBack(t) == IF Firing(t) /\ Rules[list[t].rule].simpagation THEN held[t] \ In(list[t].eat) ELSE {}

CallsDue(t) == (IF Firing(t) THEN Body(list[t].rule, Ordered(list[t])) ELSE << >>) \o calls[t]

Live == BagOf([s \in {k \in Known : Entered(k) /\ state[k] # "CONSUMED" /\ k \notin Taken} |-> con[s]])
Owed ==
  LET due == [t \in Thread |-> CallsDue(t)]
  IN  BagOf([p \in UNION {{t} \X DOMAIN due[t] : t \in Thread} |-> due[p[1]][p[2]].con])
        (+) BagOf([s \in UNION {GoesBack(t) : t \in Thread} |-> con[s]])

Abstract == INSTANCE CHR WITH live <- Live, owed <- Owed, Scripts <- {x.script : x \in Setups}

\* The interleaved claims, consumptions and insertions of all threads amount to
\* atomic multiset rewriting: no object is lost, taken by two matches, or consumed
\* by a match that keeps it.
MultisetRewriting == Abstract!Spec

\* A claimed constraint has one claimer, who gives it back or consumes it; no
\* thread thinks it has a claim that another one took from it.
ClaimedByOne ==
  \A s \in Known : Cardinality({t \in Thread : s \in held[t]}) = (IF state[s] = "CLAIMED" THEN 1 ELSE 0)

\* get_result: what is not consumed.
Result == {s \in Known : state[s] # "CONSUMED"}

Applicable(r, q) ==
  /\ \A i, j \in DOMAIN q : q[i] = q[j] => i = j
  /\ Abstract!Matches(r, [i \in DOMAIN q |-> con[q[i]]])

\* A goal becomes passive only when no rule is applicable (WorkerCHR.cpp:31-33):
\* what run_parallel leaves for get_result has no match left, although goals are
\* dropped, tried once, and searched for while others claim and give back.
NoLostMatch ==
  Done => \A r \in RuleId : \A q \in [Heads(r) -> Result] : ~Applicable(r, q)

\* Matches are claimed in the order of the ids, so of the optimistic goals that
\* make each other fail the one that got furthest fires: a batch that repeats goals
\* has also rewritten something, and run_parallel returns.
OptimisticRunEnds == mode = "OPTIMISTIC" => <>(pc[Driver] = "ready" /\ ~batch.due)

(***************************************************************************)
(* What the theorems of UncountedProofs suppose of a program.              *)
(***************************************************************************)
\* Only constraints of S come up in it.
CallsOf(S, q) == \A i \in DOMAIN q : q[i].con \in S
BodiesOf(S) ==
  \A r \in RuleId : \A cs \in [Heads(r) -> S] :
    (\A h \in Heads(r) : cs[h].name = HeadName(r, h)) => CallsOf(S, Body(r, cs))
ProgramOf(S) == BodiesOf(S) /\ \A t \in Thread : CallsOf(S, calls[t])

RulesFor(c) == {r \in RuleId : \E h \in Heads(r) : HeadName(r, h) = c.name}

\* Programs whose constraints have one rule each.  When a rule fails, the pessimistic
\* search gives the goal back and searches for the next rule without claiming it
\* again, so of two goals each can then take the other's constraint.
OneRuleCon == {c \in Con : \E r \in RuleId : RulesFor(c) = {r}}
OneRuleProgram == mode = "PESSIMISTIC" => \E S \in SUBSET OneRuleCon : ProgramOf(S)

\* Programs of rules whose bodies get what their heads matched, in any order of the
\* ids, and that keep the right constraints: each head has a name of its own, or none
\* is kept and no variable relates them.  A partial restart does not put back what was
\* used up of spare, so that a rule which keeps heads then takes one for another.
FaithfulRule(m, r) ==
  /\ DistinctNames(r) \/ (~Rules[r].simpagation /\ (Rules[r].ignore \/ Separate(r)))
  /\ m = "PARTIAL" => ~Rules[r].simpagation
FaithfulCon(m) == {c \in Con : \A r \in RulesFor(c) : FaithfulRule(m, r)}
FaithfulProgram == \E S \in SUBSET FaithfulCon(mode) : ProgramOf(S)
==============================================================================
