------------------------------ MODULE Programs -------------------------------
(***************************************************************************)
(* The rule programs of test_mpi.h and real_tests.h that the runs execute, *)
(* on a few constraints and for the clients p, q and r.  A run may hold    *)
(* the rules of several programs; it then executes one script or another.  *)
(***************************************************************************)
EXTENDS Integers, Sequences

LOCAL H(n, v) == [name |-> n, vars |-> v]
LOCAL Simplify(h) == [heads |-> h, keep |-> 0, simpagation |-> FALSE, ignore |-> FALSE]
LOCAL Keeping(k, rule) == [rule EXCEPT !.keep = k, !.simpagation = TRUE]
C(n, a) == [name |-> n, args |-> a]
Async(c) == [op |-> "async", con |-> c, keep |-> FALSE]
Sync(c) == [op |-> "sync", con |-> c, keep |-> FALSE]
AddTo(c) == [op |-> "add", con |-> c, keep |-> FALSE]

Clients == {"p", "q", "r"}
Calls(p, q, r) == [c \in Clients |-> IF c = "p" THEN p ELSE IF c = "q" THEN q ELSE r]

\* test_mutex: a sync acquire takes the release that an async call puts back.
acquire == C("acquire", <<1>>)
release == C("release", <<1>>)
MutexCon == {acquire, release}
MutexRules == <<[Simplify(<<H("acquire", <<"x">>), H("release", <<"x">>)>>) EXCEPT !.ignore = TRUE]>>
MutexScript ==
  Calls(<<Async(release), Sync(acquire), Async(release)>>, <<Sync(acquire), Async(release)>>, << >>)
RelockScript ==
  Calls(<<Async(release), Sync(acquire), Async(release), Sync(acquire), Async(release)>>,
        <<Sync(acquire), Async(release)>>, << >>)

\* test_barrier: A, B, C, D meet (three of them here), each client twice.
BarrierCon == {C("A", <<42>>), C("B", <<42>>), C("C", <<42>>)}
BarrierRules == <<Simplify(<<H("A", <<"A">>), H("B", <<"B">>), H("C", <<"C">>)>>)>>
Twice(n) == <<Sync(C(n, <<42>>)), Sync(C(n, <<42>>))>>
BarrierScript == Calls(Twice("A"), Twice("B"), Twice("C"))

\* test_sum: num(x), num(y) <=> num(x + y), on numbers of which two are equal.
num(n) == C("num", <<n>>)
SumCon == {num(n) : n \in 1..4}
SumRules == <<Simplify(<<H("num", <<"x">>), H("num", <<"y">>)>>)>>
SumBody(cs) == LET n == cs[1].args[1] + cs[2].args[1]
               IN  IF num(n) \in SumCon THEN <<Async(num(n))>> ELSE << >>
SumScript == Calls(<<Async(num(1)), Async(num(2)), Async(num(1))>>, << >>, << >>)
\* A number that never meets another one.
OneNumberScript == Calls(<<Async(num(1))>>, << >>, << >>)

\* Three numbers for one rule, num(x), num(y), num(z) <=> true, where only two are.
LoneRules == <<Simplify(<<H("num", <<"x">>), H("num", <<"y">>), H("num", <<"z">>)>>)>>
LoneScript == Calls(<<AddTo(num(2)), Async(num(1))>>, << >>, << >>)

\* error_case: a(x), b(x,y), c(y) <=> true; the first b leads nowhere.
ChainCon == {C("a", <<2>>), C("b", <<2, 3>>), C("b", <<2, 4>>), C("c", <<4>>)}
ChainRules == <<Simplify(<<H("a", <<"x">>), H("b", <<"x", "y">>), H("c", <<"y">>)>>)>>
ChainScript ==
  Calls(<<Async(C("c", <<4>>)), Async(C("b", <<2, 3>>)), Async(C("b", <<2, 4>>)), Async(C("a", <<2>>))>>,
        << >>, << >>)

\* A goal that two rules accept, e(x), f(x) <=> true and e(x), g(x) <=> true.
EitherCon == {C(n, <<1>>) : n \in {"e", "f", "g"}}
EitherRules == <<Simplify(<<H("e", <<"x">>), H("f", <<"x">>)>>),
                 Simplify(<<H("e", <<"x">>), H("g", <<"x">>)>>)>>
EitherScript == Calls(<<Async(C("g", <<1>>)), Async(C("e", <<1>>))>>, <<Async(C("f", <<1>>))>>, << >>)

\* item(y) \ get(x) <=> true of real_tests.h: two clients with an item each, and an
\* item of a sync call, which its taker adds again by sync.
item(x) == C("item", <<x>>)
get(x) == C("get", <<x>>)
KeepCon == {item(1), item(2), get(1), get(2)}
KeepRules == <<Keeping(1, Simplify(<<H("item", <<"y">>), H("get", <<"x">>)>>))>>
KeepScript ==
  Calls(<<AddTo(item(1)), Sync(get(1))>>, <<AddTo(item(2)), Sync(get(2))>>, << >>)
PassOnScript == Calls(<<Async(item(2)), Sync(item(1))>>, <<Sync(get(1))>>, << >>)

\* bag2, without use_mpi_: insert(x) <=> item(x) (its insert is called put here) and
\* item(y) \ get(x) <=> true.
put(x) == C("put", <<x>>)
BagCon == KeepCon \cup {put(1), put(2)}
BagRules == <<Simplify(<<H("put", <<"x">>)>>)>> \o KeepRules
BagScript == Calls(<<AddTo(put(1)), AddTo(get(1)), AddTo(put(2)), AddTo(get(2))>>, << >>, << >>)

\* test_unordered_map: insert(x,y) <=> map(x,y), and map(x,y) \ find(x) <=> true.
MapCon == {C("insert", <<1, 1>>), C("map", <<1, 1>>), C("find", <<1>>)}
MapRules == <<Simplify(<<H("insert", <<"x", "y">>)>>),
              Keeping(1, Simplify(<<H("map", <<"x", "y">>), H("find", <<"x">>)>>))>>
MapBody(cs) == <<Async(C("map", cs[1].args))>>
MapScript ==
  Calls(<<Sync(C("insert", <<1, 1>>)), Sync(C("find", <<1>>))>>, <<Sync(C("find", <<1>>))>>, << >>)

\* test_blocksworld: block(b) \ clear(y), on(b,x), move(b,x,y) <=> clear(x), on(b,y).
\* Of two moves of the block only the second has a clear target.
move(y) == C("move", <<1, 5, y>>)
BlocksCon == {C("block", <<1>>), move(6), move(7)} \cup {C("clear", <<y>>) : y \in {5, 7}}
             \cup {C("on", <<1, x>>) : x \in {5, 7}}
BlocksRules ==
  <<Keeping(1, Simplify(<<H("block", <<"b">>), H("clear", <<"y">>), H("on", <<"b", "x">>),
                          H("move", <<"b", "x", "y">>)>>))>>
BlocksBody(cs) == <<Async(C("clear", <<cs[3].args[2]>>)), Async(C("on", <<1, cs[2].args[1]>>))>>
BlocksScript ==
  Calls(<<AddTo(move(6)), AddTo(move(7)), AddTo(C("on", <<1, 5>>)), AddTo(C("clear", <<7>>)),
          Async(C("block", <<1>>))>>, << >>, << >>)

\* The body of the rule whose heads matched cs.
ProgramBody(r, cs) ==
  CASE cs[1].name = "num" -> SumBody(cs)
    [] cs[1].name = "insert" -> MapBody(cs)
    [] cs[1].name = "block" -> BlocksBody(cs)
    [] OTHER -> << >>

(***************************************************************************)
(* Programs of run_parallel: p adds constraints and runs the batches.      *)
(***************************************************************************)
\* accumulate of real_tests.h: item(x), item(y) <=> item(x + y), whatever x and y
\* are (its item is called part here, apart from the item of the bag).
part(n) == C("part", <<n>>)
PartRules == <<[Simplify(<<H("part", <<"x">>), H("part", <<"y">>)>>) EXCEPT !.ignore = TRUE]>>
PartCon == {part(n) : n \in 1..6}
PartBody(cs) == LET n == cs[1].args[1] + cs[2].args[1]
                IN  IF part(n) \in PartCon THEN <<AddTo(part(n))>> ELSE << >>
PartScript == Calls(<<AddTo(part(1)), AddTo(part(2)), AddTo(part(3))>>, << >>, << >>)

\* The same with goals of async1 and sync1.
PartSyncScript == Calls(<<Async(part(1))>>, <<Sync(part(2))>>, << >>)

\* dining_philosophers: think(p,l,r), forkleft(l), forkright(r) <=> the forks again.
think(p) == C("think", <<p, 1, 1>>)
forkleft == C("forkleft", <<1>>)
forkright == C("forkright", <<1>>)
ForkCon == {think(1), think(2), forkleft, forkright}
ForkRules ==
  <<Simplify(<<H("think", <<"p", "l", "r">>), H("forkleft", <<"l">>), H("forkright", <<"r">>)>>)>>
ForkBody(cs) == <<AddTo(forkleft), AddTo(forkright)>>
ForkScript(n) ==
  Calls(<<AddTo(forkleft), AddTo(forkright)>> \o [p \in 1..n |-> AddTo(think(p))], << >>, << >>)

\* unordered_map with a map that is kept.
FindScript(n) ==
  Calls(<<AddTo(C("insert", <<1, 1>>))>> \o [i \in 1..n |-> AddTo(C("find", <<1>>))], << >>, << >>)

EitherAddScript ==
  Calls(<<AddTo(C("g", <<1>>)), AddTo(C("e", <<1>>)), AddTo(C("f", <<1>>))>>, << >>, << >>)

UncountedBody(r, cs) ==
  CASE cs[1].name = "part" -> PartBody(cs)
    [] cs[1].name = "think" -> ForkBody(cs)
    [] cs[1].name = "insert" -> <<AddTo(C("map", cs[1].args))>>
    [] OTHER -> << >>

(***************************************************************************)
(* What the runs execute.                                                  *)
(***************************************************************************)
MeetCon == MutexCon \cup BarrierCon
MeetRules == MutexRules \o BarrierRules
MeetScripts == {MutexScript, BarrierScript}

SearchCon == ChainCon \cup SumCon \cup EitherCon \cup KeepCon
SearchRules == ChainRules \o SumRules \o EitherRules \o KeepRules
SearchScripts == {ChainScript, SumScript, EitherScript, KeepScript, PassOnScript}

AllCon == MeetCon \cup SearchCon
AllRules == MeetRules \o SearchRules
AllScripts == MeetScripts \cup SearchScripts

ProgressCon == ChainCon \cup SumCon \cup EitherCon
ProgressRules == ChainRules \o SumRules \o EitherRules
ProgressScripts == {ChainScript, SumScript, EitherScript}

MatchCon == MeetCon \cup ChainCon \cup SumCon \cup KeepCon \cup MapCon
MatchRules == MeetRules \o ChainRules \o SumRules \o KeepRules \o MapRules
MatchScripts == MeetScripts \cup {ChainScript, SumScript, KeepScript, MapScript}

RestartCon == MutexCon \cup ProgressCon
RestartRules == MutexRules \o ProgressRules
RestartScripts == {MutexScript} \cup ProgressScripts

Setup(script, mode, runs) == [script |-> script, mode |-> mode, runs |-> runs]

RelockScripts == {RelockScript}
LoneScripts == {LoneScript}
MapScripts == {MapScript}
BlocksScripts == {BlocksScript}

\* Lone goals of the goal loops, and the same programs in batches of run_parallel2.
BatchCon == ProgressCon \cup BagCon \cup PartCon \cup ForkCon \cup MapCon
BatchRules == BagRules \o ProgressRules \o PartRules \o ForkRules \o MapRules
BagMpi == {2}
BatchBody(r, cs) ==
  CASE cs[1].name = "num" -> SumBody(cs)
    [] cs[1].name = "put" -> <<AddTo(item(cs[1].args[1]))>>
    [] OTHER -> UncountedBody(r, cs)
BatchSetups ==
  {Setup(x, m, TRUE) : x \in {PartScript, FindScript(1), BagScript},
                       m \in {"PESSIMISTIC", "OPTIMISTIC", "PARTIAL"}}
  \cup {Setup(ForkScript(1), m, TRUE) : m \in {"PESSIMISTIC", "OPTIMISTIC"}}
  \cup {Setup(FindScript(2), "OPTIMISTIC", TRUE)}
  \cup {Setup(x, "OPTIMISTIC", FALSE) : x \in ProgressScripts \cup {OneNumberScript}}
BatchScriptsAll == {x.script : x \in BatchSetups}

UncountedCon == PartCon \cup ForkCon \cup MapCon \cup EitherCon
UncountedRules == PartRules \o ForkRules \o MapRules \o EitherRules
UncountedSetups ==
  {Setup(x, m, TRUE) : x \in {PartScript, ForkScript(2), FindScript(1), EitherAddScript},
                       m \in {"PESSIMISTIC", "OPTIMISTIC", "PARTIAL"}}
  \cup {Setup(PartSyncScript, m, FALSE) : m \in {"PESSIMISTIC", "OPTIMISTIC", "PARTIAL"}}
=============================================================================
