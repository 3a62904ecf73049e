--------------------------- MODULE EngineProperties --------------------------
(***************************************************************************)
(* What the engine must do under any matching strategy.                    *)
(***************************************************************************)
EXTENDS Engine

(***************************************************************************)
(* The refinement mapping to CHR.  A match takes effect when its last use  *)
(* is claimed: from then on its constraints are no longer live, and the    *)
(* calls that its thread will make are owed.                               *)
(***************************************************************************)
Firing(t) == pc[t] \in {"consume", "token", "body"}

Taken(s) == Cardinality({o \in Owners(s) : Firing(o[1])})

Live ==
  BagOf([p \in UNION {{s} \X (1..(pending[s] + claimed[s] - Taken(s))) : s \in DOMAIN con} |->
           con[p[1]]])

CallsDue(t) == (IF Firing(t) THEN Epilogue(list[t]) ELSE << >>) \o calls[t]
Owed ==
  LET due == [t \in Thread |-> CallsDue(t)]
  IN  BagOf([p \in UNION {{t} \X DOMAIN due[t] : t \in Thread} |-> due[p[1]][p[2]].con])

Abstract == INSTANCE CHR WITH live <- Live, owed <- Owed

\* The interleaved loads, claims, rollbacks, consumes and re-adds of all threads
\* amount to atomic multiset rewriting: no constraint is lost, duplicated, taken
\* by two rules or taken by a rule it does not match.
MultisetRewriting == Abstract!Spec

(***************************************************************************)
(* At rest nothing can move but a client blocked in sync.                  *)
(***************************************************************************)
AtRest ==
  /\ tasks = << >>
  /\ \A t \in Thread : \/ pc[t] = "ready" /\ calls[t] = << >>
                       \/ pc[t] = "wait" /\ tokens[Goal(t)] = 0

Applicable(r, q) == /\ Abstract!Matches(r, [i \in DOMAIN q |-> con[q[i]]])
                    /\ \A i \in DOMAIN q : pending[q[i]] >= Cardinality({j \in DOMAIN q : q[j] = q[i]})

\* A goal becomes passive only when no rule is applicable (WorkerCHR.cpp:31-33):
\* an engine at rest has no match left among its pending constraints, whichever
\* of the partners was entered last and whatever the threads raced for.
NoLostMatch ==
  AtRest => \A r \in RuleId : \A q \in [Heads(r) -> DOMAIN con] : ~Applicable(r, q)

(***************************************************************************)
(* sync: for a status that only sync calls add, every copy that is still   *)
(* pending, claimed or paid for by a token has its caller in the loop of   *)
(* sync, and no caller is there without one.                               *)
(***************************************************************************)
\* The calls a program makes: those of its scripts, and of the body of each rule for
\* the constraints its heads may match.
ScriptCalls == UNION {UNION {In(script[t]) : t \in Client} : script \in Scripts}

Typed(r, q) == \A h \in Heads(r) : q[h].name = HeadName(r, h)
BodyCalls(r) == UNION {In(Body(r, cs)) : cs \in {q \in [Heads(r) -> Con] : Typed(r, q)}}
ProgramCalls == ScriptCalls \cup UNION {BodyCalls(r) : r \in RuleId}

\* Only sync calls add these, and no rule without MPI keeps, and adds again, one.
SyncOnly ==
  {c \in {k.con : k \in ProgramCalls} :
     /\ \A k \in ProgramCalls : k.con = c => k.op = "sync"
     /\ \A r \in NoMpi : \A h \in 1..Rules[r].keep : HeadName(r, h) # c.name}

\* The caller's own use of the goal is consumed; it leaves once the body ran.
Served(t) == Firing(t) /\ \E i \in DOMAIN list[t].used \ held[t] : OwnUse(t, i)
Callers(s) == {t \in Thread : job[t].op = "sync" /\ Goal(t) = s /\ ~Served(t)}
TokenDue(s) == {t \in Thread : pc[t] = "token" /\ list[t].used[cur[t].at] = s}

\* No sync caller waits for a constraint that was already taken without leaving
\* it a token, and no token lets a caller return whose constraint is not taken.
SyncServed ==
  \A s \in DOMAIN con : con[s] \in SyncOnly =>
    pending[s] + claimed[s] + tokens[s] + Cardinality(TokenDue(s)) = Cardinality(Callers(s))

\* Rule.h:50, "only those are consumed": what a simpagation rule adds again when
\* it has fired is what its kept heads matched, whatever the search tried and
\* took back before.
KeptHeadsReturn ==
  \A t \in Thread : pc[t] = "body" /\ Rules[list[t].rule].simpagation =>
    \A s \in DOMAIN con :
      Cardinality({i \in DOMAIN list[t].keep : list[t].keep[i] = s}) =
      Cardinality({h \in 1..Rules[list[t].rule].keep : list[t].m[h] = s})

\* README.md:16, "the found constraints are locked and the rule is triggered": what
\* a thread claims and consumes for a rule is what the heads of the rule matched,
\* each status as many times, whatever the search and its restarts took back.
ClaimsAreMatched ==
  \A t \in Thread : pc[t] = "body" =>
    \A s \in DOMAIN con :
      Cardinality({i \in DOMAIN list[t].used : list[t].used[i] = s}) =
      Cardinality({h \in Heads(list[t].rule) : list[t].m[h] = s})

\* A goal becomes passive when no rule is applicable (WorkerCHR.cpp:31-33): sync
\* blocks on its constraint only after the rules have been tried on it.
OnlyTriedGoalsWait == \A t \in Thread : pc[t] = "wait" => job[t].run

\* Programs for which it holds: what a rule may keep is added by sync only after a
\* call of async by the same thread, which sets used_mode_.
Keepable == {c \in Con : \E r \in RuleId \ NoMpi : \E h \in 1..Rules[r].keep : HeadName(r, h) = c.name}
SetsMode(k) == k.op = "async" /\ ~k.keep
Primed(q) ==
  \A i \in DOMAIN q : q[i].op = "sync" /\ (q[i].keep \/ q[i].con \in Keepable) =>
    \E j \in 1..(i - 1) : SetsMode(q[j])
ModeIsSet ==
  /\ \A script \in Scripts : \A t \in Client : Primed(script[t])
  /\ \A r \in RuleId : \A q \in [Heads(r) -> Con] : Typed(r, q) => Primed(Body(r, q))

\* A goal that no other thread interferes with fires or becomes passive
\* (WorkerCHR.cpp:31-33): no thread stays in a goal loop while all the others have
\* come to rest for good.  Threads that race may still make each other retry.
Resting(t) == pc[t] \in {"ready", "wait"}
LoneGoalsEnd ==
  \A t \in Thread : ~ <>[](~Resting(t) /\ \A u \in Thread \ {t} : Resting(u))
==============================================================================
