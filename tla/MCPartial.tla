------------------------------- MODULE MCPartial -----------------------------
(***************************************************************************)
(* Model checking of Partial on the programs of Programs.tla.              *)
(***************************************************************************)
EXTENDS Partial, EngineProperties, Programs

Workers == {"w1", "w2"}
OneWorker == {"w1"}

\* PartialProofs supposes plain rules: all the rules here are, but that of test_sum.
ASSUME PlainPrograms == \A r \in RuleId : Apart(r) <=> Rules[r] # SumRules[1]

\* test_mutex: between the return of sync(acquire) and async(release) a client
\* is alone.
Inside(c) ==
  /\ pc[c] = "ready"
  /\ calls[c] \in {<<Async(release)>>, <<Async(release), Sync(acquire), Async(release)>>}
MutualExclusion == \A c, d \in Client : Inside(c) /\ Inside(d) => c = d
==============================================================================
