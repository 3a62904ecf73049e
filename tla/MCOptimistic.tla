----------------------------- MODULE MCOptimistic ----------------------------
(***************************************************************************)
(* Model checking of Optimistic on the programs of Programs.tla.           *)
(***************************************************************************)
EXTENDS Optimistic, EngineProperties, Programs

Workers == {"w1", "w2"}
OneWorker == {"w1"}

\* What KeptReturn and Rewriting of OptimisticProofs suppose is true of every program
\* here but two: blocksworld and the three numbers, whose runs show what happens.
ASSUME OrderlyPrograms == Orderly <=> Rules \notin {BlocksRules, LoneRules}

\* So does TriedGoalsWait, of all of them.
ASSUME ModesAreSet == ModeIsSet

\* test_mutex: between the return of sync(acquire) and async(release) a client
\* is alone.
Inside(c) == pc[c] = "ready" /\ calls[c] = <<Async(release)>>
MutualExclusion == \A c, d \in Client : Inside(c) /\ Inside(d) => c = d
==============================================================================
