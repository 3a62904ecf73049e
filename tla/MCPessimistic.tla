----------------------------- MODULE MCPessimistic ----------------------------
(***************************************************************************)
(* Model checking of Pessimistic on the programs of Programs.tla.           *)
(***************************************************************************)
EXTENDS Pessimistic, EngineProperties, Programs

Workers == {"w1", "w2"}
OneWorker == {"w1"}

\* test_mutex: between the return of sync(acquire) and async(release) a client
\* is alone.
Inside(c) == pc[c] = "ready" /\ calls[c] = <<Async(release)>>
MutualExclusion == \A c, d \in Client : Inside(c) /\ Inside(d) => c = d

\* What the proofs about Pessimistic ask of a program holds of these.
ASSUME TheoremsApply == Orderly /\ OneRule
==============================================================================
