-------------------------------- MODULE MCBatch ------------------------------
(***************************************************************************)
(* Model checking of Batch on the programs of Programs.tla.                *)
(***************************************************************************)
EXTENDS Batch, EngineProperties, Programs

TwoSlots == <<"s1", "s2">>
WorkersAndSlots == {"w1", "w2", "s1", "s2"}

\* A goal becomes passive only when no rule is applicable (WorkerCHR.cpp:31-33):
\* when run_parallel2 returns, get_result2 finds no match, although most goals are
\* tried once only and those it finds neither pending nor claimed are dropped.
BatchComplete == drive.at = "end" => NoLostMatch

==============================================================================
