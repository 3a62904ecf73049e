----------------------------- MODULE MCThreadPool ----------------------------
(***************************************************************************)
(* Model checking of ThreadPool: the clients of a test program and a task  *)
(* whose goal loop adds another goal.                                      *)
(***************************************************************************)
EXTENDS ThreadPool

Tasks == {"leaf", "branch"}
Spawns == [x \in Tasks |-> IF x = "branch" THEN <<"leaf">> ELSE << >>]

TwoClients == {"c1", "c2"}
TwoWorkers == {"w1", "w2"}
JoinScript == [c \in TwoClients |->
  IF c = "c1" THEN <<"branch", "join", "leaf", "join">> ELSE <<"leaf", "join">>]
StopScript == [c \in TwoClients |->
  IF c = "c1" THEN <<"branch", "join", "leaf", "stop">> ELSE <<"leaf", "join">>]
PoolScripts == {JoinScript, StopScript}

OneClient == {"c1"}
OneWorker == {"w1"}
WaitScripts == {[c \in OneClient |-> <<"leaf", "join">>]}
==============================================================================
