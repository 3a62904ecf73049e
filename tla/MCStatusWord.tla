----------------------------- MODULE MCStatusWord ----------------------------
(***************************************************************************)
(* Model checking of StatusWord: three threads on one word whose halves    *)
(* have four values, enough for all the copies that are added.             *)
(***************************************************************************)
EXTENDS StatusWord

Threads == {"t1", "t2", "t3"}
==============================================================================
