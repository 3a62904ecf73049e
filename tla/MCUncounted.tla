------------------------------ MODULE MCUncounted ----------------------------
(***************************************************************************)
(* Model checking of the uncounted engine on the programs of Programs.tla. *)
(***************************************************************************)
EXTENDS UncountedProperties, Programs

Batch == <<"s1", "s2">>
OneWorker == {"w1"}

\* What the theorems of UncountedProofs suppose of a program holds of all here but
\* either, in which e has two rules, and find in a partial restart.
Families == {PartCon, ForkCon, MapCon, EitherCon}
ASSUME TheoremsApply ==
  \A x \in Setups :
    LET within(T) == \E S \in Families : /\ S \subseteq T /\ BodiesOf(S)
                                         /\ \A c \in Client : CallsOf(S, x.script[c])
    IN  /\ within(OneRuleCon) <=> x.script # EitherAddScript
        /\ within(FaithfulCon(x.mode)) <=> ~(x.mode = "PARTIAL" /\ x.script = FindScript(1))
==============================================================================
