------------------------------- MODULE Multiset ------------------------------
EXTENDS FiniteSets

\* The bag (see Bags) of the values of a function, a sequence for instance.  (The
\* set {f} has TLC compute f once.)
BagOf(f) ==
  CHOOSE b \in {[v \in {g[i] : i \in DOMAIN g} |-> Cardinality({i \in DOMAIN g : g[i] = v})] :
                g \in {f}} : TRUE
==============================================================================
