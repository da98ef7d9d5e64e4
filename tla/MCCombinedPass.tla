--------------------------- MODULE MCCombinedPass ---------------------------
(***************************************************************************)
(* TLC instances of CombinedPass.                                          *)
(***************************************************************************)
EXTENDS CombinedPass, FiniteSets, TLC

InvocationSymmetry == Permutations(Invocations)

\* For the run with four invocations: at most two run at once, one of them may die and an operator,
\* careful or not, comes once to help, which is the situation the environment stop is for.
TwoAtATimeOneDeath ==
  /\ Cardinality({i \in Invocations : ppc[i] \notin {"idle", "landed", "dead"}}) <= 2
  /\ Cardinality({i \in Invocations : ppc[i] = "dead"}) <= 1
  /\ Cardinality(broken) <= 1
=============================================================================
