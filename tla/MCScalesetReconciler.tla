------------------------ MODULE MCScalesetReconciler ------------------------
(* Small instances of ScalesetReconciler: label sets that overlap in x, and *)
(* that nothing tells apart but their other label.                          *)
EXTENDS ScalesetReconciler, TLC

CONSTANTS x, a, b

TwoLabelSets == {{x, a}, {x, b}}

LabelSymmetry == Permutations({a, b})

\* For the liveness run, where symmetry is not sound: the spec first asks for
\* {x, a}, and with runner options its labels change once only.
ConvergenceSpec ==
  /\ Init /\ want \in [Specs -> {{x, a}}]
  /\ [][Next /\ (opts # {} => relabels' <= 1)]_vars
  /\ Fairness

=============================================================================
