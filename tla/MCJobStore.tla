----------------------------- MODULE MCJobStore -----------------------------
(* Instances of JobStore for TLC.                                          *)
EXTENDS JobStore, TLC

CONSTANTS j1, j2, github, other, large

\* One job any runner of the platform can take, one that needs a label.
AllOnGithub == j1 :> github @@ j2 :> github
OneNeedsLabel == j1 :> {} @@ j2 :> {large}

FlavorSymmetry == Permutations(Names)

=============================================================================
