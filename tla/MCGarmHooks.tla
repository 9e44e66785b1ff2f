----------------------------- MODULE MCGarmHooks -----------------------------
(* Symmetry for GarmHooks. *)
EXTENDS GarmHooks, TLC

UnitSymmetry == Permutations(Units) \union Permutations(Providers)

=============================================================================
