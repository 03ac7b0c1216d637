--------------------------- MODULE CompileCacheMC ---------------------------
(* Three concurrent builds in one project. *)
EXTENDS CompileCache, TLC

CONSTANTS b1, b2, b3, k1, k2

Builds == {b1, b2, b3}

\* The builds differ in nothing but their names.
BuildSymmetry == Permutations(Builds)

=============================================================================
