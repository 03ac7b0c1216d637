--------------------------- MODULE BuildPipelineMC ---------------------------
(* Three processes of any kind, two sources. *)
EXTENDS BuildPipeline, TLC

CONSTANTS b1, b2, b3, k1, k2

Builds == {b1, b2, b3}

\* Once a live build has lost the unit lock both properties are excused, for
\* robbed, overran and the killed only grow: what comes after is not explored.
UntilLost == ~LockLost

\* Two sources at least, for among builds of one nothing could be mixed up, and
\* one build at least that does not use the cache: three cached builds among
\* themselves are CompileCache's subject, and in the unit a cached build is like
\* any other.
Mixed ==
  /\ \E p, q \in Process : key[p] # key[q]
  /\ \E p \in Process : kind[p] # "cached"

\* b1 may be killed; b2 and b3 differ in nothing but their names, and so do keys.
PipelineSymmetry == Permutations({b2, b3}) \cup Permutations({k1, k2})

=============================================================================
