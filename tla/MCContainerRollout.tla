------------------------- MODULE MCContainerRollout -------------------------
(* Small instances of ContainerRollout. *)
EXTENDS ContainerRollout, TLC

CONSTANTS a1, a2, v1, v2, v3

\* Nothing tells one version, or one invocation, from another.
Symmetry == Permutations(Versions) \cup Permutations(Actors)
=============================================================================
